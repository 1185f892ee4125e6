--------------------------- MODULE ProcessorProofs ---------------------------
(***************************************************************************)
(* Proofs about the processor: Cpu.tla, for every program CpuAssumption    *)
(* describes; Alu.tla, for every modulus that four divides.                *)
(***************************************************************************)
EXTENDS Cpu, Alu, TLAPS, SequenceTheorems, WellFoundedInduction

-----------------------------------------------------------------------------
(***************************************************************************)
(* The processor implements StringProgram: between two instructions its    *)
(* stack is of interrupt frames and the registers handlers saved, what it  *)
(* remembers of prefixes belongs to the instruction it repeats, and the    *)
(* shadow of MOV SS still lies on MOV SP (Boundary).  Every instruction,   *)
(* interrupt and trap leads from such a processor to another, and is a     *)
(* step of the program below all handlers or none of it.                   *)
(***************************************************************************)

Fields ==
  {"code", "cs", "ip", "rep", "repAddr", "repMode", "doNothing", "override", "overrideSet", "inhibit",
   "halted", "backFromTrace", "if", "tf", "zf", "down", "cx", "si", "di", "al", "mem", "stack",
   "halfStack", "torn"}

\* t is a processor that differs from s in these fields at most.
Differs(s, t, some) ==
  /\ t = [f \in Fields |-> t[f]]
  /\ \A f \in Fields \ some : t[f] = s[f]

Shape(s) == s = [f \in Fields |-> s[f]]

At(s) == OpcodeAt(CodeOf(s), s.ip)
Repeat(s) == LastPrefix(CodeOf(s), s.ip, Repeats)
Override(s) == LastPrefix(CodeOf(s), s.ip, Overrides)
Opcode(s) == CodeOf(s)[At(s)]
Source(s) == IF Override(s) = "none" THEN "ds" ELSE Override(s)

Decoded(s, d) ==
  /\ Differs(s, d, {"ip", "override", "overrideSet", "rep", "repAddr", "doNothing", "repMode"})
  /\ d.ip = At(s) + 1
  /\ d.overrideSet = (s.overrideSet \/ Override(s) # "none")
  /\ d.override = IF Override(s) = "none" THEN s.override ELSE Override(s)
  /\ Repeat(s) = "none" => d.rep = s.rep /\ d.repAddr = s.repAddr /\ d.doNothing = s.doNothing
  /\ Repeat(s) # "none" => /\ d.rep = TRUE /\ d.repAddr = s.ip /\ d.doNothing = (s.cx = 0)
                           /\ d.repMode = IF Opcode(s) \in Compares THEN Repeat(s) ELSE "always"

LEMMA DecodeResult ==
  ASSUME NEW s, Shape(s)
  PROVE  Decoded(s, Decode(s))
<1> DEFINE at == At(s)
           repeat == Repeat(s)
           override == Override(s)
           i == at + 1
           o == s.overrideSet \/ override # "none"
           v == IF override = "none" THEN s.override ELSE override
           n == s.cx = 0
           m == IF Opcode(s) \in Compares THEN repeat ELSE "always"
           t == [s EXCEPT !.ip = i, !.overrideSet = o, !.override = v]
           u == [t EXCEPT !.rep = TRUE, !.repAddr = s.ip, !.doNothing = n, !.repMode = m]
           d == Decode(s)
<1>1. d = IF repeat = "none" THEN t ELSE u
  BY Zenon DEF Decode, At, Repeat, Override, Opcode
<1> HIDE DEF d, i, o, v, n, m
<1>7. t = [s EXCEPT !.ip = i, !.overrideSet = o, !.override = v]
  OBVIOUS
<1> HIDE DEF t
<1>8. u = [t EXCEPT !.rep = TRUE, !.repAddr = s.ip, !.doNothing = n, !.repMode = m]
  OBVIOUS
<1> HIDE DEF u
<1>2. Differs(s, t, {"ip", "overrideSet", "override"}) /\ t.ip = i /\ t.overrideSet = o /\ t.override = v
  BY <1>7, Zenon DEF Differs, Shape, Fields
<1>3. Shape(t)
  BY <1>2 DEF Differs, Shape
<1>4. /\ Differs(t, u, {"rep", "repAddr", "doNothing", "repMode"})
      /\ u.rep = TRUE /\ u.repAddr = s.ip /\ u.doNothing = n /\ u.repMode = m
  BY <1>3, <1>8, Zenon DEF Differs, Shape, Fields
<1> HIDE DEF at, repeat, override
<1>5. CASE repeat = "none"
  <2>1. d = t
    BY <1>1, <1>5
  <2>2. d.rep = s.rep /\ d.repAddr = s.repAddr /\ d.doNothing = s.doNothing
    BY <1>2, <2>1 DEF Differs, Fields
  <2>3. Differs(s, d, {"ip", "override", "overrideSet", "rep", "repAddr", "doNothing", "repMode"})
    BY <1>2, <2>1 DEF Differs
  <2> QED
    BY <1>2, <1>5, <2>1, <2>2, <2>3 DEF Decoded, d, i, o, v, n, m, at, repeat, override
<1>6. CASE repeat # "none"
  <2>1. d = u
    BY <1>1, <1>6
  <2>2. d.ip = i /\ d.overrideSet = o /\ d.override = v
    BY <1>2, <1>4, <2>1 DEF Differs, Fields
  <2>3. Differs(s, d, {"ip", "override", "overrideSet", "rep", "repAddr", "doNothing", "repMode"})
    BY <1>2, <1>4, <2>1 DEF Differs
  <2> QED
    BY <1>4, <1>6, <2>1, <2>2, <2>3 DEF Decoded, d, i, o, v, n, m, at, repeat, override
<1> QED
  BY <1>5, <1>6


\* A processor that may be between two instructions, as far as a program's own
\* instructions depend on it.
Booleans(s) ==
  /\ s.rep \in BOOLEAN /\ s.overrideSet \in BOOLEAN /\ s.doNothing \in BOOLEAN /\ s.inhibit \in BOOLEAN
  /\ s.halfStack \in BOOLEAN /\ s.torn \in BOOLEAN /\ s.tf \in BOOLEAN /\ s.zf \in BOOLEAN
  /\ s.halted \in BOOLEAN /\ s.backFromTrace \in BOOLEAN /\ s.if \in BOOLEAN

\* What is remembered of prefixes is of the instruction that is repeated.
PrefixesOK(s) ==
  /\ s.rep => s.repAddr = s.ip /\ Repeat(s) # "none"
  /\ s.overrideSet => s.rep /\ Override(s) # "none"
  /\ ~s.doNothing

\* The instruction at s, up to where the trap flag is looked at.
Fetched(s) == Decode([s EXCEPT !.inhibit = FALSE])
AfterOne(s) == PrefixEnd([Execute(Fetched(s), Opcode(s)) EXCEPT !.inhibit = Opcode(s) \in Shadows], Opcode(s))

DecodedFields == {"inhibit", "ip", "override", "overrideSet", "rep", "repAddr", "doNothing", "repMode"}

FetchDone(s, d) ==
  /\ Differs(s, d, DecodedFields)
  /\ Booleans(d) /\ d.inhibit = FALSE
  /\ d.ip = At(s) + 1
  /\ Repeat(s) = "none" => ~d.rep /\ ~d.doNothing
  /\ Repeat(s) # "none" => /\ d.rep /\ d.repAddr = s.ip /\ (d.doNothing <=> s.cx = 0)
                           /\ d.repMode = IF Opcode(s) \in Compares THEN Repeat(s) ELSE "always"
  /\ (IF d.overrideSet THEN d.override ELSE "ds") = Source(s)
  /\ d.overrideSet => Override(s) # "none"

LEMMA FetchedResult ==
  ASSUME NEW s, Shape(s), Booleans(s), PrefixesOK(s)
  PROVE  FetchDone(s, Fetched(s))
<1> DEFINE a == [s EXCEPT !.inhibit = FALSE]
           d == Fetched(s)
<1>1. Differs(s, a, {"inhibit"})
  BY DEF Differs, Shape, Fields
<1>2. d = Decode(a)
  BY DEF Fetched
<1> HIDE DEF a, d
<1>3. /\ Shape(a) /\ a.code = s.code /\ a.cs = s.cs /\ a.ip = s.ip /\ a.rep = s.rep /\ a.cx = s.cx
      /\ a.overrideSet = s.overrideSet /\ a.override = s.override /\ a.doNothing = s.doNothing
  BY <1>1 DEF Differs, Shape, Fields
<1>4. /\ At(a) = At(s) /\ Repeat(a) = Repeat(s) /\ Override(a) = Override(s) /\ Opcode(a) = Opcode(s)
  BY <1>3 DEF At, Repeat, Override, Opcode, CodeOf
<1>5. /\ Differs(a, d, {"ip", "override", "overrideSet", "rep", "repAddr", "doNothing", "repMode"})
      /\ d.ip = At(s) + 1
      /\ d.overrideSet = (s.overrideSet \/ Override(s) # "none")
      /\ d.override = IF Override(s) = "none" THEN s.override ELSE Override(s)
      /\ Repeat(s) = "none" => d.rep = s.rep /\ d.doNothing = s.doNothing
      /\ Repeat(s) # "none" => /\ d.rep = TRUE /\ d.repAddr = s.ip /\ d.doNothing = (s.cx = 0)
                               /\ d.repMode = IF Opcode(s) \in Compares THEN Repeat(s) ELSE "always"
  <2>1. Shape(a)
    BY <1>3
  <2>2. Decoded(a, d)
    BY <1>2, <2>1, DecodeResult
  <2> QED
    BY <1>3, <1>4, <2>2 DEF Decoded
<1>6. Differs(s, d, DecodedFields)
  BY <1>1, <1>5 DEF Differs, DecodedFields
<1>7. Repeat(s) = "none" => ~d.rep /\ ~d.doNothing
  BY <1>5, Zenon DEF PrefixesOK
<1>8. Repeat(s) # "none" => d.rep /\ (d.doNothing <=> s.cx = 0)
  BY <1>5, Zenon
<1>9. Override(s) = "none" => ~d.overrideSet
  BY <1>5, Zenon DEF PrefixesOK
<1>10. Override(s) # "none" => d.overrideSet /\ d.override = Override(s)
  BY <1>5
<1>11. (IF d.overrideSet THEN d.override ELSE "ds") = Source(s)
  BY <1>9, <1>10 DEF Source
<1>12. d.rep \in BOOLEAN /\ d.doNothing \in BOOLEAN /\ d.overrideSet \in BOOLEAN /\ d.inhibit \in BOOLEAN
  <2>1. d.rep \in BOOLEAN /\ d.doNothing \in BOOLEAN
    BY <1>3, <1>5 DEF Booleans
  <2>2. d.overrideSet \in BOOLEAN
    BY <1>5, Zenon
  <2>3. a.inhibit = FALSE
    BY DEF a, Shape, Fields
  <2>4. d.inhibit = a.inhibit
    BY <1>5 DEF Differs, Fields
  <2> QED
    BY <2>1, <2>2, <2>3, <2>4
<1>14. d.inhibit = FALSE
  <2>1. a.inhibit = FALSE
    BY SMTT(30) DEF a, Shape, Fields
  <2>2. d.inhibit = a.inhibit
    BY <1>5, SMTT(30) DEF Differs, Fields
  <2> QED
    BY <2>1, <2>2
<1>13. Booleans(d)
  BY <1>6, <1>12 DEF Booleans, Differs, Fields, DecodedFields
<1> QED
  BY <1>5, <1>6, <1>7, <1>8, <1>9, <1>11, <1>13, <1>14 DEF d, FetchDone

PFields == {"code", "down", "mem", "torn", "pc", "if", "zf", "cx", "si", "di", "al"}

LEMMA ProgramRecord ==
  ASSUME NEW q, q = [f \in PFields |-> q[f]]
  PROVE  q = [code |-> q.code, down |-> q.down, mem |-> q.mem, torn |-> q.torn, pc |-> q.pc, if |-> q.if,
              zf |-> q.zf, cx |-> q.cx, si |-> q.si, di |-> q.di, al |-> q.al]
  BY SMTT(30) DEF PFields


-----------------------------------------------------------------------------
(* String instructions. *)

Effects == {"si", "di", "al", "zf", "mem"}

OnceDone(s, op, source, a, D) ==
  /\ a = [f \in D |-> a[f]]
  /\ \A f \in D \ Effects : a[f] = s[f]
  /\ a.si = IF op \in {"movs", "lods", "cmps"} THEN Along(s, s.si) ELSE s.si
  /\ a.di = IF op = "lods" THEN s.di ELSE Along(s, s.di)
  /\ a.al = IF op = "lods" THEN s.mem[source][s.si] ELSE s.al
  /\ a.mem = IF op = "movs" THEN [s.mem EXCEPT !["es"][s.di] = s.mem[source][s.si]]
             ELSE IF op = "stos" THEN [s.mem EXCEPT !["es"][s.di] = s.al] ELSE s.mem
  /\ a.zf = IF op = "cmps" THEN s.mem[source][s.si] = s.mem["es"][s.di]
            ELSE IF op = "scas" THEN s.al = s.mem["es"][s.di] ELSE s.zf

LEMMA OnceResult ==
  ASSUME NEW s, NEW D, s = [f \in D |-> s[f]], {"si", "di", "al", "zf", "mem", "down"} \subseteq D,
         NEW op \in Strings, NEW source
  PROVE  OnceDone(s, op, source, Once(s, op, source), D)
<1> USE DEF Once, OnceDone, Effects
<1>1. CASE op = "movs"
  BY <1>1, Zenon DEF Along
<1>2. CASE op = "stos"
  BY <1>2, Zenon DEF Along
<1>3. CASE op = "lods"
  BY <1>3, Zenon DEF Along
<1>4. CASE op = "cmps"
  BY <1>4, Zenon DEF Along
<1>5. CASE op = "scas"
  BY <1>5, Zenon DEF Along
<1> QED
  BY <1>1, <1>2, <1>3, <1>4, <1>5, Zenon DEF Strings, Compares

\* Two machines with the same registers, flag and memory.
Alike(s, t) ==
  /\ s.si = t.si /\ s.di = t.di /\ s.al = t.al /\ s.zf = t.zf /\ s.mem = t.mem /\ s.down = t.down

LEMMA OnceAlike ==
  ASSUME NEW s, NEW t, NEW op, NEW source, NEW a, NEW b, NEW C, NEW D, Alike(s, t),
         OnceDone(s, op, source, a, C), OnceDone(t, op, source, b, D), "down" \in C, "down" \in D
  PROVE  Alike(a, b)
<1>1. Along(s, s.si) = Along(t, t.si) /\ Along(s, s.di) = Along(t, t.di)
  BY DEF Alike, Along
<1>2. a.down = b.down
  BY DEF OnceDone, Alike, Effects
<1>3. a.si = b.si /\ a.di = b.di
  BY <1>1 DEF OnceDone, Alike
<1>4. a.al = b.al
  BY DEF OnceDone, Alike
<1>5. a.mem = b.mem
  BY DEF OnceDone, Alike
<1>6. a.zf = b.zf
  BY DEF OnceDone, Alike
<1> QED
  BY <1>2, <1>3, <1>4, <1>5, <1>6 DEF Alike

\* The count, and whether there is more to repeat.
CountDone(s, t) ==
  /\ Differs(s, t, {"doNothing", "cx", "rep"})
  /\ ~t.doNothing /\ t.doNothing \in BOOLEAN /\ t.rep \in BOOLEAN
  /\ t.rep <=> s.rep /\ ~s.doNothing /\ s.cx # 1
  /\ t.cx = IF s.rep /\ ~s.doNothing THEN s.cx - 1 ELSE s.cx

LEMMA CountResult ==
  ASSUME NEW s, Shape(s), Booleans(s)
  PROVE  CountDone(s, AfterPrefix(s))
<1> DEFINE t == AfterPrefix(s)
           c == IF s.rep /\ ~s.doNothing THEN s.cx - 1 ELSE s.cx
           g == s.rep /\ ~s.doNothing /\ s.cx # 1
<1>1. t = [s EXCEPT !.doNothing = FALSE, !.cx = c, !.rep = g]
  BY Zenon DEF AfterPrefix
<1>2. g \in BOOLEAN
  OBVIOUS
<1> HIDE DEF t, c, g
<1>3. Differs(s, t, {"doNothing", "cx", "rep"}) /\ t.doNothing = FALSE /\ t.cx = c /\ t.rep = g
  BY <1>1, Zenon DEF Differs, Shape, Fields
<1> QED
  BY <1>2, <1>3, Zenon DEF CountDone, t, c, g

\* Whether the instruction at s is to be executed again.
GoesOn(s, op) ==
  /\ s.rep /\ op \in Strings
  /\ s.repMode = "rep" => s.zf
  /\ s.repMode = "repne" => ~s.zf

Ended(s, op, r) ==
  /\ Differs(s, r, {"rep", "overrideSet", "ip"})
  /\ r.rep \in BOOLEAN /\ r.overrideSet \in BOOLEAN
  /\ r.rep <=> GoesOn(s, op)
  /\ r.overrideSet <=> s.overrideSet /\ GoesOn(s, op)
  /\ r.ip = IF GoesOn(s, op) THEN s.repAddr ELSE s.ip

LEMMA EndResult ==
  ASSUME NEW s, Shape(s), s.rep \in BOOLEAN, s.overrideSet \in BOOLEAN, NEW op
  PROVE  Ended(s, op, PrefixEnd(s, op))
<1> DEFINE r == PrefixEnd(s, op)
           g == GoesOn(s, op)
           o == s.overrideSet /\ g
           i == IF g THEN s.repAddr ELSE s.ip
<1>1. r = [s EXCEPT !.rep = g, !.overrideSet = o, !.ip = i]
  BY Zenon DEF PrefixEnd, GoesOn
<1>2. g \in BOOLEAN /\ o \in BOOLEAN
  BY Zenon DEF GoesOn
<1> HIDE DEF r, g, o, i
<1>3. Differs(s, r, {"rep", "overrideSet", "ip"}) /\ r.rep = g /\ r.overrideSet = o /\ r.ip = i
  BY <1>1, Zenon DEF Differs, Shape, Fields
<1> QED
  BY <1>2, <1>3, Zenon DEF Ended, r, g, o, i

StringFields == DecodedFields \cup {"cx"} \cup Effects

\* A string instruction took effect once, or not at all.
StringDone(s, r) ==
  LET once == Once(s, Opcode(s), Source(s))
  IN /\ Differs(s, r, StringFields)
     /\ Booleans(r) /\ ~r.doNothing
     /\ r.rep => r.ip = s.ip /\ r.repAddr = s.ip /\ Repeat(s) # "none"
     /\ r.overrideSet => r.rep /\ Override(s) # "none"
     /\ Repeat(s) = "none" => Alike(r, once) /\ r.cx = s.cx /\ r.ip = At(s) + 1
     /\ Repeat(s) # "none" /\ s.cx = 0 => Alike(r, s) /\ r.cx = s.cx /\ r.ip = At(s) + 1
     /\ Repeat(s) # "none" /\ s.cx # 0 =>
          /\ Alike(r, once) /\ r.cx = s.cx - 1
          /\ r.ip = IF s.cx - 1 = 0 \/ (Opcode(s) \in Compares /\ ~(once.zf <=> Repeat(s) = "rep"))
                    THEN At(s) + 1 ELSE s.ip

LEMMA StringExecuted ==
  ASSUME NEW d, NEW op \in Strings
  PROVE  /\ Execute(d, op) = IF MustRun(d) THEN Once(AfterPrefix(d), op, IF d.overrideSet THEN d.override ELSE "ds")
                             ELSE AfterPrefix(d)
         /\ op \notin Shadows
<1>1. op \notin Shadows
  BY Zenon DEF Shadows, Strings, Compares
<1>2. op \notin {"mov ss", "mov sp", "sti", "cli", "hlt", "int", "iret", "save", "restore", "end"}
  BY Zenon DEF Strings, Compares
<1>3. Execute(d, op) = IF MustRun(d) THEN Once(AfterPrefix(d), op, IF d.overrideSet THEN d.override ELSE "ds")
                       ELSE AfterPrefix(d)
  BY <1>2, Zenon DEF Execute
<1> QED
  BY <1>1, <1>3

LEMMA StringAfter ==
  ASSUME NEW s, Shape(s), Booleans(s), PrefixesOK(s), s.cx \in Nat,
         Opcode(s) \in Strings, Repeat(s) \in Repeats \cup {"none"}
  PROVE  StringDone(s, AfterOne(s))
<1> DEFINE op == Opcode(s)
           d == Fetched(s)
           source == Source(s)
           t == AfterPrefix(d)
           e == Execute(d, op)
           i == [e EXCEPT !.inhibit = op \in Shadows]
           r == AfterOne(s)
           once == Once(s, op, source)
<1>1. FetchDone(s, d)
  BY FetchedResult
<1>2. r = PrefixEnd(i, op)
  BY DEF AfterOne
<1>3. e = IF MustRun(d) THEN Once(t, op, IF d.overrideSet THEN d.override ELSE "ds") ELSE t
  BY StringExecuted
<1>28. op \notin Shadows
  BY StringExecuted
<1>4. i = [e EXCEPT !.inhibit = FALSE]
  <2>1. (op \in Shadows) = FALSE
    BY <1>28
  <2> QED
    BY <2>1
<1> HIDE DEF d, t, e, i, r, op, source, once
<1>5. Shape(d) /\ Booleans(d)
  BY <1>1 DEF FetchDone, Differs, Shape
<1>6. CountDone(d, t)
  BY <1>5, CountResult DEF t
<1>7. Shape(t) /\ Booleans(t)
  BY <1>5, <1>6 DEF CountDone, Differs, Shape, Booleans, Fields
<1>8. Alike(t, s) /\ Alike(s, t)
  BY <1>1, <1>6 DEF FetchDone, CountDone, Differs, DecodedFields, Fields, Alike
<1>9. (IF d.overrideSet THEN d.override ELSE "ds") = source
  BY <1>1 DEF FetchDone, source
<1>10. /\ Shape(e)
       /\ \A f \in Fields \ Effects : e[f] = t[f]
       /\ MustRun(d) => Alike(e, once)
       /\ ~MustRun(d) => e = t
       /\ e.zf \in BOOLEAN
  <2>1. CASE MustRun(d)
    <3>1. e = Once(t, op, source)
      BY <1>3, <1>9, <2>1
    <3>2. OnceDone(t, op, source, e, Fields)
      BY <1>7, <3>1, OnceResult DEF Shape, Fields, op
    <3>3. OnceDone(s, op, source, once, Fields)
      BY OnceResult DEF Shape, Fields, op, once
    <3>4. Alike(e, once)
      <4>1. "down" \in Fields
        BY DEF Fields
      <4> QED
        BY <1>8, <3>2, <3>3, <4>1, OnceAlike
    <3>5. e.zf \in BOOLEAN
      <4>1. t.zf \in BOOLEAN
        BY <1>7 DEF Booleans
      <4> QED
        BY <3>2, <4>1 DEF OnceDone
    <3> QED
      BY <2>1, <3>2, <3>4, <3>5 DEF OnceDone, Shape
  <2>2. CASE ~MustRun(d)
    BY <1>3, <1>7, <2>2 DEF Booleans
  <2> QED
    BY <2>1, <2>2
<1>11. Differs(e, i, {"inhibit"}) /\ i.inhibit = FALSE
  BY <1>4, <1>10 DEF Differs, Shape, Fields
<1>12. Shape(i) /\ i.rep = t.rep /\ i.overrideSet = d.overrideSet /\ i.zf = e.zf /\ i.repMode = d.repMode
       /\ i.repAddr = d.repAddr /\ i.ip = d.ip /\ i.cx = t.cx /\ i.doNothing = t.doNothing
  BY <1>6, <1>10, <1>11 DEF Differs, Shape, Fields, CountDone, Effects
<1>13. Booleans(i)
  BY <1>7, <1>10, <1>11, ZenonT(60) DEF Booleans, Differs, Fields, Effects
<1>14. Ended(i, op, r)
  BY <1>2, <1>12, <1>13, EndResult DEF Booleans
<1>15. Differs(s, r, StringFields)
  <2>1. Differs(s, d, DecodedFields) /\ Differs(d, t, {"doNothing", "cx", "rep"})
        /\ Differs(i, r, {"rep", "overrideSet", "ip"})
    BY <1>1, <1>6, <1>14 DEF FetchDone, CountDone, Ended
  <2> QED
    BY <1>10, <1>11, <2>1 DEF Differs, DecodedFields, StringFields, Effects
<1>16. Booleans(r) /\ ~r.doNothing
  BY <1>6, <1>12, <1>13, <1>14 DEF Booleans, Ended, Differs, Fields, CountDone
<1>17. Alike(r, e)
  BY <1>11, <1>14 DEF Alike, Ended, Differs, Fields
<1>18. r.cx = t.cx
  BY <1>12, <1>14 DEF Ended, Differs, Fields
<1> DEFINE g == GoesOn(i, op)
<1>19. /\ r.rep <=> g
       /\ r.overrideSet <=> i.overrideSet /\ g
       /\ r.ip = IF g THEN i.repAddr ELSE i.ip
  BY <1>14 DEF Ended
<1>20. g <=> t.rep /\ (i.repMode = "rep" => e.zf) /\ (i.repMode = "repne" => ~e.zf)
  BY <1>12, Zenon DEF GoesOn, op
<1>21. t.rep <=> d.rep /\ ~d.doNothing /\ d.cx # 1
  BY <1>6 DEF CountDone
<1>22. d.cx = s.cx
  BY <1>1 DEF FetchDone, Differs, DecodedFields, Fields
<1>23. t.cx = IF d.rep /\ ~d.doNothing THEN s.cx - 1 ELSE s.cx
  BY <1>6, <1>22 DEF CountDone
<1> HIDE DEF g
<1>24. d.ip = At(s) + 1
  BY <1>1 DEF FetchDone
<1>25. CASE Repeat(s) = "none"
  <2>1. ~d.rep /\ ~d.doNothing
    BY <1>1, <1>25 DEF FetchDone
  <2>2. MustRun(d) /\ ~g
    BY <1>20, <1>21, <2>1 DEF MustRun
  <2>3. Alike(r, once)
    BY <1>10, <1>17, <2>2 DEF Alike
  <2>4. r.cx = s.cx /\ r.ip = At(s) + 1
    BY <1>12, <1>18, <1>19, <1>23, <1>24, <2>1, <2>2
  <2>5. ~r.rep /\ ~r.overrideSet
    BY <1>19, <2>2
  <2> QED
    BY <1>15, <1>16, <1>25, <2>3, <2>4, <2>5 DEF StringDone, once, op, source, r
<1>26. CASE Repeat(s) # "none" /\ s.cx = 0
  <2>1. d.rep /\ d.doNothing
    BY <1>1, <1>26 DEF FetchDone
  <2>2. ~MustRun(d) /\ ~g
    BY <1>20, <1>21, <2>1 DEF MustRun
  <2>3. Alike(r, s)
    BY <1>8, <1>10, <1>17, <2>2 DEF Alike
  <2>4. r.cx = s.cx /\ r.ip = At(s) + 1
    BY <1>12, <1>18, <1>19, <1>23, <1>24, <2>1, <2>2
  <2>5. ~r.rep /\ ~r.overrideSet
    BY <1>19, <2>2
  <2> QED
    BY <1>15, <1>16, <1>26, <2>3, <2>4, <2>5 DEF StringDone, once, op, source, r
<1>27. CASE Repeat(s) # "none" /\ s.cx # 0
  <2>1. d.rep /\ ~d.doNothing
    BY <1>1, <1>27 DEF FetchDone
  <2>2. MustRun(d)
    BY <2>1 DEF MustRun
  <2>3. Alike(e, once) /\ e.zf = once.zf
    BY <1>10, <2>2 DEF Alike
  <2>4. Alike(r, once)
    BY <1>17, <2>3 DEF Alike
  <2>5. r.cx = s.cx - 1
    BY <1>18, <1>23, <2>1
  <2>6. i.repAddr = s.ip /\ i.repMode = IF op \in Compares THEN Repeat(s) ELSE "always"
    BY <1>1, <1>12, <1>27 DEF FetchDone, op
  <2>7. t.rep <=> s.cx - 1 # 0
    BY <1>21, <1>22, <2>1
  <2>8. g <=> ~(s.cx - 1 = 0 \/ (op \in Compares /\ ~(once.zf <=> Repeat(s) = "rep")))
    <3>1. CASE op \in Compares
      <4>1. i.repMode = Repeat(s)
        BY <2>6, <3>1
      <4>2. Repeat(s) = "rep" \/ (Repeat(s) = "repne" /\ Repeat(s) # "rep")
        BY <1>27 DEF Repeats
      <4>3. g <=> t.rep /\ (Repeat(s) = "rep" => once.zf) /\ (Repeat(s) = "repne" => ~once.zf)
        BY <1>20, <2>3, <4>1, Zenon
      <4>4. g <=> t.rep /\ (once.zf <=> Repeat(s) = "rep")
        <5>1. CASE Repeat(s) = "rep"
          <6>1. Repeat(s) # "repne"
            BY <5>1
          <6> QED
            BY <4>3, <5>1, <6>1, Zenon
        <5>2. CASE Repeat(s) = "repne" /\ Repeat(s) # "rep"
          BY <4>3, <5>2, Zenon
        <5> QED
          BY <4>2, <5>1, <5>2
      <4> QED
        BY <2>7, <3>1, <4>4
    <3>2. CASE op \notin Compares
      <4>1. i.repMode = "always"
        BY <2>6, <3>2
      <4>2. i.repMode # "rep" /\ i.repMode # "repne"
        BY <4>1
      <4>3. g <=> t.rep
        BY <1>20, <4>2, Zenon
      <4> QED
        BY <2>7, <3>2, <4>3
    <3> QED
      BY <3>1, <3>2
  <2>9. r.ip = IF s.cx - 1 = 0 \/ (op \in Compares /\ ~(once.zf <=> Repeat(s) = "rep"))
               THEN At(s) + 1 ELSE s.ip
    BY <1>12, <1>19, <1>24, <2>6, <2>8
  <2>10. r.rep => r.ip = s.ip /\ r.repAddr = s.ip
    <3>1. r.repAddr = i.repAddr
      BY <1>14 DEF Ended, Differs, Fields
    <3> QED
      BY <1>19, <2>6, <3>1
  <2>11. r.overrideSet => r.rep /\ Override(s) # "none"
    BY <1>1, <1>12, <1>19 DEF FetchDone
  <2> QED
    BY <1>15, <1>16, <1>27, <2>4, <2>5, <2>9, <2>10, <2>11 DEF StringDone, once, op, source, r
<1> QED
  BY <1>25, <1>26, <1>27

-----------------------------------------------------------------------------
(* The code: where an instruction's opcode is and what its prefixes are. *)

LEMMA LeastOf ==
  ASSUME NEW S, S \subseteq Nat, S # {}
  PROVE  Min(S) \in S /\ \A y \in S : Min(S) <= y
<1>1. PICK x \in S : \A y \in S : <<y, x>> \notin OpToRel(<, Nat)
  BY NatLessThanWellFounded, WFMin, Zenon
<1>2. ASSUME NEW y \in S PROVE x <= y
  <2>1. x \in Nat /\ y \in Nat
    OBVIOUS
  <2>2. y < x => <<y, x>> \in OpToRel(<, Nat)
    BY <2>1 DEF OpToRel
  <2>3. ~(y < x)
    BY <1>1, <2>2, Zenon
  <2> QED
    BY <2>1, <2>3
<1> QED
  BY <1>2 DEF Min

LEMMA GreatestOf ==
  ASSUME NEW n \in Nat, NEW S, S \subseteq 0..n, S # {}
  PROVE  Max(S) \in S
<1> DEFINE T == {n - x : x \in S}
<1>1. T \subseteq Nat
  OBVIOUS
<1>5. T # {}
  OBVIOUS
<1> HIDE DEF T
<1>2. Min(T) \in T /\ \A y \in T : Min(T) <= y
  BY <1>1, <1>5, LeastOf
<1>3. PICK x \in S : Min(T) = n - x
  BY <1>2 DEF T
<1>4. \A y \in S : x >= y
  <2> SUFFICES ASSUME NEW y \in S PROVE x >= y
    OBVIOUS
  <2>1. n - y \in T
    BY DEF T
  <2>2. n - x <= n - y /\ x \in Nat /\ y \in Nat
    BY <1>2, <1>3, <2>1
  <2> QED
    BY <2>2
<1> QED
  BY <1>4 DEF Max

LEMMA NoPrefixes ==
  ASSUME NEW code, NEW ip \in Nat, Len(code) \in Nat, ip <= Len(code), code[ip] \notin PrefixBytes, NEW some
  PROVE  OpcodeAt(code, ip) = ip /\ LastPrefix(code, ip, some) = "none"
<1> DEFINE S == {k \in ip..Len(code) : code[k] \notin PrefixBytes}
<1>1. S \subseteq Nat /\ ip \in S /\ \A y \in S : ip <= y
  OBVIOUS
<1>2. OpcodeAt(code, ip) = Min(S)
  BY DEF OpcodeAt
<1> HIDE DEF S
<1>3. Min(S) \in S /\ \A y \in S : Min(S) <= y
  BY <1>1, LeastOf
<1>4. OpcodeAt(code, ip) = ip
  <2>1. Min(S) \in Nat /\ Min(S) <= ip /\ ip <= Min(S)
    BY <1>1, <1>3
  <2> QED
    BY <1>2, <2>1
<1>5. {k \in ip..OpcodeAt(code, ip) - 1 : code[k] \in some} = {}
  BY <1>4
<1> QED
  BY <1>4, <1>5 DEF LastPrefix

\* The instruction at ip in a program.
CodeOK(code, ip) ==
  LET at == OpcodeAt(code, ip)
      repeat == LastPrefix(code, ip, Repeats)
  IN /\ at \in ip..Len(code)
     /\ repeat \in Repeats \cup {"none"}
     /\ repeat # "none" => code[at] \in Strings
     /\ code[at] \notin {"save", "restore", "iret"}
     /\ code[at] = "end" => at = ip
     /\ code[at] # "end" => at + 1 \in 1..Len(code)
     /\ code[at] = "mov ss" => code[OpcodeAt(code, at + 1)] = "mov sp"

LEMMA CodeFacts ==
  ASSUME NEW code \in Programs, NEW ip \in 1..Len(code)
  PROVE  CodeOK(code, ip)
<1>1. Len(code) \in Nat /\ code[Len(code)] = "end"
  <2>1. code \in Seq(STRING) /\ code[Len(code)] = "end"
    BY CpuAssumption, Zenon
  <2> QED
    BY <2>1, LenProperties
<1>2. "end" \notin PrefixBytes
  BY DEF PrefixBytes, Repeats, Overrides
<1> DEFINE S(k) == {l \in k..Len(code) : code[l] \notin PrefixBytes}
           at == OpcodeAt(code, ip)
           found == {k \in ip..at - 1 : code[k] \in Repeats}
           repeat == LastPrefix(code, ip, Repeats)
<1>3. ASSUME NEW k \in 1..Len(code)
      PROVE  OpcodeAt(code, k) \in S(k) /\ \A y \in S(k) : OpcodeAt(code, k) <= y
  <2>1. S(k) \subseteq Nat
    OBVIOUS
  <2>2. Len(code) \in S(k)
    BY <1>1, <1>2
  <2>3. OpcodeAt(code, k) = Min(S(k))
    BY DEF OpcodeAt
  <2> HIDE DEF S
  <2> QED
    BY <2>1, <2>2, <2>3, LeastOf
<1>4. /\ at \in ip..Len(code) /\ code[at] \notin PrefixBytes
      /\ \A k \in ip..at - 1 : code[k] \in PrefixBytes
  <2>1. at \in S(ip) /\ \A y \in S(ip) : at <= y
    BY <1>3
  <2> HIDE DEF at
  <2>2. at \in ip..Len(code) /\ code[at] \notin PrefixBytes
    BY <2>1
  <2>3. ASSUME NEW k \in ip..at - 1 PROVE code[k] \in PrefixBytes
    <3>1. k \in ip..Len(code) /\ ~(at <= k)
      BY <1>1, <2>2
    <3> QED
      BY <2>1, <3>1
  <2> QED
    BY <2>2, <2>3
<1>5. ASSUME NEW k \in ip..at PROVE OpcodeAt(code, k) = at
  <2> DEFINE it == OpcodeAt(code, k)
  <2>1. k \in 1..Len(code)
    BY <1>1, <1>4
  <2>2. it \in S(k) /\ \A y \in S(k) : it <= y
    BY <1>3, <2>1
  <2>3. at \in S(ip) /\ \A y \in S(ip) : at <= y
    BY <1>3
  <2> HIDE DEF it, at
  <2>4. at \in S(k) /\ it \in S(ip)
    BY <1>1, <2>1, <2>2, <2>3
  <2>5. at <= it /\ it <= at /\ at \in Nat /\ it \in Nat
    BY <2>1, <2>2, <2>3, <2>4
  <2> QED
    BY <2>5 DEF it
<1>6. repeat = IF found = {} THEN "none" ELSE code[Max(found)]
  BY DEF LastPrefix
<1> HIDE DEF S, at, repeat
<1>7. found # {} => Max(found) \in found
  <2>1. found \subseteq 0..Len(code)
    BY <1>1, <1>4
  <2> HIDE DEF found
  <2> QED
    BY <1>1, <2>1, GreatestOf
<1>8. found # {} => Max(found) \in ip..at /\ Max(found) \in 1..Len(code) /\ code[Max(found)] \in Repeats
  <2> SUFFICES ASSUME found # {}
               PROVE  Max(found) \in ip..at /\ Max(found) \in 1..Len(code) /\ code[Max(found)] \in Repeats
    OBVIOUS
  <2> DEFINE x == Max(found)
  <2>1. x \in found
    BY <1>7
  <2> HIDE DEF x
  <2>2. x \in ip..at /\ x \in 1..Len(code) /\ code[x] \in Repeats
    BY <1>1, <1>4, <2>1
  <2> QED
    BY <2>2 DEF x
<1> HIDE DEF found
<1>9. repeat \in Repeats \cup {"none"}
  BY <1>6, <1>8
<1>10. repeat # "none" => code[at] \in Strings
  <2> SUFFICES ASSUME repeat # "none" PROVE code[at] \in Strings
    OBVIOUS
  <2>1. PICK k \in ip..at : k \in 1..Len(code) /\ code[k] \in Repeats
    BY <1>6, <1>8
  <2>2. code[OpcodeAt(code, k)] \in Strings
    BY <2>1, CpuAssumption, Zenon
  <2> QED
    BY <1>5, <2>2
<1>11. code[at] = "end" => at = ip
  <2> SUFFICES ASSUME at # ip PROVE code[at] # "end"
    OBVIOUS
  <2>1. ip \in ip..at - 1
    BY <1>1, <1>4
  <2>2. code[ip] \in PrefixBytes
    BY <1>4, <2>1
  <2> QED
    BY <2>2, CpuAssumption, Zenon DEF at
<1>12. code[at] # "end" => at + 1 \in 1..Len(code)
  BY <1>1, <1>4
<1>13. at \in 1..Len(code)
  BY <1>1, <1>4
<1>14. code[at] \notin {"save", "restore", "iret"} /\ (code[at] = "mov ss" => code[OpcodeAt(code, at + 1)] = "mov sp")
  BY <1>13, CpuAssumption, Zenon
<1> QED
  BY <1>4, <1>9, <1>10, <1>11, <1>12, <1>14, Zenon DEF CodeOK, at, repeat

-----------------------------------------------------------------------------
(* The stack: frames of interrupts, each with the registers its handler     *)
(* saved on it.                                                             *)

IsStack(q) == \E S : q \in Seq(S)

LEMMA Pushed ==
  ASSUME NEW q, IsStack(q), NEW e
  PROVE  /\ IsStack(Append(q, e)) /\ Len(q) \in Nat /\ Len(Append(q, e)) = Len(q) + 1
         /\ DOMAIN q = 1..Len(q) /\ DOMAIN Append(q, e) = 1..Len(q) + 1
         /\ Append(q, e)[Len(q) + 1] = e
         /\ \A k \in 1..Len(q) : Append(q, e)[k] = q[k]
<1>1. PICK S : q \in Seq(S)
  BY DEF IsStack
<1> DEFINE T == S \cup {e}
<1>2. q \in Seq(T)
  <2>1. Len(q) \in Nat /\ q \in [1..Len(q) -> S] /\ S \subseteq T
    BY <1>1, LenProperties
  <2>2. q \in [1..Len(q) -> T]
    BY <2>1
  <2> QED
    BY <2>1, <2>2, SeqDef
<1>3. e \in T
  OBVIOUS
<1> HIDE DEF T
<1>4. /\ Append(q, e) \in Seq(T) /\ Len(Append(q, e)) = Len(q) + 1
      /\ \A k \in 1..Len(q) : Append(q, e)[k] = q[k]
      /\ Append(q, e)[Len(q) + 1] = e
  BY <1>2, <1>3, AppendProperties
<1>5. Len(q) \in Nat /\ DOMAIN q = 1..Len(q) /\ DOMAIN Append(q, e) = 1..Len(Append(q, e))
  BY <1>2, <1>4, LenProperties
<1> QED
  BY <1>4, <1>5 DEF IsStack

LEMMA PoppedOff ==
  ASSUME NEW q, IsStack(q), Len(q) > 0, NEW t, t = SubSeq(q, 1, Len(q) - 1)
  PROVE  /\ IsStack(t) /\ Len(q) \in Nat \ {0} /\ Len(t) = Len(q) - 1
         /\ DOMAIN q = 1..Len(q) /\ DOMAIN t = 1..Len(q) - 1
         /\ \A k \in 1..Len(q) - 1 : t[k] = q[k]
<1>1. PICK S : q \in Seq(S)
  BY DEF IsStack
<1>2. Len(q) \in Nat \ {0} /\ DOMAIN q = 1..Len(q)
  BY <1>1, LenProperties
<1>3. \A k \in 1..Len(q) - 1 : q[k] \in S
  BY <1>1, <1>2, ElementOfSeq
<1>4. /\ t \in Seq(S)
      /\ Len(t) = IF 1 <= Len(q) - 1 THEN (Len(q) - 1) - 1 + 1 ELSE 0
      /\ \A k \in 1..(Len(q) - 1) - 1 + 1 : t[k] = q[1 + k - 1]
  BY <1>2, <1>3, SubSeqProperties
<1>5. Len(t) = Len(q) - 1
  BY <1>2, <1>4
<1>6. \A k \in 1..Len(q) - 1 : t[k] = q[k]
  BY <1>2, <1>4
<1>7. DOMAIN t = 1..Len(q) - 1
  BY <1>4, <1>5, LenProperties
<1> QED
  BY <1>2, <1>4, <1>5, <1>6, <1>7 DEF IsStack

IsSaved(item) == "cx" \in DOMAIN item /\ item.cx \in Nat
IsFrame(item) ==
  /\ "cx" \notin DOMAIN item
  /\ item.if \in BOOLEAN /\ item.tf \in BOOLEAN /\ item.zf \in BOOLEAN

\* A handler, or the program, at ip with the first k items of a stack below it.
On(code, cs, ip, stack, k) ==
  \/ cs = "main" /\ k = 0 /\ ip \in 1..Len(code)
  \/ cs = "irq" /\ ip \in 2..4 /\ k > 0 /\ IsSaved(stack[k])
  \/ cs = "irq" /\ ip \in {1, 5} /\ k > 0 /\ IsFrame(stack[k])
  \/ cs = "trap" /\ ip = 1 /\ k > 0 /\ IsFrame(stack[k])
  \/ cs = "int" /\ ip \in {1, 2} /\ k > 0 /\ IsFrame(stack[k])

Stacked(code, stack) ==
  /\ IsStack(stack)
  /\ \A k \in 1..Len(stack) :
       \/ IsSaved(stack[k]) /\ k > 1 /\ IsFrame(stack[k - 1])
       \/ IsFrame(stack[k]) /\ On(code, stack[k].cs, stack[k].ip, stack, k - 1)

StackOK(s) == Stacked(s.code, s.stack) /\ On(s.code, s.cs, s.ip, s.stack, Len(s.stack))

LEMMA OnSame ==
  ASSUME NEW code, NEW cs, NEW ip, NEW p, NEW q, NEW k, On(code, cs, ip, p, k), k > 0 => p[k] = q[k]
  PROVE  On(code, cs, ip, q, k)
  BY DEF On

LEMMA FramePushed ==
  ASSUME NEW code, NEW q, Stacked(code, q), NEW f, IsFrame(f), On(code, f.cs, f.ip, q, Len(q))
  PROVE  /\ Stacked(code, Append(q, f))
         /\ \A v \in {"irq", "trap", "int"} : On(code, v, 1, Append(q, f), Len(Append(q, f)))
<1> DEFINE r == Append(q, f)
           n == Len(q)
<1>1. /\ IsStack(r) /\ n \in Nat /\ Len(r) = n + 1 /\ r[n + 1] = f /\ \A k \in 1..n : r[k] = q[k]
  BY Pushed DEF Stacked
<1> HIDE DEF r
<1>2. ASSUME NEW k \in 1..n
      PROVE  \/ IsSaved(r[k]) /\ k > 1 /\ IsFrame(r[k - 1])
             \/ IsFrame(r[k]) /\ On(code, r[k].cs, r[k].ip, r, k - 1)
  <2>1. r[k] = q[k] /\ (k - 1 > 0 => q[k - 1] = r[k - 1]) /\ (k > 1 => r[k - 1] = q[k - 1])
    BY <1>1
  <2>2. CASE IsSaved(q[k]) /\ k > 1 /\ IsFrame(q[k - 1])
    BY <2>1, <2>2
  <2>3. CASE IsFrame(q[k]) /\ On(code, q[k].cs, q[k].ip, q, k - 1)
    <3>1. On(code, q[k].cs, q[k].ip, r, k - 1)
      BY <2>1, <2>3, OnSame
    <3> QED
      BY <2>1, <2>3, <3>1
  <2> QED
    BY <2>2, <2>3 DEF Stacked
<1>3. IsFrame(r[n + 1]) /\ On(code, r[n + 1].cs, r[n + 1].ip, r, n)
  <2>1. n > 0 => q[n] = r[n]
    BY <1>1
  <2>2. On(code, f.cs, f.ip, r, n)
    BY <2>1, OnSame
  <2> QED
    BY <1>1, <2>2
<1>4. ASSUME NEW k \in 1..Len(r)
      PROVE  \/ IsSaved(r[k]) /\ k > 1 /\ IsFrame(r[k - 1])
             \/ IsFrame(r[k]) /\ On(code, r[k].cs, r[k].ip, r, k - 1)
  <2>1. k \in 1..n \/ (k = n + 1 /\ k - 1 = n)
    BY <1>1
  <2> QED
    BY <1>2, <1>3, <2>1
<1>5. \A v \in {"irq", "trap", "int"} : On(code, v, 1, r, Len(r))
  BY <1>1, <1>3 DEF On
<1> QED
  BY <1>1, <1>4, <1>5 DEF Stacked, r

LEMMA RegistersPushed ==
  ASSUME NEW code, NEW q, Stacked(code, q), Len(q) > 0, IsFrame(q[Len(q)]), NEW g, IsSaved(g)
  PROVE  Stacked(code, Append(q, g)) /\ On(code, "irq", 2, Append(q, g), Len(Append(q, g)))
<1> DEFINE r == Append(q, g)
           n == Len(q)
<1>1. /\ IsStack(r) /\ n \in Nat \ {0} /\ Len(r) = n + 1 /\ r[n + 1] = g /\ \A k \in 1..n : r[k] = q[k]
  BY Pushed DEF Stacked
<1>7. IsFrame(q[n])
  OBVIOUS
<1> HIDE DEF r, n
<1>2. ASSUME NEW k \in 1..n
      PROVE  \/ IsSaved(r[k]) /\ k > 1 /\ IsFrame(r[k - 1])
             \/ IsFrame(r[k]) /\ On(code, r[k].cs, r[k].ip, r, k - 1)
  <2>1. r[k] = q[k] /\ (k - 1 > 0 => q[k - 1] = r[k - 1]) /\ (k > 1 => r[k - 1] = q[k - 1])
    BY <1>1
  <2>2. CASE IsSaved(q[k]) /\ k > 1 /\ IsFrame(q[k - 1])
    BY <2>1, <2>2
  <2>3. CASE IsFrame(q[k]) /\ On(code, q[k].cs, q[k].ip, q, k - 1)
    <3>1. On(code, q[k].cs, q[k].ip, r, k - 1)
      BY <2>1, <2>3, OnSame
    <3> QED
      BY <2>1, <2>3, <3>1
  <2> QED
    BY <2>2, <2>3 DEF Stacked, n
<1>3. IsSaved(r[n + 1]) /\ n + 1 > 1 /\ IsFrame(r[(n + 1) - 1])
  <2>1. r[n] = q[n] /\ (n + 1) - 1 = n
    BY <1>1
  <2> QED
    BY <1>1, <1>7, <2>1
<1>4. ASSUME NEW k \in 1..Len(r)
      PROVE  \/ IsSaved(r[k]) /\ k > 1 /\ IsFrame(r[k - 1])
             \/ IsFrame(r[k]) /\ On(code, r[k].cs, r[k].ip, r, k - 1)
  <2>1. k \in 1..n \/ k = n + 1
    BY <1>1
  <2> QED
    BY <1>2, <1>3, <2>1
<1>5. On(code, "irq", 2, r, Len(r))
  <2>1. Len(r) > 0 /\ IsSaved(r[Len(r)])
    BY <1>1, <1>3
  <2> QED
    BY <2>1 DEF On
<1> QED
  BY <1>1, <1>4, <1>5 DEF Stacked, r

LEMMA ItemPopped ==
  ASSUME NEW code, NEW q, Stacked(code, q), Len(q) > 0, NEW t, t = SubSeq(q, 1, Len(q) - 1)
  PROVE  /\ Stacked(code, t)
         /\ IsFrame(q[Len(q)]) => On(code, q[Len(q)].cs, q[Len(q)].ip, t, Len(t))
         /\ IsSaved(q[Len(q)]) => On(code, "irq", 5, t, Len(t))
<1> DEFINE n == Len(q)
<1>1. IsStack(t) /\ n \in Nat \ {0} /\ Len(t) = n - 1 /\ \A k \in 1..n - 1 : t[k] = q[k]
  BY PoppedOff DEF Stacked
<1>2. ASSUME NEW k \in 1..n
      PROVE  \/ IsSaved(q[k]) /\ k > 1 /\ IsFrame(t[k - 1])
             \/ IsFrame(q[k]) /\ On(code, q[k].cs, q[k].ip, t, k - 1)
  <2>1. (k - 1 > 0 => q[k - 1] = t[k - 1]) /\ (k > 1 => t[k - 1] = q[k - 1])
    BY <1>1
  <2>2. CASE IsSaved(q[k]) /\ k > 1 /\ IsFrame(q[k - 1])
    BY <2>1, <2>2
  <2>3. CASE IsFrame(q[k]) /\ On(code, q[k].cs, q[k].ip, q, k - 1)
    <3>1. On(code, q[k].cs, q[k].ip, t, k - 1)
      BY <2>1, <2>3, OnSame
    <3> QED
      BY <2>3, <3>1
  <2> QED
    BY <2>2, <2>3 DEF Stacked
<1>3. ASSUME NEW k \in 1..Len(t)
      PROVE  \/ IsSaved(t[k]) /\ k > 1 /\ IsFrame(t[k - 1])
             \/ IsFrame(t[k]) /\ On(code, t[k].cs, t[k].ip, t, k - 1)
  <2>1. k \in 1..n /\ t[k] = q[k]
    BY <1>1
  <2> QED
    BY <1>2, <2>1
<1>4. n \in 1..n /\ n - 1 = Len(t)
  BY <1>1
<1>5. IsFrame(q[n]) => On(code, q[n].cs, q[n].ip, t, Len(t))
  BY <1>2, <1>4 DEF IsFrame, IsSaved
<1>6. IsSaved(q[n]) => n > 1 /\ IsFrame(t[Len(t)])
  BY <1>2, <1>4 DEF IsFrame, IsSaved
<1>7. IsSaved(q[n]) => On(code, "irq", 5, t, Len(t))
  BY <1>1, <1>6 DEF On
<1> QED
  BY <1>1, <1>3, <1>5, <1>7 DEF Stacked

-----------------------------------------------------------------------------
(* The program below the handlers. *)

\* q is p with an item on top.
Above(p, q, item) ==
  \E n \in Nat : /\ DOMAIN p = 1..n /\ DOMAIN q = 1..n + 1 /\ q[n + 1] = item
                 /\ \A k \in 1..n : q[k] = p[k]

LEMMA AboveFrame ==
  ASSUME NEW lo, NEW hi, NEW f, Above(lo.stack, hi.stack, f), "cx" \notin DOMAIN f,
         StringRegisters(hi) = StringRegisters(lo)
  PROVE  Own(hi) = Own(lo)
<1>1. PICK n \in Nat : /\ DOMAIN lo.stack = 1..n /\ DOMAIN hi.stack = 1..n + 1 /\ hi.stack[n + 1] = f
                       /\ \A k \in 1..n : hi.stack[k] = lo.stack[k]
  BY DEF Above
<1>2. Saved(lo) \subseteq 1..n /\ Saved(lo) \subseteq Nat
  BY <1>1 DEF Saved
<1>3. Saved(hi) = Saved(lo)
  <2>1. \A k \in 1..n + 1 : k \in 1..n \/ k = n + 1
    OBVIOUS
  <2>2. 1..n \subseteq 1..n + 1
    OBVIOUS
  <2> QED
    BY <1>1, <2>1, <2>2 DEF Saved
<1>4. Saved(lo) # {} => Min(Saved(lo)) \in 1..n
  BY <1>2, LeastOf
<1> QED
  BY <1>1, <1>3, <1>4 DEF Own

LEMMA LeastIs ==
  ASSUME NEW S, S \subseteq Nat, NEW x \in S, \A y \in S : x <= y
  PROVE  Min(S) = x
<1>1. Min(S) \in S /\ \A y \in S : Min(S) <= y
  BY LeastOf
<1>2. Min(S) \in Nat /\ x \in Nat /\ Min(S) <= x /\ x <= Min(S)
  BY <1>1
<1> QED
  BY <1>2

SameRegisters(a, b) == a.cx = b.cx /\ a.si = b.si /\ a.di = b.di /\ a.al = b.al

LEMMA AboveRegisters ==
  ASSUME NEW lo, NEW hi, NEW g, Above(lo.stack, hi.stack, g), "cx" \in DOMAIN g, SameRegisters(lo, g)
  PROVE  SameRegisters(Own(hi), Own(lo))
<1>1. PICK n \in Nat : /\ DOMAIN lo.stack = 1..n /\ DOMAIN hi.stack = 1..n + 1 /\ hi.stack[n + 1] = g
                       /\ \A k \in 1..n : hi.stack[k] = lo.stack[k]
  BY DEF Above
<1> DEFINE L == Saved(lo)
           H == Saved(hi)
<1>2. L \subseteq 1..n /\ L \subseteq Nat
  BY <1>1 DEF Saved
<1>3. H = L \cup {n + 1}
  <2>1. \A k \in 1..n + 1 : k \in 1..n \/ k = n + 1
    OBVIOUS
  <2>2. 1..n \subseteq 1..n + 1 /\ n + 1 \in 1..n + 1
    OBVIOUS
  <2> QED
    BY <1>1, <2>1, <2>2 DEF Saved
<1>4. Own(lo) = IF L = {} THEN StringRegisters(lo) ELSE lo.stack[Min(L)]
  BY DEF Own
<1>5. H # {} /\ Own(hi) = hi.stack[Min(H)]
  BY <1>3 DEF Own
<1> HIDE DEF L, H
<1>6. H \subseteq Nat
  BY <1>2, <1>3
<1>7. CASE L = {}
  <2>1. Min(H) = n + 1
    <3>1. n + 1 \in H /\ \A y \in H : n + 1 <= y
      BY <1>3, <1>7
    <3> QED
      BY <1>6, <3>1, LeastIs
  <2>2. Own(hi) = g
    BY <1>1, <1>5, <2>1
  <2>3. Own(lo) = StringRegisters(lo)
    BY <1>4, <1>7
  <2> QED
    BY <2>2, <2>3 DEF SameRegisters, StringRegisters
<1>8. CASE L # {}
  <2>1. Min(L) \in L /\ \A y \in L : Min(L) <= y
    BY <1>2, <1>8, LeastOf
  <2>2. Min(L) \in 1..n
    BY <1>2, <2>1
  <2> DEFINE x == Min(L)
  <2> HIDE DEF x
  <2>3. x \in H /\ \A y \in H : x <= y
    <3>1. x \in L /\ (\A y \in L : x <= y) /\ x <= n + 1
      BY <2>1, <2>2 DEF x
    <3> QED
      BY <1>3, <3>1
  <2>4. Min(H) = x
    BY <1>6, <2>3, LeastIs
  <2>5. Own(hi) = Own(lo)
    BY <1>1, <1>4, <1>5, <1>8, <2>2, <2>4 DEF x
  <2> QED
    BY <2>5 DEF SameRegisters
<1> QED
  BY <1>7, <1>8

LEMMA PushIsAbove ==
  ASSUME NEW q, IsStack(q), NEW e
  PROVE  Above(q, Append(q, e), e)
<1>1. /\ Len(q) \in Nat /\ DOMAIN q = 1..Len(q) /\ DOMAIN Append(q, e) = 1..Len(q) + 1
      /\ Append(q, e)[Len(q) + 1] = e /\ \A k \in 1..Len(q) : Append(q, e)[k] = q[k]
  BY Pushed, SMTT(30)
<1> QED
  BY <1>1, Zenon DEF Above

LEMMA PopIsBelow ==
  ASSUME NEW q, IsStack(q), Len(q) > 0, NEW t, t = SubSeq(q, 1, Len(q) - 1)
  PROVE  Above(t, q, q[Len(q)])
<1>1. /\ Len(q) \in Nat \ {0} /\ DOMAIN q = 1..Len(q) /\ DOMAIN t = 1..Len(q) - 1
      /\ \A k \in 1..Len(q) - 1 : t[k] = q[k]
  BY PoppedOff
<1>2. Len(q) - 1 \in Nat /\ (Len(q) - 1) + 1 = Len(q)
  BY <1>1
<1> QED
  BY <1>1, <1>2, Zenon DEF Above

\* Two processors with the same program in them.
LEMMA SameProgram ==
  ASSUME NEW s, NEW r, r.code = s.code, r.down = s.down, r.mem = s.mem, r.torn = s.torn,
         SameRegisters(Own(r), Own(s)), NEW pc, NEW if, NEW zf,
         pc = (IF Interrupted(s) THEN Outermost(s).ip ELSE s.ip),
         if = (IF Interrupted(s) THEN Outermost(s).if ELSE s.if),
         zf = (IF Interrupted(s) THEN Outermost(s).zf ELSE s.zf),
         pc = (IF Interrupted(r) THEN Outermost(r).ip ELSE r.ip),
         if = (IF Interrupted(r) THEN Outermost(r).if ELSE r.if),
         zf = (IF Interrupted(r) THEN Outermost(r).zf ELSE r.zf)
  PROVE  ProgramOf(r) = ProgramOf(s)
  BY DEF ProgramOf, SameRegisters

-----------------------------------------------------------------------------
(* Between two instructions. *)

ShadowOK(s) ==
  s.halfStack => s.inhibit /\ ~s.halted /\ s.cs = "main" /\ Opcode(s) = "mov sp"

Boundary(s) ==
  /\ Shape(s) /\ Booleans(s) /\ s.cx \in Nat /\ s.code \in Programs
  /\ StackOK(s)
  /\ PrefixesOK(s)
  /\ ShadowOK(s)
  /\ ~s.torn

Vectors == {"irq", "trap", "int"}

\* A handler begins: nothing is on the half of a stack.
EnterFields == {"stack", "torn", "cs", "ip", "if", "tf", "rep", "overrideSet"}

Entered(s, r, vector, ip) ==
  /\ Differs(s, r, EnterFields)
  /\ r.stack = Append(s.stack, Frame(s, ip)) /\ r.torn = (s.torn \/ s.halfStack)
  /\ r.cs = vector /\ r.ip = 1 /\ r.if = FALSE /\ r.tf = FALSE

LEMMA InterruptResult ==
  ASSUME NEW s, Shape(s), NEW vector, s.rep => s.repAddr = s.ip
  PROVE  LET r == InvokeInterrupt(s, vector)
         IN Entered(s, r, vector, s.ip) /\ r.rep = FALSE /\ r.overrideSet = FALSE
<1> DEFINE r == InvokeInterrupt(s, vector)
           f == Frame(s, s.ip)
           q == Append(s.stack, f)
           t == s.torn \/ s.halfStack
           a == [s EXCEPT !.stack = q, !.torn = t]
           b == [a EXCEPT !.rep = FALSE, !.overrideSet = FALSE]
<1>1. Frame(s, IF s.rep THEN s.repAddr ELSE s.ip) = f
  OBVIOUS
<1>2. r = [b EXCEPT !.cs = vector, !.ip = 1, !.if = FALSE, !.tf = FALSE]
  BY <1>1, Zenon DEF InvokeInterrupt, Push, Enter
<1> HIDE DEF r, f, q, t
<1>3. Differs(s, a, {"stack", "torn"}) /\ a.stack = q /\ a.torn = t
  BY Zenon DEF Differs, Shape, Fields
<1>4. Shape(a)
  BY <1>3, Zenon DEF Differs, Shape
<1> HIDE DEF a
<1>5. Differs(a, b, {"rep", "overrideSet"}) /\ b.rep = FALSE /\ b.overrideSet = FALSE
  BY <1>4, Zenon DEF Differs, Shape, Fields
<1>6. Shape(b)
  BY <1>5 DEF Differs, Shape
<1> HIDE DEF b
<1>7. Differs(b, r, {"cs", "ip", "if", "tf"}) /\ r.cs = vector /\ r.ip = 1 /\ r.if = FALSE /\ r.tf = FALSE
  BY <1>2, <1>6, Zenon DEF Differs, Shape, Fields
<1>8. Differs(s, r, EnterFields)
  BY <1>3, <1>5, <1>7 DEF Differs, EnterFields
<1>9. r.stack = q /\ r.torn = t /\ r.rep = FALSE /\ r.overrideSet = FALSE
  BY <1>3, <1>5, <1>7 DEF Differs, Fields
<1> QED
  BY <1>7, <1>8, <1>9 DEF Entered, q, t, f, r

\* What is on the stack, and the program, after a handler began.
LEMMA EnterKeeps ==
  ASSUME NEW s, Shape(s), Booleans(s), s.cx \in Nat, s.code \in Programs, ~s.torn, ~s.halfStack, ~s.doNothing,
         NEW vector \in Vectors, NEW ip, NEW r, Entered(s, r, vector, ip),
         ~r.rep, ~r.overrideSet, r.rep \in BOOLEAN, r.overrideSet \in BOOLEAN,
         Stacked(s.code, s.stack), On(s.code, s.cs, ip, s.stack, Len(s.stack))
  PROVE  /\ Boundary(r)
         /\ ProgramOf(r) = ProgramOf([s EXCEPT !.ip = ip])
<1> DEFINE f == Frame(s, ip)
           a == [s EXCEPT !.ip = ip]
<1>1. /\ Shape(r) /\ r.code = s.code /\ r.cx = s.cx /\ r.si = s.si /\ r.di = s.di /\ r.al = s.al
      /\ r.down = s.down /\ r.mem = s.mem /\ r.zf = s.zf /\ r.doNothing = s.doNothing /\ r.halfStack = s.halfStack
      /\ r.inhibit = s.inhibit /\ r.halted = s.halted /\ r.backFromTrace = s.backFromTrace
  BY DEF Entered, Differs, Shape, Fields, EnterFields
<1>2. r.torn = FALSE
  BY Zenon DEF Entered, Booleans
<1>3. Booleans(r)
  BY <1>1, <1>2 DEF Booleans, Entered
<1>4. IsFrame(f) /\ f.cs = s.cs /\ f.ip = ip /\ f.if = s.if /\ f.zf = s.zf /\ f.tf = s.tf
  BY DEF IsFrame, Frame, Booleans
<1>5. r.stack = Append(s.stack, f) /\ r.cs = vector /\ r.ip = 1
  BY DEF Entered
<1> HIDE DEF f
<1>6. StackOK(r)
  BY <1>1, <1>4, <1>5, FramePushed DEF StackOK, Vectors
<1>7. PrefixesOK(r)
  BY <1>1 DEF PrefixesOK
<1>8. ShadowOK(r)
  BY <1>1, Zenon DEF ShadowOK
<1>9. Boundary(r)
  BY <1>1, <1>2, <1>3, <1>6, <1>7, <1>8 DEF Boundary
<1>10. /\ a.code = s.code /\ a.down = s.down /\ a.mem = s.mem /\ a.torn = s.torn /\ a.stack = s.stack /\ a.cs = s.cs
       /\ a.ip = ip /\ a.if = s.if /\ a.zf = s.zf /\ a.cx = s.cx /\ a.si = s.si /\ a.di = s.di /\ a.al = s.al
  BY DEF Shape, Fields
<1> HIDE DEF a
<1>11. StringRegisters(r) = StringRegisters(a)
  BY <1>1, <1>10 DEF StringRegisters
<1>12. Above(a.stack, r.stack, f)
  BY <1>5, <1>10, PushIsAbove DEF Stacked
<1>13. Own(r) = Own(a)
  BY <1>4, <1>11, <1>12, AboveFrame DEF IsFrame
<1>14. SameRegisters(Own(r), Own(a))
  BY <1>13 DEF SameRegisters
<1>15. Interrupted(r)
  BY <1>5 DEF Interrupted, Vectors
<1>16. Outermost(r) = IF Interrupted(a) THEN Outermost(a) ELSE f
  <2>1. Len(s.stack) \in Nat /\ r.stack[Len(s.stack) + 1] = f /\ \A k \in 1..Len(s.stack) : r.stack[k] = s.stack[k]
    BY <1>5, Pushed DEF Stacked
  <2>2. CASE s.cs = "main"
    <3>1. Len(s.stack) = 0
      BY <2>2 DEF On
    <3>2. r.stack[1] = f
      BY <2>1, <3>1
    <3> QED
      BY <1>10, <2>2, <3>2 DEF Outermost, Interrupted
  <2>3. CASE s.cs # "main"
    <3>1. Len(s.stack) > 0
      BY <2>3 DEF On
    <3>2. r.stack[1] = s.stack[1]
      BY <2>1, <3>1
    <3> QED
      BY <1>10, <2>3, <3>2 DEF Outermost, Interrupted
  <2> QED
    BY <2>2, <2>3
<1>17. /\ (IF Interrupted(r) THEN Outermost(r).ip ELSE r.ip) = (IF Interrupted(a) THEN Outermost(a).ip ELSE a.ip)
       /\ (IF Interrupted(r) THEN Outermost(r).if ELSE r.if) = (IF Interrupted(a) THEN Outermost(a).if ELSE a.if)
       /\ (IF Interrupted(r) THEN Outermost(r).zf ELSE r.zf) = (IF Interrupted(a) THEN Outermost(a).zf ELSE a.zf)
  BY <1>4, <1>10, <1>15, <1>16
<1>18. r.torn = a.torn
  BY <1>2, <1>10 DEF Booleans
<1>19. ProgramOf(r) = ProgramOf(a)
  BY <1>1, <1>10, <1>14, <1>17, <1>18, SameProgram
<1> QED
  BY <1>9, <1>19 DEF a

LEMMA SmallChange ==
  ASSUME NEW s, Boundary(s), NEW r, Differs(s, r, {"halted", "backFromTrace", "inhibit"}),
         r.halted \in BOOLEAN, r.backFromTrace \in BOOLEAN, r.inhibit \in BOOLEAN, ShadowOK(r)
  PROVE  Boundary(r) /\ ProgramOf(r) = ProgramOf(s)
<1>1. /\ Shape(r) /\ r.code = s.code /\ r.cx = s.cx /\ r.si = s.si /\ r.di = s.di /\ r.al = s.al
      /\ r.down = s.down /\ r.mem = s.mem /\ r.zf = s.zf /\ r.doNothing = s.doNothing /\ r.halfStack = s.halfStack
      /\ r.stack = s.stack /\ r.torn = s.torn /\ r.cs = s.cs /\ r.ip = s.ip /\ r.if = s.if /\ r.tf = s.tf
      /\ r.rep = s.rep /\ r.repAddr = s.repAddr /\ r.overrideSet = s.overrideSet
  BY DEF Differs, Shape, Fields
<1>2. Booleans(r)
  BY <1>1 DEF Booleans, Boundary
<1>3. StackOK(r)
  BY <1>1 DEF StackOK, Boundary
<1>4. PrefixesOK(r)
  <2>1. Repeat(r) = Repeat(s) /\ Override(r) = Override(s)
    BY <1>1 DEF Repeat, Override, CodeOf
  <2> QED
    BY <1>1, <2>1 DEF PrefixesOK, Boundary
<1>5. Boundary(r)
  BY <1>1, <1>2, <1>3, <1>4 DEF Boundary
<1>6. Own(r) = Own(s) /\ Outermost(r) = Outermost(s) /\ Interrupted(r) = Interrupted(s)
  <2>1. StringRegisters(r) = StringRegisters(s)
    BY <1>1 DEF StringRegisters
  <2>2. Saved(r) = Saved(s)
    BY <1>1 DEF Saved
  <2> QED
    BY <1>1, <2>1, <2>2 DEF Own, Outermost, Interrupted
<1>7. ProgramOf(r) = ProgramOf(s)
  BY <1>1, <1>6 DEF ProgramOf
<1> QED
  BY <1>5, <1>7

LEMMA InterruptKeeps ==
  ASSUME NEW s, Boundary(s), ~s.inhibit, NEW vector \in Vectors
  PROVE  Boundary(InvokeInterrupt(s, vector)) /\ ProgramOf(InvokeInterrupt(s, vector)) = ProgramOf(s)
<1> DEFINE r == InvokeInterrupt(s, vector)
<1>1. /\ Shape(s) /\ Booleans(s) /\ s.cx \in Nat /\ s.code \in Programs /\ ~s.torn
      /\ StackOK(s) /\ PrefixesOK(s) /\ ShadowOK(s)
  BY DEF Boundary
<1>2. Entered(s, r, vector, s.ip) /\ r.rep = FALSE /\ r.overrideSet = FALSE
  BY <1>1, InterruptResult DEF PrefixesOK
<1>3. ~s.halfStack /\ ~s.doNothing
  BY <1>1, Zenon DEF ShadowOK, PrefixesOK
<1>4. Stacked(s.code, s.stack) /\ On(s.code, s.cs, s.ip, s.stack, Len(s.stack))
  BY <1>1 DEF StackOK
<1> HIDE DEF r
<1>5. Boundary(r) /\ ProgramOf(r) = ProgramOf([s EXCEPT !.ip = s.ip])
  BY <1>1, <1>2, <1>3, <1>4, EnterKeeps
<1>6. [s EXCEPT !.ip = s.ip] = s
  BY <1>1 DEF Shape
<1> QED
  BY <1>5, <1>6 DEF r

\* The trap flag interrupts where a device may.
LEMMA TrappedKeeps ==
  ASSUME NEW s, Boundary(s)
  PROVE  Boundary(Trapped(s)) /\ ProgramOf(Trapped(s)) = ProgramOf(s)
<1> DEFINE t == [s EXCEPT !.backFromTrace = FALSE]
<1>1. Differs(s, t, {"halted", "backFromTrace", "inhibit"}) /\ t.backFromTrace = FALSE
  BY DEF Boundary, Differs, Shape, Fields
<1>2. t.halted = s.halted /\ t.inhibit = s.inhibit /\ t.halfStack = s.halfStack /\ t.cs = s.cs
      /\ t.code = s.code /\ t.ip = s.ip
  BY DEF Boundary, Shape, Fields
<1>3. Trapped(s) = IF s.tf /\ ~s.backFromTrace /\ ~s.inhibit THEN InvokeInterrupt(t, "trap") ELSE t
  BY DEF Trapped
<1> HIDE DEF t
<1>4. ShadowOK(t) /\ t.halted \in BOOLEAN /\ t.inhibit \in BOOLEAN
  <2>1. Opcode(t) = Opcode(s)
    BY <1>2 DEF Opcode, At, CodeOf
  <2> QED
    BY <1>2, <2>1, Zenon DEF ShadowOK, Boundary, Booleans
<1>5. Boundary(t) /\ ProgramOf(t) = ProgramOf(s)
  BY <1>1, <1>4, SmallChange
<1>6. CASE s.tf /\ ~s.backFromTrace /\ ~s.inhibit
  <2>1. Trapped(s) = InvokeInterrupt(t, "trap") /\ ~t.inhibit
    BY <1>2, <1>3, <1>6
  <2>2. "trap" \in Vectors
    BY DEF Vectors
  <2>3. Boundary(InvokeInterrupt(t, "trap")) /\ ProgramOf(InvokeInterrupt(t, "trap")) = ProgramOf(t)
    BY <1>5, <2>1, <2>2, InterruptKeeps
  <2> QED
    BY <1>5, <2>1, <2>3
<1>7. CASE ~(s.tf /\ ~s.backFromTrace /\ ~s.inhibit)
  <2>1. Trapped(s) = t
    BY <1>3, <1>7, Zenon
  <2> QED
    BY <1>5, <2>1
<1> QED
  BY <1>6, <1>7

\* Without a handler the program is what the processor executes.
Plain(s) ==
  [code |-> s.code, down |-> s.down, mem |-> s.mem, torn |-> s.torn, pc |-> s.ip, if |-> s.if, zf |-> s.zf,
   cx |-> s.cx, si |-> s.si, di |-> s.di, al |-> s.al]

LEMMA MainProgram ==
  ASSUME NEW s, StackOK(s), s.cs = "main"
  PROVE  ProgramOf(s) = Plain(s) /\ Len(s.stack) = 0
<1>1. Len(s.stack) = 0
  BY DEF StackOK, On
<1>2. PICK S : s.stack \in Seq(S)
  BY DEF StackOK, Stacked, IsStack
<1>3. DOMAIN s.stack = {}
  BY <1>1, <1>2, LenProperties
<1>4. Saved(s) = {}
  BY <1>3 DEF Saved
<1>5. Own(s) = StringRegisters(s) /\ ~Interrupted(s)
  BY <1>4 DEF Own, Interrupted
<1> QED
  BY <1>1, <1>5 DEF ProgramOf, Plain, StringRegisters

-----------------------------------------------------------------------------
(* Instructions that are not repeated. *)

\* The end of one: nothing is remembered of its prefixes.
Finished(e, op, r) ==
  /\ Differs(e, r, {"inhibit", "rep", "overrideSet"})
  /\ r.rep = FALSE /\ r.overrideSet = FALSE /\ r.inhibit \in BOOLEAN /\ (r.inhibit <=> op \in Shadows)

LEMMA FinishedAfter ==
  ASSUME NEW s, Opcode(s) \notin Strings, NEW e, e = Execute(Fetched(s), Opcode(s)),
         Shape(e), e.rep \in BOOLEAN, e.overrideSet \in BOOLEAN
  PROVE  Finished(e, Opcode(s), AfterOne(s))
<1> DEFINE op == Opcode(s)
           x == op \in Shadows
           i == [e EXCEPT !.inhibit = x]
           r == AfterOne(s)
<1>1. r = PrefixEnd(i, op)
  BY DEF AfterOne
<1>2. x \in BOOLEAN
  OBVIOUS
<1>3. op \notin Strings
  OBVIOUS
<1> HIDE DEF x, r, op
<1>4. Differs(e, i, {"inhibit"}) /\ i.inhibit = x
  BY DEF Differs, Shape, Fields
<1> HIDE DEF i
<1>5. Shape(i) /\ i.rep \in BOOLEAN /\ i.overrideSet \in BOOLEAN
  BY <1>4 DEF Differs, Shape, Fields
<1>6. Ended(i, op, r)
  BY <1>1, <1>5, EndResult
<1>7. ~GoesOn(i, op)
  BY <1>3 DEF GoesOn
<1>8. r.rep = FALSE /\ r.overrideSet = FALSE /\ r.ip = i.ip
  BY <1>6, <1>7 DEF Ended
<1>9. r.inhibit = x
  BY <1>4, <1>6 DEF Ended, Differs, Fields
<1>10. Differs(e, r, {"inhibit", "rep", "overrideSet"})
  <2>1. \A f \in Fields \ {"inhibit", "rep", "overrideSet", "ip"} : r[f] = e[f]
    BY <1>4, <1>6 DEF Ended, Differs
  <2>2. r.ip = e.ip
    BY <1>4, <1>8 DEF Differs, Fields
  <2>3. \A f \in Fields : f \in Fields \ {"inhibit", "rep", "overrideSet", "ip"} \/ f \in {"inhibit", "rep", "overrideSet", "ip"}
    OBVIOUS
  <2> QED
    BY <1>6, <2>1, <2>2, <2>3 DEF Ended, Differs
<1>11. r.inhibit \in BOOLEAN /\ (r.inhibit <=> op \in Shadows)
  BY <1>2, <1>9, Zenon DEF x
<1> QED
  BY <1>8, <1>10, <1>11 DEF Finished, r, op

StackOps == {"int", "iret", "save", "restore"}

Executed(d, op, e) ==
  /\ Differs(d, e, {"halfStack", "if", "halted", "ip"})
  /\ (op = "mov ss" => e.halfStack = TRUE) /\ (op = "mov sp" => e.halfStack = FALSE)
  /\ (op \notin {"mov ss", "mov sp"} => e.halfStack = d.halfStack)
  /\ (op = "sti" => e.if = TRUE) /\ (op = "cli" => e.if = FALSE) /\ (op \notin {"sti", "cli"} => e.if = d.if)
  /\ (op = "hlt" => e.halted = TRUE) /\ (op # "hlt" => e.halted = d.halted)
  /\ e.ip = IF op = "end" THEN d.ip - 1 ELSE d.ip

LEMMA PlainExecuted ==
  ASSUME NEW d, Shape(d), NEW op, op \notin Strings, op \notin StackOps
  PROVE  Executed(d, op, Execute(d, op))
<1> DEFINE e == Execute(d, op)
<1>1. CASE op = "mov ss"
  <2>1. e = [d EXCEPT !.halfStack = TRUE]
    BY <1>1, Zenon DEF Execute
  <2> HIDE DEF e
  <2>3. Executed(d, op, e)
    BY <1>1, <2>1, Zenon DEF Executed, Differs, Shape, Fields
  <2> QED
    BY <2>3 DEF e
<1>2. CASE op = "mov sp"
  <2>1. e = [d EXCEPT !.halfStack = FALSE]
    BY <1>2, Zenon DEF Execute
  <2> HIDE DEF e
  <2>3. Executed(d, op, e)
    BY <1>2, <2>1, Zenon DEF Executed, Differs, Shape, Fields
  <2> QED
    BY <2>3, SMTT(30) DEF e
<1>3. CASE op = "sti"
  <2>1. e = [d EXCEPT !.if = TRUE]
    BY <1>3, Zenon DEF Execute
  <2> HIDE DEF e
  <2>3. Executed(d, op, e)
    BY <1>3, <2>1 DEF Executed, Differs, Shape, Fields
  <2> QED
    BY <2>3, SMTT(30) DEF e
<1>4. CASE op = "cli"
  <2>1. e = [d EXCEPT !.if = FALSE]
    BY <1>4, Zenon DEF Execute
  <2> HIDE DEF e
  <2>3. Executed(d, op, e)
    BY <1>4, <2>1 DEF Executed, Differs, Shape, Fields
  <2> QED
    BY <2>3, SMTT(30) DEF e
<1>5. CASE op = "hlt"
  <2>1. e = [d EXCEPT !.halted = TRUE]
    BY <1>5, Zenon DEF Execute
  <2> HIDE DEF e
  <2>3. Executed(d, op, e)
    BY <1>5, <2>1 DEF Executed, Differs, Shape, Fields
  <2> QED
    BY <2>3, SMTT(30) DEF e
<1>6. CASE op = "end"
  <2>1. e = [d EXCEPT !.ip = d.ip - 1]
    BY <1>6, Zenon DEF Execute
  <2> HIDE DEF e
  <2>3. Executed(d, op, e)
    BY <1>6, <2>1 DEF Executed, Differs, Shape, Fields
  <2> QED
    BY <2>3, SMTT(30) DEF e
<1>7. CASE op \notin {"mov ss", "mov sp", "sti", "cli", "hlt", "end"}
  <2>1. op \notin {"int", "iret", "save", "restore"}
    BY DEF StackOps
  <2>2. e = d
    BY <1>7, <2>1, Zenon DEF Execute
  <2> HIDE DEF e
  <2>3. Executed(d, op, e)
    BY <1>7, <2>2, Zenon DEF Executed, Differs, Shape, Fields
  <2> QED
    BY <2>3, SMTT(30) DEF e
<1> QED
  BY <1>1, <1>2, <1>3, <1>4, <1>5, <1>6, <1>7, Zenon

PlainDone(s, r) ==
  LET op == Opcode(s)
  IN /\ Differs(s, r, DecodedFields \cup {"halfStack", "if", "halted"})
     /\ Booleans(r) /\ ~r.doNothing /\ ~r.rep /\ ~r.overrideSet
     /\ r.inhibit <=> op \in Shadows
     /\ (op = "mov ss" => r.halfStack = TRUE) /\ (op = "mov sp" => r.halfStack = FALSE)
     /\ (op \notin {"mov ss", "mov sp"} => r.halfStack = s.halfStack)
     /\ (op = "sti" => r.if = TRUE) /\ (op = "cli" => r.if = FALSE) /\ (op \notin {"sti", "cli"} => r.if = s.if)
     /\ (op = "hlt" => r.halted = TRUE) /\ (op # "hlt" => r.halted = s.halted)
     /\ r.ip = IF op = "end" THEN (At(s) + 1) - 1 ELSE At(s) + 1

LEMMA PlainAfter ==
  ASSUME NEW s, Shape(s), Booleans(s), PrefixesOK(s), Repeat(s) = "none",
         Opcode(s) \notin Strings, Opcode(s) \notin StackOps
  PROVE  PlainDone(s, AfterOne(s))
<1> DEFINE op == Opcode(s)
           d == Fetched(s)
           e == Execute(d, op)
           r == AfterOne(s)
<1>1. FetchDone(s, d)
  BY FetchedResult
<1>2. Shape(d) /\ Booleans(d)
  BY <1>1 DEF FetchDone, Differs, Shape
<1> HIDE DEF d
<1>3. Executed(d, op, e)
  BY <1>2, PlainExecuted
<1>4. e = Execute(Fetched(s), Opcode(s))
  BY DEF d
<1>5. op \notin Strings
  OBVIOUS
<1> HIDE DEF e, r
<1>6. Shape(e) /\ e.rep = d.rep /\ e.overrideSet = d.overrideSet
  BY <1>3, Zenon DEF Executed, Differs, Shape, Fields
<1>7. Finished(e, op, r)
  BY <1>2, <1>4, <1>6, FinishedAfter DEF Booleans, r
<1> HIDE DEF op
<1>8. Differs(s, r, DecodedFields \cup {"halfStack", "if", "halted"})
  BY <1>1, <1>3, <1>7, Zenon DEF FetchDone, Executed, Finished, Differs, DecodedFields
<1>9. r.halfStack = e.halfStack /\ r.if = e.if /\ r.halted = e.halted /\ r.ip = e.ip /\ r.doNothing = e.doNothing
      /\ r.torn = e.torn /\ r.tf = e.tf /\ r.zf = e.zf /\ r.backFromTrace = e.backFromTrace
  BY <1>7 DEF Finished, Differs, Fields
<1>10. d.halfStack = s.halfStack /\ d.if = s.if /\ d.halted = s.halted /\ d.ip = At(s) + 1
  BY <1>1 DEF FetchDone, Differs, DecodedFields, Fields
<1>11. e.doNothing = d.doNothing /\ e.torn = d.torn /\ e.tf = d.tf /\ e.zf = d.zf /\ e.backFromTrace = d.backFromTrace
  BY <1>3, ZenonT(60) DEF Executed, Differs, Fields
<1>12. ~r.doNothing
  BY <1>1, <1>9, <1>11 DEF FetchDone
<1>13. /\ (op = "mov ss" => r.halfStack = TRUE) /\ (op = "mov sp" => r.halfStack = FALSE)
       /\ (op \notin {"mov ss", "mov sp"} => r.halfStack = s.halfStack)
       /\ (op = "sti" => r.if = TRUE) /\ (op = "cli" => r.if = FALSE) /\ (op \notin {"sti", "cli"} => r.if = s.if)
       /\ (op = "hlt" => r.halted = TRUE) /\ (op # "hlt" => r.halted = s.halted)
  <2>1. /\ (op = "mov ss" => e.halfStack = TRUE) /\ (op = "mov sp" => e.halfStack = FALSE)
        /\ (op \notin {"mov ss", "mov sp"} => e.halfStack = d.halfStack)
        /\ (op = "sti" => e.if = TRUE) /\ (op = "cli" => e.if = FALSE) /\ (op \notin {"sti", "cli"} => e.if = d.if)
        /\ (op = "hlt" => e.halted = TRUE) /\ (op # "hlt" => e.halted = d.halted)
    BY <1>3, Zenon DEF Executed
  <2>2. r.halfStack = e.halfStack /\ r.if = e.if /\ r.halted = e.halted
    BY <1>9
  <2>3. d.halfStack = s.halfStack /\ d.if = s.if /\ d.halted = s.halted
    BY <1>10
  <2> QED
    BY <2>1, <2>2, <2>3, Zenon
<1>15. r.ip = IF op = "end" THEN (At(s) + 1) - 1 ELSE At(s) + 1
  <2>1. e.ip = IF op = "end" THEN d.ip - 1 ELSE d.ip
    BY <1>3, Zenon DEF Executed
  <2>2. r.ip = e.ip
    BY <1>9
  <2>3. d.ip = At(s) + 1
    BY <1>10
  <2> QED
    BY <2>1, <2>2, <2>3
<1>14. Booleans(r)
  <2>1. r.halfStack \in BOOLEAN /\ r.if \in BOOLEAN /\ r.halted \in BOOLEAN
    BY <1>13, Zenon DEF Booleans
  <2>2. r.doNothing \in BOOLEAN /\ r.torn \in BOOLEAN /\ r.tf \in BOOLEAN /\ r.zf \in BOOLEAN /\ r.backFromTrace \in BOOLEAN
    BY <1>2, <1>9, <1>11 DEF Booleans
  <2>3. r.rep \in BOOLEAN /\ r.overrideSet \in BOOLEAN /\ r.inhibit \in BOOLEAN
    BY <1>7 DEF Finished
  <2> QED
    BY <2>1, <2>2, <2>3 DEF Booleans
<1> QED
  BY <1>7, <1>8, <1>12, <1>13, <1>14, <1>15, Zenon DEF PlainDone, Finished, r, op

-----------------------------------------------------------------------------
(* Each instruction of the program is a step of StringProgram. *)

\* StringProgram's step from p to q.
ProgramEffect(p, op) ==
  CASE op = "sti" -> [p EXCEPT !.if = TRUE]
    [] op = "cli" -> [p EXCEPT !.if = FALSE]
    [] OTHER -> p

Repeated(p, op, repeat, once, at, q) ==
  /\ op \in Strings /\ repeat # "none" /\ p.cx # 0
  /\ q = [once EXCEPT !.cx = p.cx - 1,
            !.pc = IF p.cx - 1 = 0 \/ (op \in Compares /\ once.zf # (repeat = "rep")) THEN at + 1 ELSE @]

Steps(p, q) ==
  LET at == OpcodeAt(p.code, p.pc)
      op == p.code[at]
      repeat == LastPrefix(p.code, p.pc, Repeats)
      override == LastPrefix(p.code, p.pc, Overrides)
      once == Once(p, op, IF override = "none" THEN "ds" ELSE override)
  IN \/ op \notin Strings \cup {"end"} /\ q = [ProgramEffect(p, op) EXCEPT !.pc = at + 1]
     \/ op \in Strings /\ repeat = "none" /\ q = [once EXCEPT !.pc = at + 1]
     \/ op \in Strings /\ repeat # "none" /\ p.cx = 0 /\ q = [p EXCEPT !.pc = at + 1]
     \/ Repeated(p, op, repeat, once, at, q)

LEMMA ProgramIs ==
  ASSUME NEW y, y = [f \in PFields |-> y[f]], NEW r, y.code = r.code, y.down = r.down, y.mem = r.mem,
         y.torn = r.torn, y.pc = r.ip, y.if = r.if, y.zf = r.zf, y.cx = r.cx, y.si = r.si, y.di = r.di, y.al = r.al
  PROVE  y = Plain(r)
<1>1. y = [code |-> y.code, down |-> y.down, mem |-> y.mem, torn |-> y.torn, pc |-> y.pc, if |-> y.if,
           zf |-> y.zf, cx |-> y.cx, si |-> y.si, di |-> y.di, al |-> y.al]
  BY ProgramRecord
<1> QED
  BY <1>1 DEF Plain

LEMMA PlainFields ==
  ASSUME NEW s
  PROVE  LET p == Plain(s)
         IN /\ p = [f \in PFields |-> p[f]]
            /\ p.code = s.code /\ p.down = s.down /\ p.mem = s.mem /\ p.torn = s.torn /\ p.pc = s.ip /\ p.if = s.if
            /\ p.zf = s.zf /\ p.cx = s.cx /\ p.si = s.si /\ p.di = s.di /\ p.al = s.al
  BY DEF Plain, PFields

LEMMA StringBoundary ==
  ASSUME NEW s, Boundary(s), NEW r, StringDone(s, r), Opcode(s) \in Strings,
         On(s.code, s.cs, r.ip, s.stack, Len(s.stack))
  PROVE  Boundary(r)
<1>1. /\ Shape(r) /\ r.code = s.code /\ r.cs = s.cs /\ r.stack = s.stack /\ r.halfStack = s.halfStack /\ r.torn = s.torn
  BY DEF StringDone, Differs, Shape, Fields, StringFields, DecodedFields, Effects
<1>2. Booleans(r) /\ ~r.doNothing
  BY DEF StringDone
<1>3. r.cx \in Nat
  <2>1. s.cx \in Nat
    BY DEF Boundary
  <2>2. r.cx = s.cx \/ (r.cx = s.cx - 1 /\ s.cx # 0)
    BY DEF StringDone
  <2> QED
    BY <2>1, <2>2
<1>4. PrefixesOK(r)
  <2>1. r.ip = s.ip => Repeat(r) = Repeat(s) /\ Override(r) = Override(s)
    BY <1>1 DEF Repeat, Override, CodeOf
  <2>2. r.rep => r.ip = s.ip /\ r.repAddr = s.ip /\ Repeat(s) # "none"
    BY DEF StringDone
  <2>3. r.overrideSet => r.rep /\ Override(s) # "none"
    BY DEF StringDone
  <2> QED
    BY <1>2, <2>1, <2>2, <2>3 DEF PrefixesOK
<1>5. ShadowOK(r)
  <2>1. Opcode(s) # "mov sp"
    BY Zenon DEF Strings, Compares
  <2>2. ~s.halfStack
    BY <2>1, Zenon DEF Boundary, ShadowOK
  <2> QED
    BY <1>1, <2>2, Zenon DEF ShadowOK
<1>6. StackOK(r)
  BY <1>1 DEF StackOK, Boundary
<1> QED
  BY <1>1, <1>2, <1>3, <1>4, <1>5, <1>6 DEF Boundary

LEMMA MainString ==
  ASSUME NEW s, Boundary(s), s.cs = "main", Opcode(s) \in Strings
  PROVE  Boundary(AfterOne(s)) /\ Steps(ProgramOf(s), ProgramOf(AfterOne(s)))
<1> DEFINE r == AfterOne(s)
           op == Opcode(s)
           at == At(s)
           p == Plain(s)
           q == Plain(r)
           once == Once(s, op, Source(s))
           ponce == Once(p, op, Source(s))
<1>1. /\ Shape(s) /\ Booleans(s) /\ s.cx \in Nat /\ s.code \in Programs /\ StackOK(s) /\ PrefixesOK(s)
  BY DEF Boundary
<1>2. s.ip \in 1..Len(s.code) /\ CodeOf(s) = s.code
  BY <1>1 DEF StackOK, On, CodeOf
<1>3. CodeOK(s.code, s.ip)
  BY <1>1, <1>2, CodeFacts
<1>4. /\ Repeat(s) \in Repeats \cup {"none"} /\ at + 1 \in 1..Len(s.code)
  <2>1. op # "end"
    BY DEF Strings, Compares
  <2> QED
    BY <1>2, <1>3, <2>1, Zenon DEF CodeOK, Repeat, At, Opcode
<1>5. StringDone(s, r)
  BY <1>1, <1>4, StringAfter
<1> HIDE DEF r
<1>6. r.ip \in 1..Len(s.code)
  <2>1. r.ip = at + 1 \/ r.ip = s.ip
    BY <1>5 DEF StringDone
  <2> QED
    BY <1>2, <1>4, <2>1
<1>7. Len(s.stack) = 0 /\ ProgramOf(s) = p
  BY <1>1, MainProgram
<1>8. Boundary(r)
  <2>1. On(s.code, s.cs, r.ip, s.stack, Len(s.stack))
    BY <1>6, <1>7 DEF On
  <2> QED
    BY <1>5, <2>1, StringBoundary
<1>9. ProgramOf(r) = q
  <2>1. r.cs = s.cs
    BY <1>5 DEF StringDone, Differs, Fields, StringFields, DecodedFields, Effects
  <2> QED
    BY <1>8, <2>1, MainProgram DEF Boundary
<1>10. /\ p = [f \in PFields |-> p[f]]
       /\ p.code = s.code /\ p.down = s.down /\ p.mem = s.mem /\ p.torn = s.torn /\ p.pc = s.ip /\ p.if = s.if
       /\ p.zf = s.zf /\ p.cx = s.cx /\ p.si = s.si /\ p.di = s.di /\ p.al = s.al
  BY PlainFields
<1> HIDE DEF p
<1>11. /\ r.code = s.code /\ r.down = s.down /\ r.torn = s.torn /\ r.if = s.if
  BY <1>5 DEF StringDone, Differs, Fields, StringFields, DecodedFields, Effects
<1>12. /\ OpcodeAt(p.code, p.pc) = at /\ p.code[at] = op /\ LastPrefix(p.code, p.pc, Repeats) = Repeat(s)
       /\ LastPrefix(p.code, p.pc, Overrides) = Override(s)
       /\ Once(p, op, IF Override(s) = "none" THEN "ds" ELSE Override(s)) = ponce
  BY <1>2, <1>10 DEF At, Opcode, Repeat, Override, Source
<1>13. OnceDone(p, op, Source(s), ponce, PFields)
  <2>1. {"si", "di", "al", "zf", "mem", "down"} \subseteq PFields
    BY DEF PFields
  <2> HIDE DEF ponce
  <2> QED
    BY <1>10, <2>1, OnceResult DEF ponce
<1>14. OnceDone(s, op, Source(s), once, Fields)
  <2>1. {"si", "di", "al", "zf", "mem", "down"} \subseteq Fields
    BY DEF Fields
  <2> QED
    BY <1>1, <2>1, OnceResult DEF Shape
<1> HIDE DEF once, ponce
<1>15. Alike(once, ponce)
  <2>1. Alike(s, p) /\ "down" \in PFields /\ "down" \in Fields
    BY <1>10 DEF Alike, PFields, Fields
  <2> QED
    BY <1>13, <1>14, <2>1, OnceAlike
<1>16. /\ ponce = [f \in PFields |-> ponce[f]]
       /\ ponce.code = s.code /\ ponce.down = s.down /\ ponce.torn = s.torn /\ ponce.if = s.if
       /\ ponce.cx = s.cx /\ ponce.pc = s.ip
  BY <1>10, <1>13 DEF OnceDone, PFields, Effects
<1>17. CASE Repeat(s) = "none"
  <2> DEFINE y == [ponce EXCEPT !.pc = at + 1]
  <2>1. Alike(r, once) /\ r.cx = s.cx /\ r.ip = at + 1
    BY <1>5, <1>17 DEF StringDone, once
  <2>2. /\ y = [f \in PFields |-> y[f]] /\ y.pc = at + 1 /\ y.code = ponce.code /\ y.down = ponce.down /\ y.mem = ponce.mem
        /\ y.torn = ponce.torn /\ y.if = ponce.if /\ y.zf = ponce.zf /\ y.cx = ponce.cx /\ y.si = ponce.si /\ y.di = ponce.di
        /\ y.al = ponce.al
    BY <1>16 DEF PFields
  <2> HIDE DEF y
  <2>3. y = q
    BY <1>11, <1>15, <1>16, <2>1, <2>2, ProgramIs DEF Alike
  <2> QED
    BY <1>7, <1>8, <1>9, <1>12, <1>17, <2>3 DEF Steps, y, r
<1>18. CASE Repeat(s) # "none" /\ s.cx = 0
  <2> DEFINE y == [p EXCEPT !.pc = at + 1]
  <2>1. Alike(r, s) /\ r.cx = s.cx /\ r.ip = at + 1
    BY <1>5, <1>18 DEF StringDone
  <2>2. /\ y = [f \in PFields |-> y[f]] /\ y.pc = at + 1 /\ y.code = p.code /\ y.down = p.down /\ y.mem = p.mem
        /\ y.torn = p.torn /\ y.if = p.if /\ y.zf = p.zf /\ y.cx = p.cx /\ y.si = p.si /\ y.di = p.di
        /\ y.al = p.al
    BY <1>10 DEF PFields
  <2> HIDE DEF y
  <2>3. y = q
    BY <1>10, <1>11, <2>1, <2>2, ProgramIs DEF Alike
  <2> QED
    BY <1>7, <1>8, <1>9, <1>10, <1>12, <1>18, <2>3 DEF Steps, y, r
<1>19. CASE Repeat(s) # "none" /\ s.cx # 0
  <2> DEFINE done == s.cx - 1 = 0 \/ (op \in Compares /\ ponce.zf # (Repeat(s) = "rep"))
             y == [ponce EXCEPT !.cx = s.cx - 1, !.pc = IF done THEN at + 1 ELSE @]
  <2>1. /\ Alike(r, once) /\ r.cx = s.cx - 1
        /\ r.ip = IF s.cx - 1 = 0 \/ (op \in Compares /\ ~(once.zf <=> Repeat(s) = "rep")) THEN at + 1 ELSE s.ip
    BY <1>5, <1>19 DEF StringDone, once
  <2>2. (once.zf <=> Repeat(s) = "rep") <=> ~(ponce.zf # (Repeat(s) = "rep"))
    <3>1. once.zf = ponce.zf
      BY <1>15 DEF Alike
    <3>2. once.zf \in BOOLEAN
      <4>1. s.zf \in BOOLEAN
        BY <1>1 DEF Booleans
      <4> QED
        BY <1>14, <4>1 DEF OnceDone
    <3> QED
      BY <3>1, <3>2
  <2>3. r.ip = IF done THEN at + 1 ELSE s.ip
    BY <2>1, <2>2
  <2> HIDE DEF done
  <2>4. /\ y = [f \in PFields |-> y[f]] /\ y.pc = (IF done THEN at + 1 ELSE ponce.pc) /\ y.code = ponce.code
        /\ y.down = ponce.down /\ y.mem = ponce.mem
        /\ y.torn = ponce.torn /\ y.if = ponce.if /\ y.zf = ponce.zf /\ y.cx = s.cx - 1 /\ y.si = ponce.si /\ y.di = ponce.di
        /\ y.al = ponce.al
    BY <1>16 DEF PFields
  <2> HIDE DEF y
  <2>5. y.pc = r.ip
    BY <1>16, <2>3, <2>4
  <2>6. y = q
    BY <1>11, <1>15, <1>16, <2>1, <2>4, <2>5, ProgramIs DEF Alike
  <2>7. Repeated(p, op, Repeat(s), ponce, at, q)
    <3>1. p.cx = s.cx
      BY <1>10
    <3>2. q = [ponce EXCEPT !.cx = p.cx - 1,
                 !.pc = IF p.cx - 1 = 0 \/ (op \in Compares /\ ponce.zf # (Repeat(s) = "rep")) THEN at + 1 ELSE @]
      BY <2>6, <3>1, Zenon DEF y, done
    <3> QED
      BY <1>19, <3>1, <3>2, Zenon DEF Repeated
  <2>8. Steps(p, q)
    BY <1>12, <2>7, Zenon DEF Steps
  <2> QED
    BY <1>7, <1>8, <1>9, <2>8 DEF r
<1> QED
  BY <1>17, <1>18, <1>19

\* The instruction at s is one of the program.
MainCode(s) ==
  /\ s.ip \in 1..Len(s.code) /\ CodeOf(s) = s.code
  /\ Repeat(s) # "none" => Opcode(s) \in Strings
  /\ Opcode(s) \notin {"save", "restore", "iret"}
  /\ Opcode(s) = "end" => At(s) = s.ip
  /\ Opcode(s) # "end" => At(s) + 1 \in 1..Len(s.code)
  /\ Opcode(s) = "mov ss" => s.code[OpcodeAt(s.code, At(s) + 1)] = "mov sp"
  /\ At(s) \in Nat

LEMMA MainFacts ==
  ASSUME NEW s, Boundary(s), s.cs = "main"
  PROVE  MainCode(s)
<1>1. s.code \in Programs /\ StackOK(s)
  BY DEF Boundary
<1>2. s.ip \in 1..Len(s.code) /\ CodeOf(s) = s.code
  BY <1>1 DEF StackOK, On, CodeOf
<1>3. CodeOK(s.code, s.ip)
  BY <1>1, <1>2, CodeFacts
<1>4. s.code \in Seq(STRING)
  BY <1>1, CpuAssumption, Zenon
<1>5. Len(s.code) \in Nat
  BY <1>4, LenProperties
<1>6. At(s) \in s.ip..Len(s.code)
  BY <1>2, <1>3, Zenon DEF CodeOK, At
<1>7. At(s) \in Nat
  BY <1>2, <1>5, <1>6
<1> QED
  BY <1>2, <1>3, <1>7, Zenon DEF MainCode, CodeOK, At, Repeat, Opcode

\* The program below an instruction that takes no part of the stack.
LEMMA MainPlain ==
  ASSUME NEW s, Boundary(s), s.cs = "main", Opcode(s) \notin Strings, Opcode(s) \notin StackOps, ~s.halted
  PROVE  /\ Boundary(AfterOne(s))
         /\ Steps(ProgramOf(s), ProgramOf(AfterOne(s))) \/ ProgramOf(AfterOne(s)) = ProgramOf(s)
<1> DEFINE r == AfterOne(s)
           op == Opcode(s)
           at == At(s)
           p == Plain(s)
           q == Plain(r)
<1>1. /\ Shape(s) /\ Booleans(s) /\ s.cx \in Nat /\ s.code \in Programs /\ StackOK(s) /\ PrefixesOK(s)
      /\ ShadowOK(s) /\ ~s.torn
  BY DEF Boundary
<1>2. MainCode(s)
  BY MainFacts
<1>3. PlainDone(s, r)
  BY <1>1, <1>2, PlainAfter, Zenon DEF MainCode
<1> HIDE DEF r
<1>4. /\ Shape(r) /\ r.code = s.code /\ r.cs = s.cs /\ r.stack = s.stack /\ r.torn = s.torn /\ r.cx = s.cx
      /\ r.down = s.down /\ r.mem = s.mem /\ r.zf = s.zf /\ r.si = s.si /\ r.di = s.di /\ r.al = s.al
  BY <1>3, ZenonT(60) DEF PlainDone, Differs, Shape, Fields, DecodedFields
<1>5. Booleans(r) /\ ~r.doNothing /\ ~r.rep /\ ~r.overrideSet
  BY <1>3, Zenon DEF PlainDone
<1>6. r.ip = IF op = "end" THEN s.ip ELSE at + 1
  <2>1. r.ip = IF op = "end" THEN (at + 1) - 1 ELSE at + 1
    BY <1>3, Zenon DEF PlainDone
  <2>2. at \in Nat /\ (op = "end" => at = s.ip)
    BY <1>2, Zenon DEF MainCode
  <2> HIDE DEF at, op
  <2> QED
    BY <2>1, <2>2
<1>7. r.ip \in 1..Len(s.code)
  BY <1>2, <1>6, Zenon DEF MainCode
<1>8. Len(s.stack) = 0 /\ ProgramOf(s) = p
  BY <1>1, MainProgram
<1>9. StackOK(r)
  BY <1>1, <1>4, <1>7, <1>8 DEF StackOK, On
<1>10. ProgramOf(r) = q
  BY <1>4, <1>9, MainProgram
<1>11. PrefixesOK(r)
  BY <1>5 DEF PrefixesOK
<1>12. ShadowOK(r)
  <2>1. ASSUME r.halfStack PROVE op = "mov ss"
    <3>1. op # "mov sp"
      BY <1>3, <2>1, Zenon DEF PlainDone
    <3>2. ~s.halfStack
      BY <1>1, <3>1, Zenon DEF ShadowOK
    <3> QED
      BY <1>3, <2>1, <3>1, <3>2, Zenon DEF PlainDone
  <2>2. op = "mov ss" => r.inhibit
    BY <1>3, Zenon DEF PlainDone, Shadows
  <2>3. op = "mov ss" => ~r.halted
    BY <1>3, Zenon DEF PlainDone
  <2>4. op = "mov ss" => Opcode(r) = "mov sp"
    BY <1>2, <1>4, <1>6, Zenon DEF MainCode, Opcode, At, CodeOf
  <2> QED
    BY <1>4, <2>1, <2>2, <2>3, <2>4, Zenon DEF ShadowOK
<1>13. Boundary(r)
  BY <1>1, <1>4, <1>5, <1>9, <1>11, <1>12 DEF Boundary
<1>14. CASE op = "end"
  <2>1. r.ip = s.ip /\ r.if = s.if
    BY <1>3, <1>6, <1>14 DEF PlainDone
  <2>2. q = p
    BY <1>4, <2>1 DEF Plain
  <2> QED
    BY <1>8, <1>10, <1>13, <2>2 DEF r
<1>15. CASE op # "end"
  <2>1. /\ p = [f \in PFields |-> p[f]]
        /\ p.code = s.code /\ p.down = s.down /\ p.mem = s.mem /\ p.torn = s.torn /\ p.pc = s.ip /\ p.if = s.if
        /\ p.zf = s.zf /\ p.cx = s.cx /\ p.si = s.si /\ p.di = s.di /\ p.al = s.al
    BY PlainFields
  <2> HIDE DEF p
  <2> DEFINE e == ProgramEffect(p, op)
             y == [e EXCEPT !.pc = at + 1]
  <2>2. /\ e = [f \in PFields |-> e[f]] /\ e.if = r.if
        /\ \A f \in PFields \ {"if"} : e[f] = p[f]
    <3>1. CASE op = "sti"
      <4>1. e = [p EXCEPT !.if = TRUE] /\ r.if = TRUE
        BY <1>3, <3>1, Zenon DEF ProgramEffect, PlainDone
      <4> HIDE DEF e
      <4>2. e = [f \in PFields |-> e[f]] /\ e.if = TRUE /\ \A f \in PFields \ {"if"} : e[f] = p[f]
        BY <2>1, <4>1 DEF PFields
      <4>3. /\ e = [f \in PFields |-> e[f]] /\ e.if = r.if
            /\ \A f \in PFields \ {"if"} : e[f] = p[f]
        BY <4>1, <4>2
      <4> QED
        BY <4>3 DEF e
    <3>2. CASE op = "cli"
      <4>1. e = [p EXCEPT !.if = FALSE] /\ r.if = FALSE
        BY <1>3, <3>2, Zenon DEF ProgramEffect, PlainDone
      <4> HIDE DEF e
      <4>2. e = [f \in PFields |-> e[f]] /\ e.if = FALSE /\ \A f \in PFields \ {"if"} : e[f] = p[f]
        BY <2>1, <4>1 DEF PFields
      <4>3. /\ e = [f \in PFields |-> e[f]] /\ e.if = r.if
            /\ \A f \in PFields \ {"if"} : e[f] = p[f]
        BY <4>1, <4>2
      <4> QED
        BY <4>3, SMTT(30) DEF e
    <3>3. CASE op \notin {"sti", "cli"}
      <4>1. e = p
        BY <3>3, Zenon DEF ProgramEffect
      <4>2. r.if = s.if
        BY <1>3, <3>3, Zenon DEF PlainDone
      <4> HIDE DEF e
      <4>3. /\ e = [f \in PFields |-> e[f]] /\ e.if = r.if
            /\ \A f \in PFields \ {"if"} : e[f] = p[f]
        BY <2>1, <4>1, <4>2
      <4> QED
        BY <4>3, SMTT(30) DEF e
    <3> QED
      BY <3>1, <3>2, <3>3
  <2> HIDE DEF e
  <2>3. /\ y = [f \in PFields |-> y[f]] /\ y.pc = at + 1 /\ \A f \in PFields \ {"pc"} : y[f] = e[f]
    BY <2>2 DEF PFields
  <2> HIDE DEF y
  <2>4. /\ y.code = r.code /\ y.down = r.down /\ y.mem = r.mem /\ y.torn = r.torn /\ y.pc = r.ip /\ y.if = r.if
        /\ y.zf = r.zf /\ y.cx = r.cx /\ y.si = r.si /\ y.di = r.di /\ y.al = r.al
    BY <1>4, <1>6, <1>15, <2>1, <2>2, <2>3 DEF PFields
  <2>5. y = q
    BY <2>3, <2>4, ProgramIs
  <2>6. /\ OpcodeAt(p.code, p.pc) = at /\ p.code[at] = op
    BY <1>2, <2>1, Zenon DEF At, Opcode, MainCode
  <2>7. op \notin Strings \cup {"end"} /\ q = [ProgramEffect(p, op) EXCEPT !.pc = at + 1]
    BY <1>15, <2>5 DEF y, e
  <2>8. Steps(p, q)
    BY <2>6, <2>7, Zenon DEF Steps
  <2> QED
    BY <1>8, <1>10, <1>13, <2>8 DEF r
<1> QED
  BY <1>14, <1>15

LEMMA EnterResult ==
  ASSUME NEW s, Shape(s), NEW vector, NEW ip
  PROVE  LET r == Enter(Push(s, Frame(s, ip)), vector)
         IN Entered(s, r, vector, ip) /\ r.rep = s.rep /\ r.overrideSet = s.overrideSet
<1> DEFINE r == Enter(Push(s, Frame(s, ip)), vector)
           f == Frame(s, ip)
           q == Append(s.stack, f)
           t == s.torn \/ s.halfStack
           a == [s EXCEPT !.stack = q, !.torn = t]
<1>1. r = [a EXCEPT !.cs = vector, !.ip = 1, !.if = FALSE, !.tf = FALSE]
  BY Zenon DEF Push, Enter
<1> HIDE DEF r, f, q, t
<1>2. Differs(s, a, {"stack", "torn"}) /\ a.stack = q /\ a.torn = t
  BY Zenon DEF Differs, Shape, Fields
<1>3. Shape(a)
  BY <1>2, Zenon DEF Differs, Shape
<1> HIDE DEF a
<1>4. Differs(a, r, {"cs", "ip", "if", "tf"}) /\ r.cs = vector /\ r.ip = 1 /\ r.if = FALSE /\ r.tf = FALSE
  BY <1>1, <1>3, Zenon DEF Differs, Shape, Fields
<1>5. Differs(s, r, EnterFields)
  BY <1>2, <1>4 DEF Differs, EnterFields
<1>6. r.stack = q /\ r.torn = t /\ r.rep = s.rep /\ r.overrideSet = s.overrideSet
  BY <1>2, <1>4 DEF Differs, Fields
<1> QED
  BY <1>4, <1>5, <1>6 DEF Entered, q, t, f, r

\* INT begins a handler behind itself.
LEMMA MainInt ==
  ASSUME NEW s, Boundary(s), s.cs = "main", Opcode(s) = "int"
  PROVE  Boundary(AfterOne(s)) /\ Steps(ProgramOf(s), ProgramOf(AfterOne(s)))
<1> DEFINE d == Fetched(s)
           at == At(s)
           e == Execute(d, "int")
           r == AfterOne(s)
           p == Plain(s)
<1>1. /\ Shape(s) /\ Booleans(s) /\ s.cx \in Nat /\ s.code \in Programs /\ StackOK(s) /\ PrefixesOK(s)
      /\ ShadowOK(s) /\ ~s.torn
  BY DEF Boundary
<1>2. MainCode(s)
  BY MainFacts
<1>3. "int" \notin Strings /\ "int" \notin Shadows /\ "int" \in Vectors
  BY DEF Strings, Compares, Shadows, Vectors
<1>4. FetchDone(s, d)
  BY <1>1, FetchedResult
<1>5. Repeat(s) = "none"
  BY <1>2, <1>3 DEF MainCode
<1>6. /\ Shape(d) /\ d.code = s.code /\ d.cs = s.cs /\ d.stack = s.stack /\ d.torn = s.torn /\ d.cx = s.cx
      /\ d.down = s.down /\ d.mem = s.mem /\ d.zf = s.zf /\ d.si = s.si /\ d.di = s.di /\ d.al = s.al /\ d.if = s.if
      /\ d.halfStack = s.halfStack
  BY <1>4 DEF FetchDone, Differs, Shape, Fields, DecodedFields
<1>7. Booleans(d) /\ d.inhibit = FALSE /\ d.ip = at + 1 /\ ~d.rep /\ ~d.doNothing
  BY <1>4, <1>5 DEF FetchDone
<1> HIDE DEF d
<1>8. e = Enter(Push(d, Frame(d, d.ip)), "int")
  <2>1. e = SoftwareInt(d)
    BY <1>3, Zenon DEF Execute
  <2>2. (IF d.rep THEN d.repAddr ELSE d.ip) = d.ip
    BY <1>7
  <2> QED
    BY <2>1, <2>2, Zenon DEF SoftwareInt
<1> HIDE DEF e
<1>9. Entered(d, e, "int", d.ip) /\ e.rep = d.rep /\ e.overrideSet = d.overrideSet
  BY <1>6, <1>8, EnterResult
<1>10. Finished(e, "int", r)
  <2>1. Shape(e) /\ e.rep \in BOOLEAN /\ e.overrideSet \in BOOLEAN
    BY <1>7, <1>9 DEF Entered, Differs, Shape, Booleans
  <2>2. e = Execute(Fetched(s), Opcode(s))
    BY DEF e, d
  <2> QED
    BY <1>3, <2>1, <2>2, FinishedAfter
<1> HIDE DEF r
<1>11. r.inhibit = FALSE
  BY <1>3, <1>10 DEF Finished
<1>12. Entered(d, r, "int", at + 1)
  <2>1. e.inhibit = d.inhibit
    BY <1>9 DEF Entered, Differs, Fields, EnterFields
  <2>2. r.inhibit = e.inhibit
    BY <1>7, <1>11, <2>1
  <2>3. Differs(d, r, EnterFields)
    <3>1. \A f \in Fields \ EnterFields : r[f] = d[f]
      <4> SUFFICES ASSUME NEW f \in Fields \ EnterFields PROVE r[f] = d[f]
        OBVIOUS
      <4>1. e[f] = d[f]
        BY <1>9 DEF Entered, Differs
      <4>2. CASE f = "inhibit"
        BY <2>1, <2>2, <4>2
      <4>3. CASE f # "inhibit"
        BY <1>10, <4>1, <4>3 DEF Finished, Differs, EnterFields
      <4> QED
        BY <4>2, <4>3
    <3> QED
      BY <1>10, <3>1 DEF Finished, Differs
  <2>4. r.stack = e.stack /\ r.torn = e.torn /\ r.cs = e.cs /\ r.ip = e.ip /\ r.if = e.if /\ r.tf = e.tf
    BY <1>10 DEF Finished, Differs, Fields
  <2> QED
    BY <1>7, <1>9, <2>3, <2>4 DEF Entered
<1>13. ~r.rep /\ ~r.overrideSet /\ r.rep \in BOOLEAN /\ r.overrideSet \in BOOLEAN
  BY <1>10 DEF Finished
<1>14. ~d.halfStack
  BY <1>1, <1>6 DEF ShadowOK
<1>15. Len(s.stack) = 0 /\ ProgramOf(s) = p
  BY <1>1, MainProgram
<1>16. Stacked(d.code, d.stack) /\ On(d.code, d.cs, at + 1, d.stack, Len(d.stack))
  BY <1>1, <1>2, <1>6, <1>15 DEF StackOK, On, MainCode
<1>17. d.cx \in Nat /\ d.code \in Programs /\ ~d.torn
  BY <1>1, <1>6
<1>18. Boundary(r) /\ ProgramOf(r) = ProgramOf([d EXCEPT !.ip = at + 1])
  BY <1>3, <1>6, <1>7, <1>12, <1>13, <1>14, <1>16, <1>17, EnterKeeps
<1>19. [d EXCEPT !.ip = at + 1] = d
  BY <1>6, <1>7 DEF Shape
<1>20. ProgramOf(r) = Plain(d)
  <2>1. StackOK(d) /\ d.cs = "main"
    BY <1>6, <1>7, <1>16 DEF StackOK
  <2> QED
    BY <1>18, <1>19, <2>1, MainProgram
<1>21. Plain(d) = [p EXCEPT !.pc = at + 1]
  BY <1>6, <1>7 DEF Plain
<1>22. /\ OpcodeAt(p.code, p.pc) = at /\ p.code[at] = "int"
  BY <1>2 DEF At, Opcode, MainCode, Plain
<1> HIDE DEF p
<1>23. ProgramEffect(p, "int") = p
  BY Zenon DEF ProgramEffect
<1>24. Steps(p, Plain(d))
  BY <1>3, <1>21, <1>22, <1>23, Zenon DEF Steps
<1> QED
  BY <1>15, <1>18, <1>20, <1>24 DEF r

-----------------------------------------------------------------------------
(* The instructions of handlers leave the program as it is. *)

LEMMA HandlerKeeps ==
  ASSUME NEW s, Boundary(s), Interrupted(s),
         NEW r, Shape(r), Booleans(r), r.cx \in Nat, r.code = s.code, r.down = s.down, r.mem = s.mem, r.torn = s.torn,
         ~r.doNothing, ~r.rep, ~r.overrideSet, ~r.halfStack, StackOK(r), SameRegisters(Own(r), Own(s)),
         \/ Interrupted(r) /\ Outermost(r) = Outermost(s)
         \/ ~Interrupted(r) /\ Outermost(s).ip = r.ip /\ Outermost(s).if = r.if /\ Outermost(s).zf = r.zf
  PROVE  Boundary(r) /\ ProgramOf(r) = ProgramOf(s)
<1>1. PrefixesOK(r) /\ ShadowOK(r)
  BY Zenon DEF PrefixesOK, ShadowOK
<1>2. Boundary(r)
  BY <1>1 DEF Boundary
<1>3. /\ (IF Interrupted(r) THEN Outermost(r).ip ELSE r.ip) = (IF Interrupted(s) THEN Outermost(s).ip ELSE s.ip)
      /\ (IF Interrupted(r) THEN Outermost(r).if ELSE r.if) = (IF Interrupted(s) THEN Outermost(s).if ELSE s.if)
      /\ (IF Interrupted(r) THEN Outermost(r).zf ELSE r.zf) = (IF Interrupted(s) THEN Outermost(s).zf ELSE s.zf)
  <2>1. CASE Interrupted(r)
    BY <2>1
  <2>2. CASE ~Interrupted(r)
    BY <2>2
  <2> QED
    BY <2>1, <2>2
<1>4. ProgramOf(r) = ProgramOf(s)
  BY <1>3, SameProgram
<1> QED
  BY <1>2, <1>4

\* Where a handler is.
InHandler(s) ==
  /\ At(s) = s.ip /\ Repeat(s) = "none" /\ Interrupted(s) /\ ~s.halfStack /\ Len(s.stack) > 0
  /\ \/ s.cs = "irq" /\ s.ip = 1 /\ Opcode(s) = "save" /\ IsFrame(Top(s))
     \/ s.cs = "irq" /\ s.ip = 2 /\ Opcode(s) = "sti" /\ IsSaved(Top(s))
     \/ s.cs = "irq" /\ s.ip = 3 /\ Opcode(s) = "lods" /\ IsSaved(Top(s))
     \/ s.cs = "irq" /\ s.ip = 4 /\ Opcode(s) = "restore" /\ IsSaved(Top(s))
     \/ Opcode(s) = "iret" /\ IsFrame(Top(s))
     \/ s.cs = "int" /\ s.ip = 1 /\ Opcode(s) = "nop" /\ IsFrame(Top(s))

LEMMA HandlerFacts ==
  ASSUME NEW s, Boundary(s), s.cs # "main"
  PROVE  InHandler(s)
<1> DEFINE code == Handlers[s.cs]
<1>1. StackOK(s) /\ ShadowOK(s)
  BY DEF Boundary
<1>2. /\ Handlers["irq"] = <<"save", "sti", "lods", "restore", "iret">> /\ Handlers["trap"] = <<"iret">>
      /\ Handlers["int"] = <<"nop", "iret">>
  BY DEF Handlers
<1>3. CodeOf(s) = code
  BY DEF CodeOf
<1>4. On(s.code, s.cs, s.ip, s.stack, Len(s.stack)) /\ Len(s.stack) > 0
  BY <1>1 DEF StackOK, On
<1>5. /\ s.ip \in Nat /\ Len(code) \in Nat /\ s.ip <= Len(code) /\ code[s.ip] \notin PrefixBytes
      /\ \/ s.cs = "irq" /\ s.ip = 1 /\ code[s.ip] = "save" /\ IsFrame(Top(s))
         \/ s.cs = "irq" /\ s.ip = 2 /\ code[s.ip] = "sti" /\ IsSaved(Top(s))
         \/ s.cs = "irq" /\ s.ip = 3 /\ code[s.ip] = "lods" /\ IsSaved(Top(s))
         \/ s.cs = "irq" /\ s.ip = 4 /\ code[s.ip] = "restore" /\ IsSaved(Top(s))
         \/ code[s.ip] = "iret" /\ IsFrame(Top(s))
         \/ s.cs = "int" /\ s.ip = 1 /\ code[s.ip] = "nop" /\ IsFrame(Top(s))
  <2>1. Top(s) = s.stack[Len(s.stack)]
    BY DEF Top
  <2>2. \A x \in {"save", "sti", "lods", "restore", "iret", "nop"} : x \notin PrefixBytes
    BY DEF PrefixBytes, Repeats, Overrides
  <2>3. CASE s.cs = "irq" /\ s.ip \in 2..4 /\ IsSaved(s.stack[Len(s.stack)])
    <3>1. code = <<"save", "sti", "lods", "restore", "iret">>
      BY <1>2, <2>3
    <3> HIDE DEF code
    <3>2. s.ip = 2 \/ s.ip = 3 \/ s.ip = 4
      BY <2>3
    <3> QED
      BY <2>1, <2>2, <2>3, <3>1, <3>2
  <2>4. CASE s.cs = "irq" /\ s.ip \in {1, 5} /\ IsFrame(s.stack[Len(s.stack)])
    <3>1. code = <<"save", "sti", "lods", "restore", "iret">>
      BY <1>2, <2>4
    <3> HIDE DEF code
    <3> QED
      BY <2>1, <2>2, <2>4, <3>1
  <2>5. CASE s.cs = "trap" /\ s.ip = 1 /\ IsFrame(s.stack[Len(s.stack)])
    <3>1. code = <<"iret">>
      BY <1>2, <2>5
    <3> HIDE DEF code
    <3> QED
      BY <2>1, <2>2, <2>5, <3>1
  <2>6. CASE s.cs = "int" /\ s.ip \in {1, 2} /\ IsFrame(s.stack[Len(s.stack)])
    <3>1. code = <<"nop", "iret">>
      BY <1>2, <2>6
    <3> HIDE DEF code
    <3> QED
      BY <2>1, <2>2, <2>6, <3>1
  <2> QED
    BY <1>4, <2>3, <2>4, <2>5, <2>6 DEF On
<1>6. /\ OpcodeAt(code, s.ip) = s.ip /\ LastPrefix(code, s.ip, Repeats) = "none"
  BY <1>5, NoPrefixes
<1>7. At(s) = s.ip /\ Repeat(s) = "none" /\ Opcode(s) = code[s.ip]
  BY <1>3, <1>6 DEF At, Repeat, Opcode
<1>8. Interrupted(s) /\ ~s.halfStack
  BY <1>1, Zenon DEF Interrupted, ShadowOK
<1> HIDE DEF code
<1> QED
  BY <1>4, <1>5, <1>7, <1>8, Zenon DEF InHandler

LEMMA HandlerPlain ==
  ASSUME NEW s, Boundary(s), s.cs # "main", Opcode(s) \in {"sti", "nop"}
  PROVE  Boundary(AfterOne(s)) /\ ProgramOf(AfterOne(s)) = ProgramOf(s)
<1> DEFINE r == AfterOne(s)
           op == Opcode(s)
<1>1. /\ Shape(s) /\ Booleans(s) /\ s.cx \in Nat /\ s.code \in Programs /\ StackOK(s) /\ PrefixesOK(s)
      /\ ShadowOK(s) /\ ~s.torn
  BY DEF Boundary
<1>2. InHandler(s)
  BY HandlerFacts
<1>3. op \notin Strings /\ op \notin StackOps /\ op \notin {"mov ss", "mov sp", "end", "hlt"}
  BY Zenon DEF Strings, Compares, StackOps
<1>4. PlainDone(s, r)
  BY <1>1, <1>2, <1>3, PlainAfter, Zenon DEF InHandler
<1> HIDE DEF r
<1>5. /\ Shape(r) /\ r.code = s.code /\ r.cs = s.cs /\ r.stack = s.stack /\ r.torn = s.torn /\ r.cx = s.cx
      /\ r.down = s.down /\ r.mem = s.mem /\ r.si = s.si /\ r.di = s.di /\ r.al = s.al
  BY <1>4, ZenonT(60) DEF PlainDone, Differs, Shape, Fields, DecodedFields
<1>6. Booleans(r) /\ ~r.doNothing /\ ~r.rep /\ ~r.overrideSet
  BY <1>4, Zenon DEF PlainDone
<1>7. ~r.halfStack
  BY <1>2, <1>3, <1>4, Zenon DEF PlainDone, InHandler
<1>8. r.ip = s.ip + 1
  <2>1. r.ip = At(s) + 1
    BY <1>3, <1>4, Zenon DEF PlainDone
  <2> QED
    BY <1>2, <2>1 DEF InHandler
<1>9. On(r.code, r.cs, r.ip, r.stack, Len(r.stack))
  <2>1. \/ s.cs = "irq" /\ s.ip = 2 /\ IsSaved(s.stack[Len(s.stack)])
        \/ s.cs = "int" /\ s.ip = 1 /\ IsFrame(s.stack[Len(s.stack)])
    BY <1>2 DEF InHandler, Top
  <2> QED
    BY <1>2, <1>5, <1>8, <2>1 DEF On, InHandler
<1>10. StackOK(r)
  BY <1>1, <1>5, <1>9 DEF StackOK
<1>11. Own(r) = Own(s) /\ Outermost(r) = Outermost(s) /\ Interrupted(r) /\ Interrupted(s)
  <2>1. StringRegisters(r) = StringRegisters(s) /\ Saved(r) = Saved(s)
    BY <1>5 DEF StringRegisters, Saved
  <2> QED
    BY <1>5, <2>1 DEF Own, Outermost, Interrupted
<1>12. SameRegisters(Own(r), Own(s))
  BY <1>11 DEF SameRegisters
<1>13. Boundary(r) /\ ProgramOf(r) = ProgramOf(s)
  BY <1>1, <1>5, <1>6, <1>7, <1>10, <1>11, <1>12, HandlerKeeps
<1> QED
  BY <1>13 DEF r

\* A string instruction of a handler uses registers that were saved.
LEMMA HandlerString ==
  ASSUME NEW s, Boundary(s), s.cs # "main", Opcode(s) = "lods"
  PROVE  Boundary(AfterOne(s)) /\ ProgramOf(AfterOne(s)) = ProgramOf(s)
<1> DEFINE r == AfterOne(s)
           once == Once(s, "lods", Source(s))
<1>1. /\ Shape(s) /\ Booleans(s) /\ s.cx \in Nat /\ s.code \in Programs /\ StackOK(s) /\ PrefixesOK(s)
  BY DEF Boundary
<1>2. InHandler(s)
  BY HandlerFacts
<1>3. Opcode(s) \in Strings
  BY DEF Strings
<1>4. StringDone(s, r)
  BY <1>1, <1>2, <1>3, StringAfter DEF InHandler
<1> HIDE DEF r
<1>5. /\ r.code = s.code /\ r.cs = s.cs /\ r.stack = s.stack /\ r.torn = s.torn /\ r.down = s.down
  BY <1>4 DEF StringDone, Differs, Fields, StringFields, DecodedFields, Effects
<1>6. r.ip = s.ip + 1 /\ Alike(r, once)
  BY <1>2, <1>4 DEF StringDone, InHandler
<1>7. r.mem = s.mem
  <2>1. {"si", "di", "al", "zf", "mem", "down"} \subseteq Fields
    BY DEF Fields
  <2>2. OnceDone(s, "lods", Source(s), once, Fields)
    BY <1>1, <1>3, <2>1, OnceResult DEF Shape
  <2> QED
    BY <1>6, <2>2 DEF OnceDone, Alike
<1>8. s.cs = "irq" /\ s.ip = 3 /\ IsSaved(s.stack[Len(s.stack)]) /\ Len(s.stack) > 0
  BY <1>2 DEF InHandler, Top
<1>9. Boundary(r)
  <2>1. On(s.code, s.cs, r.ip, s.stack, Len(s.stack))
    BY <1>6, <1>8 DEF On
  <2> QED
    BY <1>3, <1>4, <2>1, StringBoundary
<1>10. Saved(r) = Saved(s) /\ Saved(s) # {}
  <2>1. Len(s.stack) \in DOMAIN s.stack
    <3>1. PICK S : s.stack \in Seq(S)
      BY <1>1 DEF StackOK, Stacked, IsStack
    <3> QED
      BY <1>8, <3>1, LenProperties
  <2> QED
    BY <1>5, <1>8, <2>1 DEF Saved, IsSaved
<1>11. Own(r) = Own(s) /\ Outermost(r) = Outermost(s) /\ Interrupted(r) /\ Interrupted(s)
  BY <1>5, <1>8, <1>10 DEF Own, Outermost, Interrupted
<1>12. ProgramOf(r) = ProgramOf(s)
  BY <1>5, <1>7, <1>11 DEF ProgramOf
<1> QED
  BY <1>9, <1>12 DEF r

\* The instructions of handlers that use the stack.
HandlerFields == {"stack", "torn", "cs", "ip", "if", "tf", "zf", "backFromTrace", "cx", "si", "di", "al"}

HandlerFetched(s, d) ==
  /\ Shape(d) /\ Booleans(d) /\ ~d.halfStack /\ d.code = s.code /\ d.down = s.down /\ d.mem = s.mem
  /\ d.stack = s.stack /\ d.torn = s.torn /\ d.cs = s.cs /\ d.ip = s.ip + 1 /\ d.if = s.if /\ d.tf = s.tf
  /\ d.zf = s.zf /\ d.cx = s.cx /\ d.si = s.si /\ d.di = s.di /\ d.al = s.al /\ ~d.doNothing

HandlerDone(s, e, r) ==
  /\ Shape(r) /\ r.code = s.code /\ r.down = s.down /\ r.mem = s.mem
  /\ r.inhibit \in BOOLEAN /\ r.halted \in BOOLEAN /\ r.doNothing \in BOOLEAN /\ ~r.doNothing
  /\ r.rep = FALSE /\ r.overrideSet = FALSE /\ r.halfStack \in BOOLEAN /\ ~r.halfStack
  /\ \A f \in HandlerFields : r[f] = e[f]

LEMMA HandlerOp ==
  ASSUME NEW s, Boundary(s), s.cs # "main", Opcode(s) \in StackOps
  PROVE  /\ HandlerFetched(s, Fetched(s))
         /\ \A e : e = Execute(Fetched(s), Opcode(s)) /\ Differs(Fetched(s), e, HandlerFields) => HandlerDone(s, e, AfterOne(s))
<1> DEFINE d == Fetched(s)
<1>1. /\ Shape(s) /\ Booleans(s) /\ PrefixesOK(s)
  BY DEF Boundary
<1>2. InHandler(s)
  BY HandlerFacts
<1>3. FetchDone(s, d)
  BY <1>1, FetchedResult
<1>4. HandlerFetched(s, d)
  <2>1. /\ Shape(d) /\ d.code = s.code /\ d.down = s.down /\ d.mem = s.mem /\ d.stack = s.stack /\ d.torn = s.torn
        /\ d.cs = s.cs /\ d.if = s.if /\ d.tf = s.tf /\ d.zf = s.zf /\ d.cx = s.cx /\ d.si = s.si /\ d.di = s.di
        /\ d.al = s.al /\ d.halfStack = s.halfStack
    BY <1>3 DEF FetchDone, Differs, Shape, Fields, DecodedFields
  <2>2. d.ip = s.ip + 1 /\ Booleans(d) /\ ~d.doNothing
    BY <1>2, <1>3 DEF FetchDone, InHandler
  <2> QED
    BY <1>2, <2>1, <2>2 DEF HandlerFetched, InHandler
<1>5. ASSUME NEW e, e = Execute(Fetched(s), Opcode(s)), Differs(Fetched(s), e, HandlerFields)
      PROVE  HandlerDone(s, e, AfterOne(s))
  <2> DEFINE r == AfterOne(s)
             op == Opcode(s)
  <2>1. Shape(e) /\ e.rep = d.rep /\ e.overrideSet = d.overrideSet
    BY <1>5 DEF Differs, Shape, Fields, HandlerFields
  <2>2. op \notin Strings
    BY DEF StackOps, Strings, Compares
  <2>3. Finished(e, op, r)
    BY <1>4, <1>5, <2>1, <2>2, FinishedAfter DEF HandlerFetched, Booleans
  <2> HIDE DEF r, op
  <2>4. \A f \in HandlerFields : r[f] = e[f]
    BY <2>3 DEF Finished, Differs, Fields, HandlerFields
  <2>5. /\ Shape(r) /\ r.code = e.code /\ r.down = e.down /\ r.mem = e.mem /\ r.halted = e.halted
        /\ r.doNothing = e.doNothing /\ r.halfStack = e.halfStack
    BY <2>3 DEF Finished, Differs, Shape, Fields
  <2>6. /\ e.code = d.code /\ e.down = d.down /\ e.mem = d.mem /\ e.halted = d.halted
        /\ e.doNothing = d.doNothing /\ e.halfStack = d.halfStack
    BY <1>5 DEF Differs, Fields, HandlerFields
  <2>7. r.inhibit \in BOOLEAN /\ r.rep = FALSE /\ r.overrideSet = FALSE
    BY <2>3 DEF Finished
  <2> HIDE DEF d
  <2>8. /\ r.code = s.code /\ r.down = s.down /\ r.mem = s.mem
        /\ r.halted \in BOOLEAN /\ r.doNothing \in BOOLEAN /\ ~r.doNothing /\ r.halfStack \in BOOLEAN /\ ~r.halfStack
    BY <1>4, <2>5, <2>6 DEF HandlerFetched, Booleans
  <2> QED
    BY <2>4, <2>5, <2>7, <2>8 DEF HandlerDone, r
<1> QED
  BY <1>4, <1>5

LEMMA HandlerSave ==
  ASSUME NEW s, Boundary(s), s.cs # "main", Opcode(s) = "save"
  PROVE  Boundary(AfterOne(s)) /\ ProgramOf(AfterOne(s)) = ProgramOf(s)
<1> DEFINE d == Fetched(s)
           g == StringRegisters(s)
           e == Execute(d, "save")
           r == AfterOne(s)
<1>1. /\ Shape(s) /\ Booleans(s) /\ s.cx \in Nat /\ s.code \in Programs /\ StackOK(s) /\ PrefixesOK(s) /\ ~s.torn
  BY DEF Boundary
<1>2. InHandler(s)
  BY HandlerFacts
<1>3. s.cs = "irq" /\ s.ip = 1 /\ IsFrame(s.stack[Len(s.stack)]) /\ Len(s.stack) > 0
  BY <1>2 DEF InHandler, Top
<1>4. /\ HandlerFetched(s, d)
      /\ \A x : x = Execute(d, Opcode(s)) /\ Differs(d, x, HandlerFields) => HandlerDone(s, x, r)
  BY HandlerOp DEF StackOps
<1> HIDE DEF d, r
<1>5. e = [d EXCEPT !.stack = Append(s.stack, g), !.torn = d.torn \/ d.halfStack]
  <2>1. e = Push(d, StringRegisters(d))
    BY Zenon DEF Execute, Strings, Compares
  <2>2. StringRegisters(d) = g /\ d.stack = s.stack
    BY <1>4 DEF StringRegisters, HandlerFetched
  <2> QED
    BY <2>1, <2>2, Zenon DEF Push
<1>6. Differs(d, e, HandlerFields) /\ e.stack = Append(s.stack, g) /\ e.torn = (d.torn \/ d.halfStack)
      /\ e.cs = d.cs /\ e.ip = d.ip /\ e.if = d.if /\ e.tf = d.tf /\ e.zf = d.zf
      /\ e.backFromTrace = d.backFromTrace /\ e.cx = d.cx /\ e.si = d.si /\ e.di = d.di /\ e.al = d.al
  <2> DEFINE x == d.torn \/ d.halfStack
             q == Append(s.stack, g)
  <2>1. e = [d EXCEPT !.stack = q, !.torn = x] /\ Shape(d)
    BY <1>4, <1>5 DEF HandlerFetched
  <2> HIDE DEF x, q, e
  <2>2. Differs(d, e, HandlerFields) /\ e.stack = q /\ e.torn = x
        /\ e.cs = d.cs /\ e.ip = d.ip /\ e.if = d.if /\ e.tf = d.tf /\ e.zf = d.zf
        /\ e.backFromTrace = d.backFromTrace /\ e.cx = d.cx /\ e.si = d.si /\ e.di = d.di /\ e.al = d.al
    BY <2>1, Zenon DEF Differs, Shape, Fields, HandlerFields
  <2> QED
    BY <2>2 DEF x, q
<1> HIDE DEF e
<1>7. HandlerDone(s, e, r)
  BY <1>4, <1>6 DEF e
<1>8. r.stack = e.stack /\ r.torn = e.torn /\ r.cs = e.cs /\ r.ip = e.ip /\ r.if = e.if /\ r.tf = e.tf /\ r.zf = e.zf
      /\ r.backFromTrace = e.backFromTrace /\ r.cx = e.cx /\ r.si = e.si /\ r.di = e.di /\ r.al = e.al
  BY <1>7 DEF HandlerDone, HandlerFields
<1>9. r.torn = FALSE
  <2>1. ~d.torn /\ ~d.halfStack /\ d.torn = s.torn
    BY <1>1, <1>4 DEF HandlerFetched
  <2> QED
    BY <1>6, <1>8, <2>1
<1>10. r.cs = "irq" /\ r.ip = 2 /\ r.cx = s.cx
  BY <1>3, <1>4, <1>6, <1>8 DEF HandlerFetched
<1>11. Booleans(r)
  <2>1. r.tf \in BOOLEAN /\ r.zf \in BOOLEAN /\ r.backFromTrace \in BOOLEAN /\ r.if \in BOOLEAN
    BY <1>4, <1>6, <1>8 DEF HandlerFetched, Booleans
  <2>2. r.rep \in BOOLEAN /\ r.overrideSet \in BOOLEAN /\ r.doNothing \in BOOLEAN /\ r.inhibit \in BOOLEAN
        /\ r.halfStack \in BOOLEAN /\ r.halted \in BOOLEAN
    BY <1>7 DEF HandlerDone
  <2> QED
    BY <1>9, <2>1, <2>2 DEF Booleans
<1>12. IsSaved(g)
  BY <1>1 DEF IsSaved, StringRegisters
<1>13. r.stack = Append(s.stack, g) /\ r.code = s.code
  BY <1>6, <1>7, <1>8 DEF HandlerDone
<1>14. StackOK(r)
  BY <1>1, <1>3, <1>10, <1>12, <1>13, RegistersPushed DEF StackOK
<1>15. SameRegisters(Own(r), Own(s))
  <2>1. Above(s.stack, r.stack, g)
    BY <1>1, <1>13, PushIsAbove DEF StackOK, Stacked
  <2>2. SameRegisters(s, g) /\ "cx" \in DOMAIN g
    BY DEF SameRegisters, StringRegisters
  <2> QED
    BY <2>1, <2>2, AboveRegisters
<1>16. Outermost(r) = Outermost(s) /\ Interrupted(r) /\ Interrupted(s)
  <2>1. r.stack[1] = s.stack[1]
    BY <1>1, <1>3, <1>13, Pushed DEF StackOK, Stacked
  <2> QED
    BY <1>3, <1>10, <2>1 DEF Outermost, Interrupted
<1>17. r.torn = s.torn
  BY <1>1, <1>9 DEF Booleans
<1>18. Boundary(r) /\ ProgramOf(r) = ProgramOf(s)
  <2>1. /\ Shape(r) /\ r.code = s.code /\ r.down = s.down /\ r.mem = s.mem
        /\ ~r.doNothing /\ ~r.rep /\ ~r.overrideSet /\ ~r.halfStack /\ r.cx \in Nat
    BY <1>1, <1>7, <1>10 DEF HandlerDone
  <2> QED
    BY <1>11, <1>14, <1>15, <1>16, <1>17, <2>1, HandlerKeeps
<1> QED
  BY <1>18 DEF r

LEMMA HandlerRestore ==
  ASSUME NEW s, Boundary(s), s.cs # "main", Opcode(s) = "restore"
  PROVE  Boundary(AfterOne(s)) /\ ProgramOf(AfterOne(s)) = ProgramOf(s)
<1> DEFINE d == Fetched(s)
           t == SubSeq(s.stack, 1, Len(s.stack) - 1)
           g == s.stack[Len(s.stack)]
           e == Execute(d, "restore")
           r == AfterOne(s)
<1>1. /\ Shape(s) /\ Booleans(s) /\ s.cx \in Nat /\ s.code \in Programs /\ StackOK(s) /\ PrefixesOK(s) /\ ~s.torn
  BY DEF Boundary
<1>2. InHandler(s)
  BY HandlerFacts
<1>3. s.cs = "irq" /\ s.ip = 4 /\ IsSaved(g) /\ Len(s.stack) > 0
  BY <1>2 DEF InHandler, Top
<1>4. /\ HandlerFetched(s, d)
      /\ \A x : x = Execute(d, Opcode(s)) /\ Differs(d, x, HandlerFields) => HandlerDone(s, x, r)
  BY HandlerOp DEF StackOps
<1>20. t = SubSeq(s.stack, 1, Len(s.stack) - 1)
  OBVIOUS
<1>21. g = s.stack[Len(s.stack)]
  OBVIOUS
<1> HIDE DEF d, r, t, g
<1>5. e = [d EXCEPT !.stack = t, !.cx = g.cx, !.si = g.si, !.di = g.di, !.al = g.al]
  <2>1. e = [d EXCEPT !.stack = Popped(d), !.cx = Top(d).cx, !.si = Top(d).si, !.di = Top(d).di, !.al = Top(d).al]
    BY Zenon DEF Execute, Strings, Compares
  <2>2. d.stack = s.stack
    BY <1>4 DEF HandlerFetched
  <2>3. Popped(d) = t /\ Top(d) = g
    BY <1>20, <1>21, <2>2 DEF Popped, Top
  <2> HIDE DEF e
  <2> QED
    BY <2>1, <2>3, Zenon
<1> HIDE DEF e
<1>6. Differs(d, e, HandlerFields) /\ e.stack = t /\ e.torn = d.torn
      /\ e.cs = d.cs /\ e.ip = d.ip /\ e.if = d.if /\ e.tf = d.tf /\ e.zf = d.zf
      /\ e.backFromTrace = d.backFromTrace /\ e.cx = g.cx /\ e.si = g.si /\ e.di = g.di /\ e.al = g.al
  <2>1. Shape(d)
    BY <1>4 DEF HandlerFetched
  <2> QED
    BY <1>5, <2>1, Zenon DEF Differs, Shape, Fields, HandlerFields
<1>7. HandlerDone(s, e, r)
  BY <1>4, <1>6 DEF e
<1>8. r.stack = e.stack /\ r.torn = e.torn /\ r.cs = e.cs /\ r.ip = e.ip /\ r.if = e.if /\ r.tf = e.tf /\ r.zf = e.zf
      /\ r.backFromTrace = e.backFromTrace /\ r.cx = e.cx /\ r.si = e.si /\ r.di = e.di /\ r.al = e.al
  BY <1>7 DEF HandlerDone, HandlerFields
<1>9. r.torn = s.torn
  BY <1>4, <1>6, <1>8 DEF HandlerFetched
<1>10. r.cs = "irq" /\ r.ip = 5 /\ r.cx = g.cx
  BY <1>3, <1>4, <1>6, <1>8 DEF HandlerFetched
<1>11. Booleans(r)
  <2>1. r.tf \in BOOLEAN /\ r.zf \in BOOLEAN /\ r.backFromTrace \in BOOLEAN /\ r.if \in BOOLEAN /\ r.torn \in BOOLEAN
    BY <1>4, <1>6, <1>8 DEF HandlerFetched, Booleans
  <2>2. r.rep \in BOOLEAN /\ r.overrideSet \in BOOLEAN /\ r.doNothing \in BOOLEAN /\ r.inhibit \in BOOLEAN
        /\ r.halfStack \in BOOLEAN /\ r.halted \in BOOLEAN
    BY <1>7 DEF HandlerDone
  <2> QED
    BY <2>1, <2>2 DEF Booleans
<1>13. r.stack = t /\ r.code = s.code
  BY <1>6, <1>7, <1>8 DEF HandlerDone
<1>22. Stacked(s.code, t) /\ On(s.code, "irq", 5, t, Len(t))
  BY <1>1, <1>3, <1>20, <1>21, ItemPopped DEF StackOK
<1>14. StackOK(r)
  BY <1>10, <1>13, <1>22 DEF StackOK
<1>15. SameRegisters(Own(r), Own(s))
  <2>1. Above(r.stack, s.stack, g)
    BY <1>1, <1>3, <1>13, <1>20, <1>21, PopIsBelow DEF StackOK, Stacked
  <2>2. SameRegisters(r, g) /\ "cx" \in DOMAIN g
    BY <1>3, <1>6, <1>8 DEF SameRegisters, IsSaved
  <2>3. SameRegisters(Own(s), Own(r))
    BY <2>1, <2>2, AboveRegisters
  <2> QED
    BY <2>3 DEF SameRegisters
<1>16. Outermost(r) = Outermost(s) /\ Interrupted(r) /\ Interrupted(s)
  <2>1. Len(t) > 0
    BY <1>22 DEF On
  <2>2. t[1] = s.stack[1]
    <3>1. Len(s.stack) \in Nat /\ Len(t) = Len(s.stack) - 1 /\ \A k \in 1..Len(s.stack) - 1 : t[k] = s.stack[k]
      BY <1>1, <1>3, <1>20, PoppedOff DEF StackOK, Stacked
    <3> QED
      BY <2>1, <3>1
  <2> QED
    BY <1>3, <1>10, <1>13, <2>2 DEF Outermost, Interrupted
<1>18. Boundary(r) /\ ProgramOf(r) = ProgramOf(s)
  <2>1. /\ Shape(r) /\ r.code = s.code /\ r.down = s.down /\ r.mem = s.mem
        /\ ~r.doNothing /\ ~r.rep /\ ~r.overrideSet /\ ~r.halfStack /\ r.cx \in Nat
    BY <1>3, <1>7, <1>10 DEF HandlerDone, IsSaved
  <2> QED
    BY <1>9, <1>11, <1>14, <1>15, <1>16, <2>1, HandlerKeeps
<1> QED
  BY <1>18 DEF r

LEMMA HandlerIret ==
  ASSUME NEW s, Boundary(s), s.cs # "main", Opcode(s) = "iret"
  PROVE  Boundary(AfterOne(s)) /\ ProgramOf(AfterOne(s)) = ProgramOf(s)
<1> DEFINE d == Fetched(s)
           t == SubSeq(s.stack, 1, Len(s.stack) - 1)
           f == s.stack[Len(s.stack)]
           b == f.tf /\ ~d.tf
           e == Execute(d, "iret")
           r == AfterOne(s)
<1>1. /\ Shape(s) /\ Booleans(s) /\ s.cx \in Nat /\ s.code \in Programs /\ StackOK(s) /\ PrefixesOK(s) /\ ~s.torn
  BY DEF Boundary
<1>2. InHandler(s)
  BY HandlerFacts
<1>3. IsFrame(f) /\ Len(s.stack) > 0 /\ Interrupted(s)
  BY <1>2 DEF InHandler, Top
<1>4. /\ HandlerFetched(s, d)
      /\ \A x : x = Execute(d, Opcode(s)) /\ Differs(d, x, HandlerFields) => HandlerDone(s, x, r)
  BY HandlerOp DEF StackOps
<1>20. t = SubSeq(s.stack, 1, Len(s.stack) - 1)
  OBVIOUS
<1>21. f = s.stack[Len(s.stack)]
  OBVIOUS
<1>23. b \in BOOLEAN
  OBVIOUS
<1> HIDE DEF d, r, t, f
<1>5. e = [d EXCEPT !.stack = t, !.cs = f.cs, !.ip = f.ip, !.if = f.if, !.tf = f.tf, !.zf = f.zf, !.backFromTrace = b]
  <2>1. e = Iret(d)
    BY Zenon DEF Execute, Strings, Compares
  <2>2. d.stack = s.stack
    BY <1>4 DEF HandlerFetched
  <2>3. Popped(d) = t /\ Top(d) = f
    BY <1>20, <1>21, <2>2 DEF Popped, Top
  <2> HIDE DEF e
  <2> QED
    BY <2>1, <2>3, Zenon DEF Iret
<1> HIDE DEF e, b
<1>6. Differs(d, e, HandlerFields) /\ e.stack = t /\ e.torn = d.torn
      /\ e.cs = f.cs /\ e.ip = f.ip /\ e.if = f.if /\ e.tf = f.tf /\ e.zf = f.zf
      /\ e.backFromTrace = b /\ e.cx = d.cx /\ e.si = d.si /\ e.di = d.di /\ e.al = d.al
  <2>1. Shape(d)
    BY <1>4 DEF HandlerFetched
  <2> QED
    BY <1>5, <2>1, ZenonT(60) DEF Differs, Shape, Fields, HandlerFields
<1>7. HandlerDone(s, e, r)
  BY <1>4, <1>6 DEF e
<1>8. r.stack = e.stack /\ r.torn = e.torn /\ r.cs = e.cs /\ r.ip = e.ip /\ r.if = e.if /\ r.tf = e.tf /\ r.zf = e.zf
      /\ r.backFromTrace = e.backFromTrace /\ r.cx = e.cx /\ r.si = e.si /\ r.di = e.di /\ r.al = e.al
  BY <1>7 DEF HandlerDone, HandlerFields
<1>9. r.torn = s.torn
  BY <1>4, <1>6, <1>8 DEF HandlerFetched
<1>10. /\ r.cs = f.cs /\ r.ip = f.ip /\ r.if = f.if /\ r.zf = f.zf
       /\ r.cx = s.cx /\ r.si = s.si /\ r.di = s.di /\ r.al = s.al
  BY <1>4, <1>6, <1>8 DEF HandlerFetched
<1>11. Booleans(r)
  <2>1. r.tf \in BOOLEAN /\ r.zf \in BOOLEAN /\ r.if \in BOOLEAN
    BY <1>3, <1>6, <1>8 DEF IsFrame
  <2>2. r.rep \in BOOLEAN /\ r.overrideSet \in BOOLEAN /\ r.doNothing \in BOOLEAN /\ r.inhibit \in BOOLEAN
        /\ r.halfStack \in BOOLEAN /\ r.halted \in BOOLEAN
    BY <1>7 DEF HandlerDone
  <2>3. r.torn \in BOOLEAN
    BY <1>1, <1>9 DEF Booleans
  <2>4. r.backFromTrace \in BOOLEAN
    BY <1>6, <1>8, <1>23
  <2> QED
    BY <2>1, <2>2, <2>3, <2>4 DEF Booleans
<1>13. r.stack = t /\ r.code = s.code
  BY <1>6, <1>7, <1>8 DEF HandlerDone
<1>22. Stacked(s.code, t) /\ On(s.code, f.cs, f.ip, t, Len(t))
  BY <1>1, <1>3, <1>20, <1>21, ItemPopped DEF StackOK
<1>14. StackOK(r)
  BY <1>10, <1>13, <1>22 DEF StackOK
<1>15. SameRegisters(Own(r), Own(s))
  <2>1. Above(r.stack, s.stack, f)
    BY <1>1, <1>3, <1>13, <1>20, <1>21, PopIsBelow DEF StackOK, Stacked
  <2>2. StringRegisters(s) = StringRegisters(r) /\ "cx" \notin DOMAIN f
    BY <1>3, <1>10 DEF StringRegisters, IsFrame
  <2>3. Own(s) = Own(r)
    BY <2>1, <2>2, AboveFrame
  <2> QED
    BY <2>3 DEF SameRegisters
<1>16. \/ Interrupted(r) /\ Outermost(r) = Outermost(s)
       \/ ~Interrupted(r) /\ Outermost(s) = f
  <2>1. Len(s.stack) \in Nat /\ Len(t) = Len(s.stack) - 1 /\ \A k \in 1..Len(s.stack) - 1 : t[k] = s.stack[k]
    BY <1>1, <1>3, <1>20, PoppedOff DEF StackOK, Stacked
  <2>2. CASE f.cs = "main"
    <3>1. Len(t) = 0
      BY <1>22, <2>2 DEF On
    <3>2. Len(s.stack) = 1
      BY <2>1, <3>1
    <3> QED
      BY <1>10, <1>21, <2>2, <3>2 DEF Outermost, Interrupted
  <2>3. CASE f.cs # "main"
    <3>1. Len(t) > 0
      BY <1>22, <2>3 DEF On
    <3>2. t[1] = s.stack[1]
      BY <2>1, <3>1
    <3> QED
      BY <1>10, <1>13, <2>3, <3>2 DEF Outermost, Interrupted
  <2> QED
    BY <2>2, <2>3
<1>17. \/ Interrupted(r) /\ Outermost(r) = Outermost(s)
       \/ ~Interrupted(r) /\ Outermost(s).ip = r.ip /\ Outermost(s).if = r.if /\ Outermost(s).zf = r.zf
  BY <1>10, <1>16
<1>18. Boundary(r) /\ ProgramOf(r) = ProgramOf(s)
  <2>1. /\ Shape(r) /\ r.code = s.code /\ r.down = s.down /\ r.mem = s.mem
        /\ ~r.doNothing /\ ~r.rep /\ ~r.overrideSet /\ ~r.halfStack /\ r.cx \in Nat
    BY <1>1, <1>7, <1>10 DEF HandlerDone
  <2> QED
    BY <1>3, <1>9, <1>11, <1>14, <1>15, <1>17, <2>1, HandlerKeeps
<1> QED
  BY <1>18 DEF r

-----------------------------------------------------------------------------
LEMMA InstructionKeeps ==
  ASSUME NEW s, Boundary(s), ~s.halted
  PROVE  /\ Boundary(AfterOne(s))
         /\ Steps(ProgramOf(s), ProgramOf(AfterOne(s))) \/ ProgramOf(AfterOne(s)) = ProgramOf(s)
<1>1. CASE s.cs = "main"
  <2>1. MainCode(s)
    BY <1>1, MainFacts
  <2>2. Opcode(s) \in Strings \/ Opcode(s) = "int" \/ (Opcode(s) \notin Strings /\ Opcode(s) \notin StackOps)
    BY <2>1, Zenon DEF MainCode, StackOps
  <2> QED
    BY <1>1, <2>2, MainString, MainInt, MainPlain
<1>2. CASE s.cs # "main"
  <2>1. Opcode(s) \in {"save", "sti", "lods", "restore", "iret", "nop"}
    BY <1>2, HandlerFacts DEF InHandler
  <2> QED
    BY <1>2, <2>1, HandlerSave, HandlerPlain, HandlerString, HandlerRestore, HandlerIret
<1> QED
  BY <1>1, <1>2

LEMMA SameDefinitions ==
  /\ Abstract!Strings = Strings /\ Abstract!Compares = Compares
  /\ Abstract!Repeats = Repeats /\ Abstract!Overrides = Overrides /\ Abstract!PrefixBytes = PrefixBytes
  BY DEF Abstract!Strings, Strings, Abstract!Compares, Compares, Abstract!Repeats, Repeats, Abstract!Overrides, Overrides,
         Abstract!PrefixBytes, PrefixBytes

LEMMA SameOpcode ==
  ASSUME NEW code, NEW ip
  PROVE  Abstract!OpcodeAt(code, ip) = OpcodeAt(code, ip)
<1> DEFINE S == {k \in ip..Len(code) : code[k] \notin PrefixBytes}
<1>1. Abstract!OpcodeAt(code, ip) = Abstract!Min(S)
  BY SameDefinitions DEF Abstract!OpcodeAt
<1>2. OpcodeAt(code, ip) = Min(S)
  BY DEF OpcodeAt
<1> HIDE DEF S
<1>3. Abstract!Min(S) = Min(S)
  BY DEF Abstract!Min, Min
<1> QED
  BY <1>1, <1>2, <1>3

LEMMA SamePrefix ==
  ASSUME NEW code, NEW ip, NEW some
  PROVE  Abstract!LastPrefix(code, ip, some) = LastPrefix(code, ip, some)
<1> DEFINE S == {k \in ip..OpcodeAt(code, ip) - 1 : code[k] \in some}
<1>1. Abstract!LastPrefix(code, ip, some) = IF S = {} THEN "none" ELSE code[Abstract!Max(S)]
  BY SameOpcode DEF Abstract!LastPrefix
<1>2. LastPrefix(code, ip, some) = IF S = {} THEN "none" ELSE code[Max(S)]
  BY DEF LastPrefix
<1> HIDE DEF S
<1>3. Abstract!Max(S) = Max(S)
  BY DEF Abstract!Max, Max
<1> QED
  BY <1>1, <1>2, <1>3

LEMMA SameOnce ==
  ASSUME NEW p, NEW op, NEW source
  PROVE  Abstract!Once(p, op, source) = Once(p, op, source)
  BY DEF Abstract!Once, Once, Abstract!Along, Along

\* A step of the program, as StringProgram has it.
LEMMA StepsAre ==
  ASSUME Steps(ProgramState, ProgramState')
  PROVE  Abstract!StepProgram
<1> DEFINE p == ProgramState
           q == ProgramState'
           at == OpcodeAt(p.code, p.pc)
           op == p.code[at]
           repeat == LastPrefix(p.code, p.pc, Repeats)
           override == LastPrefix(p.code, p.pc, Overrides)
           once == Once(p, op, IF override = "none" THEN "ds" ELSE override)
<1>1. Abstract!OpcodeAt(p.code, p.pc) = at
  BY SameOpcode
<1>2. Abstract!LastPrefix(p.code, p.pc, Abstract!Repeats) = repeat
  BY SamePrefix, SameDefinitions
<1>3. Abstract!LastPrefix(p.code, p.pc, Abstract!Overrides) = override
  BY SamePrefix, SameDefinitions
<1>4. Abstract!Once(p, op, IF override = "none" THEN "ds" ELSE override) = once
  BY SameOnce
<1>5. Abstract!Effect(p, op) = ProgramEffect(p, op)
  BY DEF Abstract!Effect, ProgramEffect
<1>6. Abstract!Strings = Strings /\ Abstract!Compares = Compares
  BY SameDefinitions
<1>7. \/ op \notin Strings \cup {"end"} /\ q = [ProgramEffect(p, op) EXCEPT !.pc = at + 1]
      \/ op \in Strings /\ repeat = "none" /\ q = [once EXCEPT !.pc = at + 1]
      \/ op \in Strings /\ repeat # "none" /\ p.cx = 0 /\ q = [p EXCEPT !.pc = at + 1]
      \/ Repeated(p, op, repeat, once, at, q)
  BY Zenon DEF Steps
<1>8. CASE op \notin Strings \cup {"end"} /\ q = [ProgramEffect(p, op) EXCEPT !.pc = at + 1]
  BY <1>1, <1>5, <1>6, <1>8, Zenon DEF Abstract!StepProgram, Abstract!Steps
<1>9. CASE op \in Strings /\ repeat = "none" /\ q = [once EXCEPT !.pc = at + 1]
  BY <1>1, <1>2, <1>3, <1>4, <1>6, <1>9, Zenon DEF Abstract!StepProgram, Abstract!Steps
<1>10. CASE op \in Strings /\ repeat # "none" /\ p.cx = 0 /\ q = [p EXCEPT !.pc = at + 1]
  BY <1>1, <1>2, <1>6, <1>10, Zenon DEF Abstract!StepProgram, Abstract!Steps
<1>11. CASE Repeated(p, op, repeat, once, at, q)
  BY <1>1, <1>2, <1>3, <1>4, <1>6, <1>11, Zenon DEF Abstract!StepProgram, Abstract!Steps, Repeated
<1> QED
  BY <1>7, <1>8, <1>9, <1>10, <1>11, Zenon

LEMMA BoundaryInit ==
  ASSUME CpuInit
  PROVE  Boundary(cpu) /\ Abstract!ProgramStart
<1>1. PICK program \in Programs, m \in Machines : cpu = PowerOn(m, program)
  BY DEF CpuInit
<1>2. /\ program \in Seq(STRING) /\ program # <<>>
      /\ m.if \in BOOLEAN /\ m.tf \in BOOLEAN /\ m.cx \in Nat
  BY CpuAssumption, Zenon
<1>3. 1 \in 1..Len(program)
  BY <1>2, EmptySeq, LenProperties
<1>4. /\ Shape(cpu) /\ cpu.code = program /\ cpu.cs = "main" /\ cpu.ip = 1 /\ cpu.rep = FALSE /\ cpu.doNothing = FALSE
      /\ cpu.overrideSet = FALSE /\ cpu.inhibit = FALSE /\ cpu.halted = FALSE /\ cpu.backFromTrace = FALSE
      /\ cpu.if = m.if /\ cpu.tf = m.tf /\ cpu.zf = FALSE /\ cpu.cx = m.cx /\ cpu.stack = <<>>
      /\ cpu.halfStack = FALSE /\ cpu.torn = FALSE
  BY <1>1 DEF PowerOn, Shape, Fields
<1>5. Booleans(cpu) /\ PrefixesOK(cpu) /\ ShadowOK(cpu)
  BY <1>2, <1>4, Zenon DEF Booleans, PrefixesOK, ShadowOK
<1>6. StackOK(cpu)
  <2>1. IsStack(<<>>) /\ Len(<<>>) = 0
    BY EmptySeq DEF IsStack
  <2> QED
    BY <1>3, <1>4, <2>1 DEF StackOK, Stacked, On
<1>7. Boundary(cpu)
  BY <1>2, <1>4, <1>5, <1>6 DEF Boundary
<1>8. ProgramState.pc = 1 /\ ~ProgramState.torn
  BY <1>4, <1>6, MainProgram DEF ProgramState, Plain
<1> QED
  BY <1>7, <1>8 DEF Abstract!ProgramStart

LEMMA BoundaryStep ==
  ASSUME Boundary(cpu), [CpuNext]_cpuVars
  PROVE  Boundary(cpu)' /\ [Abstract!StepProgram]_ProgramState
<1>1. ASSUME Boundary(cpu'), Steps(ProgramOf(cpu), ProgramOf(cpu')) \/ ProgramOf(cpu') = ProgramOf(cpu)
      PROVE  Boundary(cpu)' /\ [Abstract!StepProgram]_ProgramState
  <2>1. Boundary(cpu)'
    BY <1>1
  <2>2. ProgramState' = ProgramOf(cpu')
    BY DEF ProgramState
  <2>3. CASE Steps(ProgramOf(cpu), ProgramOf(cpu'))
    BY <2>1, <2>2, <2>3, StepsAre DEF ProgramState
  <2>4. CASE ProgramOf(cpu') = ProgramOf(cpu)
    BY <2>1, <2>2, <2>4 DEF ProgramState
  <2> QED
    BY <1>1, <2>3, <2>4
<1>2. CASE TakeInterrupt
  <2> DEFINE t == [cpu EXCEPT !.halted = FALSE]
  <2>1. ~cpu.inhibit /\ cpu' = InvokeInterrupt(t, "irq")
    BY <1>2 DEF TakeInterrupt, Accepts
  <2>2. Differs(cpu, t, {"halted", "backFromTrace", "inhibit"}) /\ t.halted = FALSE
    BY DEF Boundary, Differs, Shape, Fields
  <2>3. t.inhibit = cpu.inhibit /\ t.halfStack = cpu.halfStack /\ t.backFromTrace = cpu.backFromTrace
    BY DEF Boundary, Shape, Fields
  <2> HIDE DEF t
  <2>4. ShadowOK(t) /\ t.inhibit \in BOOLEAN /\ t.backFromTrace \in BOOLEAN
    BY <2>1, <2>3, Zenon DEF ShadowOK, Boundary, Booleans
  <2>5. Boundary(t) /\ ProgramOf(t) = ProgramOf(cpu)
    BY <2>2, <2>4, SmallChange
  <2>6. Boundary(InvokeInterrupt(t, "irq")) /\ ProgramOf(InvokeInterrupt(t, "irq")) = ProgramOf(t)
    BY <2>1, <2>3, <2>5, InterruptKeeps DEF Vectors
  <2> QED
    BY <1>1, <2>1, <2>5, <2>6
<1>3. CASE TickHalt
  <2> DEFINE t == [cpu EXCEPT !.inhibit = FALSE]
  <2>1. cpu.halted /\ cpu' = t
    BY <1>3 DEF TickHalt
  <2>2. Differs(cpu, t, {"halted", "backFromTrace", "inhibit"}) /\ t.inhibit = FALSE
    BY DEF Boundary, Differs, Shape, Fields
  <2>3. t.halted = cpu.halted /\ t.halfStack = cpu.halfStack /\ t.backFromTrace = cpu.backFromTrace
    BY DEF Boundary, Shape, Fields
  <2> HIDE DEF t
  <2>4. ShadowOK(t) /\ t.halted \in BOOLEAN /\ t.backFromTrace \in BOOLEAN
    BY <2>1, <2>3 DEF ShadowOK, Boundary, Booleans
  <2>5. Boundary(t) /\ ProgramOf(t) = ProgramOf(cpu)
    BY <2>2, <2>4, SmallChange
  <2> QED
    BY <1>1, <2>1, <2>5
<1>4. CASE Instruction
  <2>1. ~cpu.halted /\ cpu' = Trapped(AfterOne(cpu))
    BY <1>4, Zenon DEF Instruction, AfterOne, Fetched, Opcode, At
  <2>2. /\ Boundary(AfterOne(cpu))
        /\ Steps(ProgramOf(cpu), ProgramOf(AfterOne(cpu))) \/ ProgramOf(AfterOne(cpu)) = ProgramOf(cpu)
    BY <2>1, InstructionKeeps
  <2>3. Boundary(cpu') /\ ProgramOf(cpu') = ProgramOf(AfterOne(cpu))
    BY <2>1, <2>2, TrappedKeeps
  <2> QED
    BY <1>1, <2>2, <2>3
<1>5. CASE RaiseIrq \/ UNCHANGED cpuVars
  <2>1. cpu' = cpu
    BY <1>5 DEF RaiseIrq, cpuVars
  <2> QED
    BY <1>1, <2>1
<1> QED
  BY <1>2, <1>3, <1>4, <1>5 DEF CpuNext

\* Interrupts and traps, in any number and nesting, leave a program the effect
\* its code has without them (i8088.py:605-680).
THEOREM CpuImplementsProgram == CpuSpec => ImplementsProgram
<1>1. CpuInit => Boundary(cpu) /\ Abstract!ProgramStart
  BY BoundaryInit
<1>2. Boundary(cpu) /\ [CpuNext]_cpuVars => Boundary(cpu)' /\ [Abstract!StepProgram]_ProgramState
  BY BoundaryStep
<1> QED
  BY <1>1, <1>2, PTL DEF CpuSpec, ImplementsProgram, Abstract!ProgramSpec

-----------------------------------------------------------------------------
(* Alu.tla: programs of arithmetic instructions, for every modulus. First    *)
(* what each operator makes of its operands, then what an instruction makes  *)
(* of a program, then for each program what is known between its             *)
(* instructions; AluInv is all of that.                                      *)

\* The flags arithmetic sets.
Flags == [o : BOOLEAN, c : BOOLEAN, s : BOOLEAN, z : BOOLEAN, a : BOOLEAN]

\* An even number has two equal halves.
LEMMA Halved ==
  ASSUME NEW m \in Nat \ {0}, m % 2 = 0
  PROVE  Half(m) \in Nat \ {0} /\ m = 2 * Half(m)
BY DEF Half

\* The number a pattern of bits stands for: which sign it has and where it lies.
LEMMA Signs ==
  ASSUME NEW m \in Nat \ {0}, m % 2 = 0, NEW x \in 0..m - 1
  PROVE  /\ Sign(x, m) \in BOOLEAN
         /\ Signed(x, m) \in -Half(m)..Half(m) - 1
         /\ Sign(x, m) <=> Signed(x, m) < 0
         /\ Signed(x, m) = x - m * Bit(Sign(x, m))
BY Halved DEF Sign, Signed, Bit

\* w is the sum of x, y and a carry, with the flags i8088.py:291-311 has to set for it.
IsSum(m, x, y, carry, w) ==
  /\ w.v \in 0..m - 1 /\ w.f \in Flags
  /\ w.v + m * Bit(w.f.c) = x + y + Bit(carry)
  /\ (w.f.s <=> Sign(w.v, m))
  /\ (w.f.z <=> w.v = 0)
  /\ (w.f.o <=> Signed(x, m) + Signed(y, m) + Bit(carry) # Signed(w.v, m))
  /\ (w.f.a <=> Nibble(x) + Nibble(y) + Bit(carry) > 15)

\* Addition sets each flag to what the numbers say, signed and unsigned.
LEMMA AddExact ==
  ASSUME NEW m \in Nat \ {0}, m % 2 = 0, NEW x \in 0..m - 1, NEW y \in 0..m - 1, NEW carry \in BOOLEAN
  PROVE  IsSum(m, x, y, carry, Add(m, x, y, carry))
<1> DEFINE r == x + y + Bit(carry)
           v == Wrap(r, m)
           h == Half(m)
           w == Add(m, x, y, carry)
<1>1. h \in Nat \ {0} /\ m = 2 * h
  BY Halved
<1>2. Bit(carry) \in 0..1 /\ r \in Int /\ r >= 0 /\ r < 2 * m
  BY DEF Bit
<1>3. v \in 0..m - 1 /\ v + m * Bit(r < 0 \/ r >= m) = r
  BY <1>2 DEF Wrap, Bit
<1>4. w.v = v /\ w.f = SetAddSubFlags(m, x, y, r, FALSE, carry)
  BY DEF Add
<1>5. /\ w.f.c = (r < 0 \/ r >= m) /\ w.f.s = Sign(v, m) /\ w.f.z = (v = 0)
      /\ w.f.a = (Nibble(x) + Nibble(y) + Bit(carry) > 15)
      /\ w.f.o = (Sign(v, m) # Sign(x, m) /\ ((Sign(x, m) # Sign(y, m)) = FALSE))
      /\ w.f \in Flags
  BY <1>4 DEF SetAddSubFlags, Flags, Sign, Nibble
<1>6. w.f.o = (Signed(x, m) + Signed(y, m) + Bit(carry) # Signed(v, m))
  <2> HIDE DEF v, h
  <2>1. (Sign(v, m) # Sign(x, m) /\ ((Sign(x, m) # Sign(y, m)) = FALSE)) <=> (Signed(x, m) + Signed(y, m) + Bit(carry) # Signed(v, m))
    BY <1>1, <1>2, <1>3 DEF Sign, Signed, Bit, h
  <2> QED  BY <2>1, <1>5, Zenon
<1>7. w.f.c \in BOOLEAN /\ w.f.s \in BOOLEAN /\ w.f.z \in BOOLEAN /\ w.f.o \in BOOLEAN /\ w.f.a \in BOOLEAN
  BY <1>5 DEF Flags
<1>8. w.v + m * Bit(w.f.c) = r
  BY <1>3, <1>4, <1>5, Zenon
<1> QED  BY <1>3, <1>4, <1>5, <1>6, <1>8, Zenon DEF IsSum

\* w is x less y and a borrow, with its flags.
IsDifference(m, x, y, borrow, w) ==
  /\ w.v \in 0..m - 1 /\ w.f \in Flags
  /\ w.v - m * Bit(w.f.c) = x - y - Bit(borrow)
  /\ (w.f.s <=> Sign(w.v, m))
  /\ (w.f.z <=> w.v = 0)
  /\ (w.f.o <=> Signed(x, m) - Signed(y, m) - Bit(borrow) # Signed(w.v, m))
  /\ (w.f.a <=> Nibble(x) - Nibble(y) - Bit(borrow) < 0)

\* Subtraction sets each flag to what the numbers say, signed and unsigned.
LEMMA SubtractExact ==
  ASSUME NEW m \in Nat \ {0}, m % 2 = 0, NEW x \in 0..m - 1, NEW y \in 0..m - 1, NEW borrow \in BOOLEAN
  PROVE  IsDifference(m, x, y, borrow, Subtract(m, x, y, borrow))
<1> DEFINE r == x - y - Bit(borrow)
           v == Wrap(r, m)
           h == Half(m)
           w == Subtract(m, x, y, borrow)
<1>1. h \in Nat \ {0} /\ m = 2 * h
  BY Halved, SMTT(30)
<1>2. Bit(borrow) \in 0..1 /\ r \in Int /\ r >= -m /\ r < m
  BY DEF Bit
<1>3. v \in 0..m - 1 /\ v - m * Bit(r < 0 \/ r >= m) = r
  BY <1>2 DEF Wrap, Bit
<1>4. w.v = v /\ w.f = SetAddSubFlags(m, x, y, r, TRUE, borrow)
  BY DEF Subtract
<1>5. /\ w.f.c = (r < 0 \/ r >= m) /\ w.f.s = Sign(v, m) /\ w.f.z = (v = 0)
      /\ w.f.a = (Nibble(x) - Nibble(y) - Bit(borrow) < 0)
      /\ w.f.o = (Sign(v, m) # Sign(x, m) /\ ((Sign(x, m) # Sign(y, m)) = TRUE))
      /\ w.f \in Flags
  BY <1>4 DEF SetAddSubFlags, Flags, Sign, Nibble
<1>6. w.f.o = (Signed(x, m) - Signed(y, m) - Bit(borrow) # Signed(v, m))
  <2> HIDE DEF v, h
  <2>1. (Sign(v, m) # Sign(x, m) /\ ((Sign(x, m) # Sign(y, m)) = TRUE))
          <=> (Signed(x, m) - Signed(y, m) - Bit(borrow) # Signed(v, m))
    BY <1>1, <1>2, <1>3 DEF Sign, Signed, Bit, h
  <2> QED  BY <2>1, <1>5, Zenon
<1>7. w.f.c \in BOOLEAN /\ w.f.s \in BOOLEAN /\ w.f.z \in BOOLEAN /\ w.f.o \in BOOLEAN /\ w.f.a \in BOOLEAN
  BY <1>5 DEF Flags
<1>8. w.v - m * Bit(w.f.c) = r
  BY <1>3, <1>4, <1>5, Zenon
<1> QED  BY <1>3, <1>4, <1>5, <1>6, <1>8, Zenon DEF IsDifference

\* A comparison leaves its operand alone and its flags decide every conditional jump.
LEMMA CompareExact ==
  ASSUME NEW m \in Nat \ {0}, m % 2 = 0, NEW x \in 0..m - 1, NEW y \in 0..m - 1, NEW w, w = Compare(m, x, y)
  PROVE  w.v = x /\ w.f \in Flags /\ JumpsDecide(x, y, m, w.f)
<1>0. PICK no \in BOOLEAN : no = FALSE
  OBVIOUS
<1> DEFINE d == Subtract(m, x, y, no)
<1>1. w.v = x /\ w.f = d.f
  <2>1. x - y - Bit(no) = x - y
    BY <1>0 DEF Bit
  <2> QED  BY <1>0, <2>1, Zenon DEF Compare, Subtract
<1>2. /\ d.v \in 0..m - 1 /\ d.f \in Flags
      /\ d.v - m * Bit(d.f.c) = x - y - Bit(no)
      /\ (d.f.s <=> Sign(d.v, m))
      /\ (d.f.z <=> d.v = 0)
      /\ (d.f.o <=> Signed(x, m) - Signed(y, m) - Bit(no) # Signed(d.v, m))
  <2>1. IsDifference(m, x, y, no, d)
    BY <1>0, SubtractExact
  <2> QED  BY <2>1, Zenon DEF IsDifference
<1>3. Half(m) \in Nat \ {0} /\ m = 2 * Half(m)
  BY Halved
<1> DEFINE f == w.f
<1>4. f.c \in BOOLEAN /\ f.s \in BOOLEAN /\ f.z \in BOOLEAN /\ f.o \in BOOLEAN
  BY <1>1, <1>2 DEF Flags
<1> HIDE DEF d
<1>5. f.c <=> x < y
  <2>1. d.v \in 0..m - 1 /\ d.v - m * Bit(f.c) = x - y - Bit(no) /\ Bit(no) = 0
    BY <1>0, <1>1, <1>2, Zenon DEF Bit
  <2> HIDE DEF f
  <2>2. CASE f.c
    BY <2>1, <2>2 DEF Bit
  <2>3. CASE ~f.c
    BY <2>1, <2>3 DEF Bit
  <2> QED  BY <2>2, <2>3, <1>4
<1>6. f.z <=> x = y
  <2>1. /\ d.v \in 0..m - 1 /\ d.v - m * Bit(f.c) = x - y - Bit(no) /\ Bit(no) = 0
        /\ (f.z <=> d.v = 0)
    BY <1>0, <1>1, <1>2, <1>4, Zenon DEF Bit
  <2> HIDE DEF f
  <2>2. CASE f.c
    BY <2>1, <2>2, <1>4 DEF Bit
  <2>3. CASE ~f.c
    BY <2>1, <2>3, <1>4 DEF Bit
  <2> QED  BY <2>2, <2>3, <1>4
<1>7. (f.s # f.o) <=> Signed(x, m) < Signed(y, m)
  <2>1. f.s <=> Signed(d.v, m) < 0
    BY <1>1, <1>2, <1>4, Signs
  <2>2. f.o <=> Signed(x, m) - Signed(y, m) # Signed(d.v, m)
    <3>1. f.o <=> (Signed(x, m) - Signed(y, m) - Bit(no) # Signed(d.v, m))
      BY <1>1, <1>2, Zenon
    <3>2. Signed(x, m) - Signed(y, m) - Bit(no) = Signed(x, m) - Signed(y, m)
      BY <1>0 DEF Bit, Signed
    <3> QED  BY <3>1, <3>2, Zenon
  <2>3. /\ Signed(x, m) \in -Half(m)..Half(m) - 1 /\ Signed(y, m) \in -Half(m)..Half(m) - 1
        /\ Signed(d.v, m) \in -Half(m)..Half(m) - 1
    BY <1>2, Signs
  <2>4. \E k \in {-1, 0, 1} : Signed(d.v, m) = Signed(x, m) - Signed(y, m) + m * k
    <3>1. \E k \in {-2, -1, 0, 1, 2} : Signed(d.v, m) = Signed(x, m) - Signed(y, m) + m * k
      BY <1>0, <1>2, <1>3 DEF Bit, Signed
    <3> QED  BY <3>1, <2>3, <1>3
  <2> HIDE DEF f
  <2> QED  BY <2>1, <2>2, <2>3, <2>4, <1>3, <1>4
<1>8. Signed(x, m) = Signed(y, m) <=> x = y
  BY <1>3 DEF Signed, Sign
<1>9. Signed(x, m) \in Int /\ Signed(y, m) \in Int
  BY DEF Signed
<1>10. /\ (Taken("jb", f) <=> x < y) /\ (Taken("jae", f) <=> x >= y)
       /\ (Taken("jbe", f) <=> x <= y) /\ (Taken("ja", f) <=> x > y)
       /\ (Taken("jz", f) <=> x = y) /\ (Taken("jnz", f) <=> x # y)
  BY <1>4, <1>5, <1>6 DEF Taken
<1>11. /\ (Taken("jl", f) <=> Signed(x, m) < Signed(y, m)) /\ (Taken("jge", f) <=> Signed(x, m) >= Signed(y, m))
       /\ (Taken("jle", f) <=> Signed(x, m) <= Signed(y, m)) /\ (Taken("jg", f) <=> Signed(x, m) > Signed(y, m))
  BY <1>4, <1>6, <1>7, <1>8, <1>9 DEF Taken
<1>12. \A c \in {"jb", "jae", "jbe", "ja", "jz", "jnz", "jl", "jge", "jle", "jg"} : Taken(c, f) \in BOOLEAN
  BY <1>4 DEF Taken
<1>13. JumpsDecide(x, y, m, f)
  BY <1>10, <1>11, <1>12 DEF JumpsDecide
<1> QED  BY <1>1, <1>2, <1>13

\* INC and DEC leave the carry flag alone, which chains of ADC rely on.
LEMMA StepExact ==
  ASSUME NEW m \in Nat \ {0}, NEW x \in 0..m - 1, NEW isDec \in BOOLEAN, NEW f \in Flags,
         NEW w, w = IncDec(m, x, isDec, f)
  PROVE  w.v \in 0..m - 1 /\ w.f \in Flags /\ w.f.c = f.c
         /\ (~isDec => w.v = Wrap(x + 1, m)) 
BY DEF IncDec, Flags, Wrap, Sign

\* OR and XOR of an operand with itself clear the carry.
LEMMA ItselfExact ==
  ASSUME NEW m \in Nat \ {0}, NEW x \in 0..m - 1, NEW op \in {"or", "xor"}, NEW w, w = LogicSelf(op, m, x)
  PROVE  /\ w.v = (IF op = "xor" THEN 0 ELSE x) /\ w.v \in 0..m - 1
         /\ w.f \in Flags /\ ~w.f.c
<1>1. w.v = (IF op = "xor" THEN 0 ELSE x)
  BY DEF LogicSelf
<1>2. w.f = SetLogicFuncFlags(m, w.v)
  BY DEF LogicSelf
<1>3. w.v \in 0..m - 1
  BY <1>1
<1> QED  BY <1>1, <1>2, <1>3 DEF SetLogicFuncFlags, Flags, Sign

\* NEG is a difference from zero, whose borrow is the carry.
LEMMA NegateExact ==
  ASSUME NEW m \in Nat \ {0}, m % 2 = 0, NEW x \in 0..m - 1, NEW w, w = Negate(m, x)
  PROVE  /\ w.v \in 0..m - 1 /\ w.f \in Flags
         /\ w.v = Wrap(-x, m)
         /\ w.v - m * Bit(w.f.c) = -x
<1>0. PICK no \in BOOLEAN : no = FALSE
  OBVIOUS
<1> DEFINE d == Subtract(m, 0, x, no)
<1>1. w.v = d.v /\ w.f = d.f /\ w.v = Wrap(-x, m)
  <2>1. 0 - x - Bit(no) = -x
    BY <1>0 DEF Bit
  <2> QED  BY <1>0, <2>1, Zenon DEF Negate, Subtract
<1>2. /\ d.v \in 0..m - 1 /\ d.f \in Flags
      /\ d.v - m * Bit(d.f.c) = 0 - x - Bit(no)
  <2>1. IsDifference(m, 0, x, no, d)
    BY <1>0, SubtractExact
  <2> QED  BY <2>1, Zenon DEF IsDifference
<1> QED  BY <1>0, <1>1, <1>2 DEF Bit

\* The operands, and what a set of them of modulus m may hold.
Names == {"x0", "x1", "y0", "y1", "n"}
Numbers(m) == [x0 : 0..m - 1, x1 : 0..m - 1, y0 : 0..m - 1, y1 : 0..m - 1, n : Nat]

-----------------------------------------------------------------------------
(* A program that is being executed. *)

AluTypes(s) ==
  /\ s \in [task : Tasks, given : Numbers(s.m), r : Numbers(s.m), encoding : Encodings, rep : BOOLEAN,
            m : {Modulus, 256}, f : Flags, at : Nat, trap : BOOLEAN]

\* Both widths can be halved and quartered.
LEMMA WidthsSplit ==
  ASSUME NEW s, AluTypes(s)
  PROVE  s.m \in Nat \ {0} /\ s.m % 2 = 0 /\ s.m % 4 = 0 /\ s.m >= 4
<1>1. s.m \in {Modulus, 256}
  BY DEF AluTypes
<1> QED  BY <1>1, AluAssumption DEF AluAssumption

\* One instruction: dst becomes w.v, the flags w.f.
Moves(s, t, dst, w) ==
  t = [s EXCEPT !.r = [s.r EXCEPT ![dst] = w.v], !.f = w.f, !.at = s.at + 1]

\* An instruction that moves one operand keeps the types and leaves the others alone.
LEMMA MovesTypes ==
  ASSUME NEW s, AluTypes(s), NEW t, NEW dst \in Names, NEW w, Moves(s, t, dst, w),
         w.f \in Flags, w.v \in 0..s.m - 1
  PROVE  /\ AluTypes(t)
         /\ t.task = s.task /\ t.given = s.given /\ t.encoding = s.encoding /\ t.rep = s.rep
         /\ t.m = s.m /\ t.trap = s.trap /\ t.at = s.at + 1 /\ t.f = w.f
         /\ t.r.x0 = (IF dst = "x0" THEN w.v ELSE s.r.x0)
         /\ t.r.x1 = (IF dst = "x1" THEN w.v ELSE s.r.x1)
         /\ t.r.y0 = (IF dst = "y0" THEN w.v ELSE s.r.y0)
         /\ t.r.y1 = (IF dst = "y1" THEN w.v ELSE s.r.y1)
         /\ t.r.n = (IF dst = "n" THEN w.v ELSE s.r.n)
<1>1. s.r \in Numbers(s.m) /\ s.m \in Nat /\ s.at \in Nat
  BY WidthsSplit DEF AluTypes
<1>2. w.v \in Nat
  BY <1>1
<1>3. [s.r EXCEPT ![dst] = w.v] \in Numbers(s.m)
  BY <1>1, <1>2 DEF Numbers, Names
<1>4. /\ t.task = s.task /\ t.given = s.given /\ t.encoding = s.encoding /\ t.rep = s.rep
      /\ t.m = s.m /\ t.trap = s.trap /\ t.at = s.at + 1 /\ t.f = w.f /\ t.r = [s.r EXCEPT ![dst] = w.v]
      /\ t = [task |-> t.task, given |-> t.given, r |-> t.r, encoding |-> t.encoding, rep |-> t.rep,
              m |-> t.m, f |-> t.f, at |-> t.at, trap |-> t.trap]
  BY DEF AluTypes, Moves
<1>5. AluTypes(t)
  BY <1>1, <1>3, <1>4 DEF AluTypes
<1>6. /\ t.r.x0 = (IF dst = "x0" THEN w.v ELSE s.r.x0)
      /\ t.r.x1 = (IF dst = "x1" THEN w.v ELSE s.r.x1)
      /\ t.r.y0 = (IF dst = "y0" THEN w.v ELSE s.r.y0)
      /\ t.r.y1 = (IF dst = "y1" THEN w.v ELSE s.r.y1)
      /\ t.r.n = (IF dst = "n" THEN w.v ELSE s.r.n)
  BY <1>1, <1>4 DEF Numbers, Names
<1> QED  BY <1>4, <1>5, <1>6

\* What is calculated is what the instruction's result says.
LEMMA CalculateMoves ==
  ASSUME AluTypes(alu), Calculate, NEW i, i = Now(alu), i.dst \in Names
  PROVE  Moves(alu, alu', i.dst, Result(alu, i, alu.r[i.dst], IF "src" \in DOMAIN i THEN alu.r[i.src] ELSE 1))
<1> DEFINE w == Result(alu, i, alu.r[i.dst], IF "src" \in DOMAIN i THEN alu.r[i.src] ELSE 1)
<1>1. alu' = After(alu, w.v, w.f)
  BY DEF Calculate
<1> HIDE DEF w
<1>2. After(alu, w.v, w.f) = [alu EXCEPT !.r[i.dst] = w.v, !.f = w.f, !.at = @ + 1]
  BY Zenon DEF After
<1>3. [alu EXCEPT !.r[i.dst] = w.v, !.f = w.f, !.at = @ + 1]
        = [alu EXCEPT !.r = [alu.r EXCEPT ![i.dst] = w.v], !.f = w.f, !.at = alu.at + 1]
  BY DEF AluTypes
<1> QED  BY <1>1, <1>2, <1>3, Zenon DEF Moves, w

-----------------------------------------------------------------------------
(* What an instruction of each kind does. *)

\* Whatever is neither a product, a quotient nor an adjustment of two operands is calculated.
LEMMA NextMoves ==
  ASSUME AluTypes(alu), AluNext, NEW i, i = Now(alu), i.dst \in Names,
         i.op \notin {"mul", "imul", "div", "idiv", "aaa", "aas", "aam", "aad"}
  PROVE  Calculate
BY DEF AluNext, MultiplyStep, DivideStep, AsciiStep

\* An instruction of two operands moves its result to the first.
LEMMA TwoMoves ==
  ASSUME AluTypes(alu), AluNext, NEW op, NEW dst \in Names, NEW src \in Names, Now(alu) = Two(op, dst, src),
         op \notin {"mul", "imul", "div", "idiv", "aaa", "aas", "aam", "aad"}
  PROVE  Moves(alu, alu', dst, Result(alu, Two(op, dst, src), alu.r[dst], alu.r[src]))
<1> DEFINE i == Two(op, dst, src)
<1>1. i.op = op /\ i.dst = dst /\ i.src = src /\ "src" \in DOMAIN i
  BY DEF Two
<1> HIDE DEF i
<1>2. Now(alu) = i
  BY DEF i
<1>3. Calculate
  BY <1>1, <1>2, NextMoves
<1> QED  BY <1>1, <1>2, <1>3, CalculateMoves DEF i

\* An instruction of one operand moves its result to it.
LEMMA OneMoves ==
  ASSUME AluTypes(alu), AluNext, NEW op, NEW dst \in Names, Now(alu) = One(op, dst),
         op \notin {"mul", "imul", "div", "idiv", "aaa", "aas", "aam", "aad"}
  PROVE  Moves(alu, alu', dst, Result(alu, One(op, dst), alu.r[dst], 1))
<1> DEFINE i == One(op, dst)
<1>1. i.op = op /\ i.dst = dst /\ "src" \notin DOMAIN i
  BY DEF One
<1> HIDE DEF i
<1>2. Now(alu) = i
  BY DEF i
<1>3. Calculate
  BY <1>1, <1>2, NextMoves
<1> QED  BY <1>1, <1>2, <1>3, CalculateMoves DEF i

\* The operands of a program that is being executed fit its width.
LEMMA Operands ==
  ASSUME AluTypes(alu), NEW d \in {"x0", "x1", "y0", "y1"}
  PROVE  /\ alu.r[d] \in 0..alu.m - 1 /\ alu.m \in Nat \ {0} /\ alu.m % 2 = 0 /\ d \in Names
         /\ alu.f \in Flags /\ alu.f.c \in BOOLEAN /\ alu.f.a \in BOOLEAN
BY WidthsSplit DEF AluTypes, Numbers, Flags, Names

\* Every encoding of ADD and ADC adds alike: through ModR/M in both directions, immediate or to the
\* accumulator.
LEMMA SumOfTwo ==
  ASSUME NEW e \in Encodings, NEW m, NEW a, NEW b, NEW f, f.c \in BOOLEAN, NEW op \in {"add", "adc"},
         NEW carry \in BOOLEAN, carry <=> op = "adc" /\ f.c
  PROVE  OfTwo(e, m, op, a, b, f) = Add(m, a, b, carry)
<1>1. CASE op = "add"
  <2>1. carry = FALSE
    BY <1>1
  <2>2. ModRm(op, TRUE, m, b, a, f) = Add(m, a, b, FALSE) /\ ModRm(op, FALSE, m, a, b, f) = Add(m, a, b, FALSE)
    BY <1>1, Zenon DEF ModRm
  <2>3. Group(FunctionOf(op), m, a, b, f) = Add(m, a, b, FALSE)
    <3>1. FunctionOf(op) = 0
      BY <1>1 DEF FunctionOf
    <3>2. Group(0, m, a, b, f) = Add(m, a, b, FALSE)
      BY DEF Group
    <3> QED  BY <3>1, <3>2, Zenon
  <2>4. e = "accumulator" => OfTwo(e, m, op, a, b, f) = Add(m, a, b, FALSE)
    BY <1>1, Zenon DEF OfTwo
  <2>5. e = "to_register" => OfTwo(e, m, op, a, b, f) = Add(m, a, b, FALSE)
    BY <2>2, Zenon DEF OfTwo
  <2>6. e = "from_register" => OfTwo(e, m, op, a, b, f) = Add(m, a, b, FALSE)
    BY <2>2, Zenon DEF OfTwo
  <2>7. e = "immediate" => OfTwo(e, m, op, a, b, f) = Add(m, a, b, FALSE)
    BY <2>3, Zenon DEF OfTwo
  <2> QED  BY <2>1, <2>4, <2>5, <2>6, <2>7, Zenon DEF Encodings
<1>2. CASE op = "adc"
  <2>1. carry = f.c
    BY <1>2, Zenon
  <2>2. ModRm(op, TRUE, m, b, a, f) = Add(m, a, b, f.c) /\ ModRm(op, FALSE, m, a, b, f) = Add(m, a, b, f.c)
    BY <1>2, Zenon DEF ModRm
  <2>3. Group(FunctionOf(op), m, a, b, f) = Add(m, a, b, f.c)
    <3>1. FunctionOf(op) = 2
      BY <1>2 DEF FunctionOf
    <3>2. Group(2, m, a, b, f) = Add(m, a, b, f.c)
      BY DEF Group
    <3> QED  BY <3>1, <3>2, Zenon
  <2>4. e = "accumulator" => OfTwo(e, m, op, a, b, f) = Add(m, a, b, f.c)
    <3>1. (op = "adc" /\ f.c) = f.c
      BY <1>2, Zenon
    <3>2. e = "accumulator" => OfTwo(e, m, op, a, b, f) = Add(m, a, b, op = "adc" /\ f.c)
      BY <1>2, Zenon DEF OfTwo
    <3> QED  BY <3>1, <3>2, Zenon
  <2>5. e = "to_register" => OfTwo(e, m, op, a, b, f) = Add(m, a, b, f.c)
    BY <2>2, Zenon DEF OfTwo
  <2>6. e = "from_register" => OfTwo(e, m, op, a, b, f) = Add(m, a, b, f.c)
    BY <2>2, Zenon DEF OfTwo
  <2>7. e = "immediate" => OfTwo(e, m, op, a, b, f) = Add(m, a, b, f.c)
    BY <2>3, Zenon DEF OfTwo
  <2> QED  BY <2>1, <2>4, <2>5, <2>6, <2>7, Zenon DEF Encodings
<1> QED  BY <1>1, <1>2, Zenon

\* Every encoding of SUB and SBB subtracts alike.
LEMMA DifferenceOfTwo ==
  ASSUME NEW e \in Encodings, NEW m, NEW a, NEW b, NEW f, f.c \in BOOLEAN, NEW op \in {"sub", "sbb"},
         NEW borrow \in BOOLEAN, borrow <=> op = "sbb" /\ f.c
  PROVE  OfTwo(e, m, op, a, b, f) = Subtract(m, a, b, borrow)
<1>1. CASE op = "sub"
  <2>1. borrow = FALSE
    BY <1>1
  <2>2. ModRm(op, TRUE, m, b, a, f) = Subtract(m, a, b, FALSE) /\ ModRm(op, FALSE, m, a, b, f) = Subtract(m, a, b, FALSE)
    BY <1>1, Zenon DEF ModRm
  <2>3. Group(FunctionOf(op), m, a, b, f) = Subtract(m, a, b, FALSE)
    <3>1. FunctionOf(op) = 5
      BY <1>1 DEF FunctionOf
    <3>2. Group(5, m, a, b, f) = Subtract(m, a, b, FALSE)
      BY DEF Group
    <3> QED  BY <3>1, <3>2, Zenon
  <2>4. e = "accumulator" => OfTwo(e, m, op, a, b, f) = Subtract(m, a, b, FALSE)
    BY <1>1, Zenon DEF OfTwo
  <2>5. e = "to_register" => OfTwo(e, m, op, a, b, f) = Subtract(m, a, b, FALSE)
    BY <2>2, Zenon DEF OfTwo
  <2>6. e = "from_register" => OfTwo(e, m, op, a, b, f) = Subtract(m, a, b, FALSE)
    BY <2>2, Zenon DEF OfTwo
  <2>7. e = "immediate" => OfTwo(e, m, op, a, b, f) = Subtract(m, a, b, FALSE)
    BY <2>3, Zenon DEF OfTwo
  <2> QED  BY <2>1, <2>4, <2>5, <2>6, <2>7, Zenon DEF Encodings
<1>2. CASE op = "sbb"
  <2>1. borrow = f.c
    BY <1>2, Zenon
  <2>2. ModRm(op, TRUE, m, b, a, f) = Subtract(m, a, b, f.c) /\ ModRm(op, FALSE, m, a, b, f) = Subtract(m, a, b, f.c)
    BY <1>2, Zenon DEF ModRm
  <2>3. Group(FunctionOf(op), m, a, b, f) = Subtract(m, a, b, f.c)
    <3>1. FunctionOf(op) = 3
      BY <1>2 DEF FunctionOf
    <3>2. Group(3, m, a, b, f) = Subtract(m, a, b, f.c)
      BY DEF Group
    <3> QED  BY <3>1, <3>2, Zenon
  <2>4. e = "accumulator" => OfTwo(e, m, op, a, b, f) = Subtract(m, a, b, f.c)
    <3>1. (op = "sbb" /\ f.c) = f.c
      BY <1>2, Zenon
    <3>2. e = "accumulator" => OfTwo(e, m, op, a, b, f) = Subtract(m, a, b, op = "sbb" /\ f.c)
      BY <1>2, Zenon DEF OfTwo
    <3> QED  BY <3>1, <3>2, Zenon
  <2>5. e = "to_register" => OfTwo(e, m, op, a, b, f) = Subtract(m, a, b, f.c)
    BY <2>2, Zenon DEF OfTwo
  <2>6. e = "from_register" => OfTwo(e, m, op, a, b, f) = Subtract(m, a, b, f.c)
    BY <2>2, Zenon DEF OfTwo
  <2>7. e = "immediate" => OfTwo(e, m, op, a, b, f) = Subtract(m, a, b, f.c)
    BY <2>3, Zenon DEF OfTwo
  <2> QED  BY <2>1, <2>4, <2>5, <2>6, <2>7, Zenon DEF Encodings
<1> QED  BY <1>1, <1>2, Zenon

\* Every encoding of CMP compares alike.
LEMMA CompareOfTwo ==
  ASSUME NEW e \in Encodings, NEW m, NEW a, NEW b, NEW f
  PROVE  OfTwo(e, m, "cmp", a, b, f) = Compare(m, a, b)
<1>1. Group(FunctionOf("cmp"), m, a, b, f) = Compare(m, a, b)
  <2>1. FunctionOf("cmp") = 7
    BY DEF FunctionOf
  <2>2. Group(7, m, a, b, f) = Compare(m, a, b)
    BY DEF Group
  <2> QED  BY <2>1, <2>2, Zenon
<1>2. e = "accumulator" => OfTwo(e, m, "cmp", a, b, f) = Compare(m, a, b)
  BY Zenon DEF OfTwo
<1>3. e = "to_register" => OfTwo(e, m, "cmp", a, b, f) = Compare(m, a, b)
  BY Zenon DEF OfTwo, ModRm
<1>4. e = "from_register" => OfTwo(e, m, "cmp", a, b, f) = Compare(m, a, b)
  BY Zenon DEF OfTwo, ModRm
<1>5. e = "immediate" => OfTwo(e, m, "cmp", a, b, f) = Compare(m, a, b)
  BY <1>1, Zenon DEF OfTwo
<1> QED  BY <1>2, <1>3, <1>4, <1>5, Zenon DEF Encodings

\* ADD and ADC leave the sum in their first operand, ADC with the carry.
LEMMA AddMoves ==
  ASSUME AluTypes(alu), AluNext, NEW op \in {"add", "adc"}, NEW dst \in {"x0", "x1"}, NEW src \in {"y0", "y1"},
         Now(alu) = Two(op, dst, src)
  PROVE  \E w : \E carry \in BOOLEAN :
           /\ Moves(alu, alu', dst, w) /\ IsSum(alu.m, alu.r[dst], alu.r[src], carry, w)
           /\ carry <=> op = "adc" /\ alu.f.c
<1>1. /\ alu.r[dst] \in 0..alu.m - 1 /\ alu.r[src] \in 0..alu.m - 1 /\ alu.m \in Nat \ {0} /\ alu.m % 2 = 0
      /\ alu.f.c \in BOOLEAN /\ dst \in Names /\ src \in Names /\ alu.encoding \in Encodings
  BY Operands DEF AluTypes
<1> DEFINE w == Result(alu, Two(op, dst, src), alu.r[dst], alu.r[src])
<1>2. Moves(alu, alu', dst, w)
  BY <1>1, TwoMoves
<1>3. w = OfTwo(alu.encoding, alu.m, op, alu.r[dst], alu.r[src], alu.f)
  BY DEF Result, Two
<1> HIDE DEF w
<1>4. PICK carry \in BOOLEAN : carry <=> op = "adc" /\ alu.f.c
  OBVIOUS
<1>5. w = Add(alu.m, alu.r[dst], alu.r[src], carry)
  BY <1>1, <1>3, <1>4, SumOfTwo
<1>6. IsSum(alu.m, alu.r[dst], alu.r[src], carry, w)
  BY <1>5, <1>1, <1>4, AddExact
<1> QED  BY <1>2, <1>4, <1>6

\* SUB and SBB leave the difference, SBB with the borrow.
LEMMA SubtractMoves ==
  ASSUME AluTypes(alu), AluNext, NEW op \in {"sub", "sbb"}, NEW dst \in {"x0", "x1"}, NEW src \in {"y0", "y1"},
         Now(alu) = Two(op, dst, src)
  PROVE  \E w : \E borrow \in BOOLEAN :
           /\ Moves(alu, alu', dst, w) /\ IsDifference(alu.m, alu.r[dst], alu.r[src], borrow, w)
           /\ borrow <=> op = "sbb" /\ alu.f.c
<1>1. /\ alu.r[dst] \in 0..alu.m - 1 /\ alu.r[src] \in 0..alu.m - 1 /\ alu.m \in Nat \ {0} /\ alu.m % 2 = 0
      /\ alu.f.c \in BOOLEAN /\ dst \in Names /\ src \in Names /\ alu.encoding \in Encodings
  BY Operands DEF AluTypes
<1> DEFINE w == Result(alu, Two(op, dst, src), alu.r[dst], alu.r[src])
<1>2. Moves(alu, alu', dst, w)
  BY <1>1, TwoMoves
<1>3. w = OfTwo(alu.encoding, alu.m, op, alu.r[dst], alu.r[src], alu.f)
  BY DEF Result, Two
<1> HIDE DEF w
<1>4. PICK borrow \in BOOLEAN : borrow <=> op = "sbb" /\ alu.f.c
  OBVIOUS
<1>5. w = Subtract(alu.m, alu.r[dst], alu.r[src], borrow)
  BY <1>1, <1>3, <1>4, DifferenceOfTwo
<1>6. IsDifference(alu.m, alu.r[dst], alu.r[src], borrow, w)
  BY <1>5, <1>1, <1>4, SubtractExact
<1> QED  BY <1>2, <1>4, <1>6

\* CMP moves nothing and decides the jumps.
LEMMA CompareMoves ==
  ASSUME AluTypes(alu), AluNext, Now(alu) = Two("cmp", "x0", "y0")
  PROVE  \E w : /\ Moves(alu, alu', "x0", w) /\ w.v = alu.r.x0 /\ w.f \in Flags
                /\ JumpsDecide(alu.r.x0, alu.r.y0, alu.m, w.f)
<1>1. /\ alu.r["x0"] \in 0..alu.m - 1 /\ alu.r["y0"] \in 0..alu.m - 1 /\ alu.m \in Nat \ {0} /\ alu.m % 2 = 0
      /\ "x0" \in Names /\ "y0" \in Names /\ alu.encoding \in Encodings
  BY Operands DEF AluTypes
<1> DEFINE w == Result(alu, Two("cmp", "x0", "y0"), alu.r["x0"], alu.r["y0"])
<1>2. Moves(alu, alu', "x0", w)
  BY <1>1, TwoMoves
<1>3. w = OfTwo(alu.encoding, alu.m, "cmp", alu.r["x0"], alu.r["y0"], alu.f)
  BY DEF Result, Two
<1> HIDE DEF w
<1>4. w = Compare(alu.m, alu.r["x0"], alu.r["y0"])
  BY <1>1, <1>3, CompareOfTwo
<1>5. w.v = alu.r["x0"] /\ w.f \in Flags /\ JumpsDecide(alu.r["x0"], alu.r["y0"], alu.m, w.f)
  BY <1>1, <1>4, CompareExact
<1> QED  BY <1>2, <1>5

-----------------------------------------------------------------------------
(* Instructions of one operand. *)

\* INC and DEC of the counter keep the carry of the instruction before.
LEMMA StepMoves ==
  ASSUME AluTypes(alu), AluNext, NEW op \in {"inc", "dec"}, Now(alu) = One(op, "n"), alu.r.n = 0
  PROVE  \E w : /\ Moves(alu, alu', "n", w) /\ w.v \in 0..alu.m - 1 /\ w.f \in Flags /\ w.f.c = alu.f.c
<1>1. alu.m \in Nat \ {0} /\ "n" \in Names /\ alu.f \in Flags /\ 0 \in 0..alu.m - 1
  BY WidthsSplit DEF AluTypes, Names
<1> DEFINE w == Result(alu, One(op, "n"), alu.r["n"], 1)
<1>2. Moves(alu, alu', "n", w)
  BY <1>1, OneMoves
<1>3. PICK down \in BOOLEAN : down <=> op = "dec"
  OBVIOUS
<1>4. w = IncDec(alu.m, 0, down, alu.f)
  <2>1. w = IncDec(alu.m, 0, op = "dec", alu.f)
    BY DEF Result, One
  <2>2. (op = "dec") = down
    BY <1>3, Zenon
  <2> QED  BY <2>1, <2>2, Zenon
<1> HIDE DEF w
<1> QED  BY <1>1, <1>2, <1>3, <1>4, StepExact

\* INC wraps to zero.
LEMMA IncrementMoves ==
  ASSUME AluTypes(alu), AluNext, Now(alu) = One("inc", "x0")
  PROVE  \E w : /\ Moves(alu, alu', "x0", w) /\ w.v \in 0..alu.m - 1 /\ w.f \in Flags
                /\ w.v = Wrap(alu.r.x0 + 1, alu.m)
<1>1. alu.m \in Nat \ {0} /\ "x0" \in Names /\ alu.f \in Flags /\ alu.r["x0"] \in 0..alu.m - 1
  BY Operands
<1> DEFINE w == Result(alu, One("inc", "x0"), alu.r["x0"], 1)
<1>2. Moves(alu, alu', "x0", w)
  BY <1>1, OneMoves
<1>3. PICK down \in BOOLEAN : down = FALSE
  OBVIOUS
<1>4. w = IncDec(alu.m, alu.r["x0"], down, alu.f)
  <2>1. w = IncDec(alu.m, alu.r["x0"], FALSE, alu.f)
    BY DEF Result, One
  <2> QED  BY <2>1, <1>3, Zenon
<1> HIDE DEF w
<1> QED  BY <1>1, <1>2, <1>3, <1>4, StepExact

\* OR of an operand with itself keeps it, XOR makes it zero; neither leaves a carry.
LEMMA ItselfMoves ==
  ASSUME AluTypes(alu), AluNext, NEW op \in {"or", "xor"}, NEW d \in {"x0", "y0"}, Now(alu) = One(op, d)
  PROVE  \E w : /\ Moves(alu, alu', d, w) /\ w.v \in 0..alu.m - 1 /\ w.f \in Flags /\ ~w.f.c
                /\ w.v = (IF op = "xor" THEN 0 ELSE alu.r[d])
<1>1. alu.m \in Nat \ {0} /\ d \in Names /\ alu.r[d] \in 0..alu.m - 1
  BY Operands
<1> DEFINE w == Result(alu, One(op, d), alu.r[d], 1)
<1>2. Moves(alu, alu', d, w)
  BY <1>1, OneMoves
<1>3. w = LogicSelf(op, alu.m, alu.r[d])
  BY DEF Result, One
<1> HIDE DEF w
<1> QED  BY <1>1, <1>2, <1>3, ItselfExact

\* NEG leaves the negative and the borrow it took.
LEMMA NegateMoves ==
  ASSUME AluTypes(alu), AluNext, NEW d \in {"x0", "x1"}, Now(alu) = One("neg", d)
  PROVE  \E w : /\ Moves(alu, alu', d, w) /\ w.v \in 0..alu.m - 1 /\ w.f \in Flags
                /\ w.v - alu.m * Bit(w.f.c) = -alu.r[d]
<1>1. alu.m \in Nat \ {0} /\ alu.m % 2 = 0 /\ d \in Names /\ alu.r[d] \in 0..alu.m - 1
  BY Operands
<1> DEFINE w == Result(alu, One("neg", d), alu.r[d], 1)
<1>2. Moves(alu, alu', d, w)
  BY <1>1, OneMoves
<1>3. w = Negate(alu.m, alu.r[d])
  BY DEF Result, One
<1> HIDE DEF w
<1> QED  BY <1>1, <1>2, <1>3, NegateExact

\* NOT leaves what is missing to the largest number.
LEMMA ComplementMoves ==
  ASSUME AluTypes(alu), AluNext, NEW d \in {"x0", "x1"}, Now(alu) = One("not", d)
  PROVE  \E w : /\ Moves(alu, alu', d, w) /\ w.v \in 0..alu.m - 1 /\ w.f \in Flags
                /\ w.v = alu.m - 1 - alu.r[d]
<1>1. alu.m \in Nat \ {0} /\ d \in Names /\ alu.f \in Flags /\ alu.r[d] \in 0..alu.m - 1
  BY Operands
<1> DEFINE w == Result(alu, One("not", d), alu.r[d], 1)
<1>2. Moves(alu, alu', d, w)
  BY <1>1, OneMoves
<1>3. w.v = Complement(alu.m, alu.r[d]) /\ w.f = alu.f
  BY DEF Result, One
<1> HIDE DEF w
<1> QED  BY <1>1, <1>2, <1>3 DEF Complement

\* A program that is done takes no step.
LEMMA NextGoesOn == AluNext => ~Done
BY DEF AluNext, Calculate, MultiplyStep, DivideStep, AsciiStep

\* A program that takes a step has an instruction left.
LEMMA NotPast ==
  ASSUME AluTypes(alu), AluNext, NEW k \in Nat, k = Len(Code(alu.task, alu.given))
  PROVE  alu.at \in 0..k /\ ~alu.trap
<1>1. ~(alu.at > k) /\ ~alu.trap
  BY NextGoesOn DEF Done
<1>2. alu.at \in Nat
  BY DEF AluTypes
<1> QED  BY <1>1, <1>2

\* The programs of sums, differences and comparisons.
LEMMA SumCode ==
  ASSUME NEW g
  PROVE  /\ Code("sum", g) = <<Two("add", "x0", "y0"), One("inc", "n"), Two("adc", "x1", "y1")>>
         /\ Code("cleared_sum", g)
              = <<One("or", "x0"), Two("adc", "x0", "y0"), One("dec", "n"), Two("adc", "x1", "y1")>>
         /\ Code("difference", g) = <<Two("sub", "x0", "y0"), One("dec", "n"), Two("sbb", "x1", "y1")>>
         /\ Code("negation", g) = <<One("xor", "y0"), One("neg", "x1"), One("neg", "x0"), Two("sbb", "x1", "y0")>>
         /\ Code("complement", g) = <<One("not", "x0"), One("not", "x1"), One("inc", "x0")>>
         /\ Code("comparison", g) = <<Two("cmp", "x0", "y0")>>
<1>1. Code("sum", g) = <<Two("add", "x0", "y0"), One("inc", "n"), Two("adc", "x1", "y1")>>
  BY DEF Code
<1>2. Code("cleared_sum", g)
        = <<One("or", "x0"), Two("adc", "x0", "y0"), One("dec", "n"), Two("adc", "x1", "y1")>>
  BY DEF Code
<1>3. Code("difference", g) = <<Two("sub", "x0", "y0"), One("dec", "n"), Two("sbb", "x1", "y1")>>
  BY DEF Code
<1>4. Code("negation", g) = <<One("xor", "y0"), One("neg", "x1"), One("neg", "x0"), Two("sbb", "x1", "y0")>>
  BY DEF Code
<1>5. Code("complement", g) = <<One("not", "x0"), One("not", "x1"), One("inc", "x0")>>
  BY DEF Code
<1>6. Code("comparison", g) = <<Two("cmp", "x0", "y0")>>
  BY DEF Code
<1> QED  BY <1>1, <1>2, <1>3, <1>4, <1>5, <1>6

\* A sum of which the first p - 1 instructions, those before the addition left out, are done.
SumAt(s, p) ==
  /\ p \in 0..4 /\ (p = 0 => s.task = "cleared_sum")
  /\ s.r.y0 = s.given.y0 /\ s.r.y1 = s.given.y1
  /\ p <= 2 => s.r.n = 0
  /\ p <= 1 => s.r.x0 = s.given.x0
  /\ p = 1 /\ s.task = "cleared_sum" => ~s.f.c
  /\ p <= 3 => s.r.x1 = s.given.x1
  /\ p \in {2, 3} => s.r.x0 + s.m * Bit(s.f.c) = s.given.x0 + s.given.y0
  /\ p = 4 => \E c \in BOOLEAN :
                /\ s.r.x0 + s.m * Bit(c) = s.given.x0 + s.given.y0
                /\ \E w : w.v = s.r.x1 /\ w.f = s.f /\ IsSum(s.m, s.given.x1, s.given.y1, c, w)

\* Where a sum stands, the cleared one being one instruction longer.
SumPlace(s) == IF s.task = "sum" THEN s.at ELSE s.at - 1

\* An instruction of a sum leads to where the next one starts from.
LEMMA SumNext ==
  ASSUME AluTypes(alu), alu.task \in {"sum", "cleared_sum"}, SumAt(alu, SumPlace(alu)), AluNext
  PROVE  AluTypes(alu') /\ alu'.task = alu.task /\ SumAt(alu', SumPlace(alu'))
<1>0. PICK p : p = SumPlace(alu)
  OBVIOUS
<1>a. SumAt(alu, p) /\ alu.at \in Nat
  BY <1>0 DEF AluTypes
<1>1. ~(alu.at > Len(Code(alu.task, alu.given))) /\ alu.at \in Nat
  BY NextGoesOn DEF Done, AluTypes
<1>2. /\ p \in 0..3 /\ (p = 0 => alu.task = "cleared_sum")
      /\ p = 0 => Now(alu) = One("or", "x0")
      /\ p = 1 => Now(alu) = Two(IF alu.task = "sum" THEN "add" ELSE "adc", "x0", "y0")
      /\ p = 2 => Now(alu) = One(IF alu.task = "sum" THEN "inc" ELSE "dec", "n")
      /\ p = 3 => Now(alu) = Two("adc", "x1", "y1")
  <2>1. CASE alu.task = "sum"
    <3>1. Code(alu.task, alu.given) = <<Two("add", "x0", "y0"), One("inc", "n"), Two("adc", "x1", "y1")>>
      BY <2>1, SumCode
    <3>2. p = alu.at /\ alu.at \in 1..3
      <4>1. Len(Code(alu.task, alu.given)) = 3
        BY <3>1
      <4>2. alu.at <= 3
        BY <4>1, <1>a, <1>1
      <4>3. p = SumPlace(alu) /\ p \in 0..4 /\ (p = 0 => alu.task = "cleared_sum")
        BY <1>0, <1>a DEF SumAt
      <4> QED  BY <4>2, <4>3, <1>a, <2>1 DEF SumPlace
    <3> QED  BY <2>1, <3>1, <3>2 DEF Now
  <2>2. CASE alu.task = "cleared_sum"
    <3>1. Code(alu.task, alu.given) = <<One("or", "x0"), Two("adc", "x0", "y0"), One("dec", "n"), Two("adc", "x1", "y1")>>
      BY <2>2, SumCode
    <3>2. p = alu.at - 1 /\ alu.at \in 1..4
      <4>1. Len(Code(alu.task, alu.given)) = 4
        BY <3>1
      <4>2. alu.at <= 4
        BY <4>1, <1>a, <1>1
      <4>3. p = SumPlace(alu) /\ p \in 0..4 /\ (p = 0 => alu.task = "cleared_sum")
        BY <1>0, <1>a, SMTT(30) DEF SumAt
      <4> QED  BY <4>2, <4>3, <1>a, <2>2 DEF SumPlace
    <3> QED  BY <2>2, <3>1, <3>2 DEF Now
  <2> QED  BY <2>1, <2>2
<1>3. ASSUME alu'.task = alu.task, alu'.at = alu.at + 1 PROVE SumPlace(alu') = p + 1
  BY <1>0, <1>a, <1>3 DEF SumPlace
<1>4. alu.given \in Numbers(alu.m) /\ alu.r \in Numbers(alu.m) /\ alu.m \in Nat \ {0} /\ alu.f.c \in BOOLEAN
  BY WidthsSplit DEF AluTypes, Flags
<1>5. CASE p = 0
  <2>1. PICK w : /\ Moves(alu, alu', "x0", w) /\ w.v \in 0..alu.m - 1 /\ w.f \in Flags /\ ~w.f.c /\ w.v = alu.r["x0"]
    BY <1>2, <1>5, ItselfMoves
  <2>2. /\ AluTypes(alu') /\ alu'.task = alu.task /\ alu'.given = alu.given /\ alu'.m = alu.m /\ alu'.at = alu.at + 1
        /\ alu'.f = w.f /\ alu'.r.x0 = alu.r.x0 /\ alu'.r.x1 = alu.r.x1 /\ alu'.r.y0 = alu.r.y0 /\ alu'.r.y1 = alu.r.y1
        /\ alu'.r.n = alu.r.n
    BY <2>1, MovesTypes DEF Names
  <2>3. SumPlace(alu') = 1
    BY <1>3, <1>5, <2>2
  <2>4. SumAt(alu', 1)
    BY <1>a, <1>5, <2>1, <2>2 DEF SumAt
  <2> QED  BY <2>2, <2>3, <2>4
<1>6. CASE p = 1
  <2>1. PICK w : \E carry \in BOOLEAN :
                   /\ Moves(alu, alu', "x0", w) /\ IsSum(alu.m, alu.r["x0"], alu.r["y0"], carry, w)
                   /\ carry <=> alu.task # "sum" /\ alu.f.c
    BY <1>2, <1>6, AddMoves
  <2>2. w.v \in 0..alu.m - 1 /\ w.f \in Flags
    BY <2>1 DEF IsSum
  <2>3. /\ AluTypes(alu') /\ alu'.task = alu.task /\ alu'.given = alu.given /\ alu'.m = alu.m /\ alu'.at = alu.at + 1
        /\ alu'.f = w.f /\ alu'.r.x0 = w.v /\ alu'.r.x1 = alu.r.x1 /\ alu'.r.y0 = alu.r.y0 /\ alu'.r.y1 = alu.r.y1
        /\ alu'.r.n = alu.r.n
    BY <2>1, <2>2, MovesTypes DEF Names
  <2>4. SumPlace(alu') = 2
    BY <1>3, <1>6, <2>3
  <2>5. w.v + alu.m * Bit(w.f.c) = alu.given.x0 + alu.given.y0
    <3>1. PICK carry \in BOOLEAN : /\ w.v + alu.m * Bit(w.f.c) = alu.r.x0 + alu.r.y0 + Bit(carry)
                                   /\ carry <=> alu.task # "sum" /\ alu.f.c
      BY <2>1 DEF IsSum
    <3>2. ~carry /\ alu.r.x0 = alu.given.x0 /\ alu.r.y0 = alu.given.y0
      BY <1>a, <1>6, <3>1 DEF SumAt
    <3> QED  BY <3>1, <3>2, <1>4 DEF Bit, Numbers
  <2>6. SumAt(alu', 2)
    BY <1>a, <1>6, <2>3, <2>5 DEF SumAt
  <2> QED  BY <2>3, <2>4, <2>6
<1>7. CASE p = 2
  <2>1. alu.r.n = 0
    BY <1>a, <1>7 DEF SumAt
  <2>2. PICK w : /\ Moves(alu, alu', "n", w) /\ w.v \in 0..alu.m - 1 /\ w.f \in Flags /\ w.f.c = alu.f.c
    BY <1>2, <1>7, <2>1, StepMoves
  <2>3. /\ AluTypes(alu') /\ alu'.task = alu.task /\ alu'.given = alu.given /\ alu'.m = alu.m /\ alu'.at = alu.at + 1
        /\ alu'.f = w.f /\ alu'.r.x0 = alu.r.x0 /\ alu'.r.x1 = alu.r.x1 /\ alu'.r.y0 = alu.r.y0 /\ alu'.r.y1 = alu.r.y1
    BY <2>2, MovesTypes DEF Names
  <2>4. SumPlace(alu') = 3
    BY <1>3, <1>7, <2>3
  <2>5. SumAt(alu', 3)
    BY <1>a, <1>7, <2>2, <2>3 DEF SumAt
  <2> QED  BY <2>3, <2>4, <2>5
<1>8. CASE p = 3
  <2>1. PICK w : \E carry \in BOOLEAN :
                   /\ Moves(alu, alu', "x1", w) /\ IsSum(alu.m, alu.r["x1"], alu.r["y1"], carry, w)
                   /\ carry <=> alu.f.c
    BY <1>2, <1>8, AddMoves
  <2>2. w.v \in 0..alu.m - 1 /\ w.f \in Flags
    BY <2>1 DEF IsSum
  <2>3. /\ AluTypes(alu') /\ alu'.task = alu.task /\ alu'.given = alu.given /\ alu'.m = alu.m /\ alu'.at = alu.at + 1
        /\ alu'.f = w.f /\ alu'.r.x0 = alu.r.x0 /\ alu'.r.x1 = w.v /\ alu'.r.y0 = alu.r.y0 /\ alu'.r.y1 = alu.r.y1
    BY <2>1, <2>2, MovesTypes DEF Names
  <2>4. SumPlace(alu') = 4
    BY <1>3, <1>8, <2>3
  <2>5. PICK carry \in BOOLEAN : IsSum(alu.m, alu.r["x1"], alu.r["y1"], carry, w) /\ (carry <=> alu.f.c)
    BY <2>1
  <2>6. carry = alu.f.c
    BY <2>5, <1>4, Zenon
  <2>7. alu.r.x0 + alu.m * Bit(carry) = alu.given.x0 + alu.given.y0
    BY <1>a, <1>8, <2>6 DEF SumAt
  <2>8. alu.r["x1"] = alu.given.x1 /\ alu.r["y1"] = alu.given.y1
    BY <1>a, <1>8 DEF SumAt
  <2>9. IsSum(alu'.m, alu'.given.x1, alu'.given.y1, carry, w)
    BY <2>3, <2>5, <2>8
  <2>10. SumAt(alu', 4)
    BY <1>a, <1>8, <2>3, <2>5, <2>7, <2>9 DEF SumAt
  <2> QED  BY <2>3, <2>4, <2>10
<1> QED  BY <1>2, <1>5, <1>6, <1>7, <1>8

\* A difference of which the first s.at - 1 instructions are done.
DifferenceAt(s) ==
  /\ s.at \in 1..4
  /\ s.r.y0 = s.given.y0 /\ s.r.y1 = s.given.y1
  /\ s.at <= 2 => s.r.n = 0
  /\ s.at = 1 => s.r.x0 = s.given.x0
  /\ s.at <= 3 => s.r.x1 = s.given.x1
  /\ s.at \in {2, 3} => s.r.x0 - s.m * Bit(s.f.c) = s.given.x0 - s.given.y0
  /\ s.at = 4 => \E c \in BOOLEAN :
                   /\ s.r.x0 - s.m * Bit(c) = s.given.x0 - s.given.y0
                   /\ \E w : w.v = s.r.x1 /\ w.f = s.f /\ IsDifference(s.m, s.given.x1, s.given.y1, c, w)

\* An instruction of a difference leads to where the next one starts from.
LEMMA DifferenceNext ==
  ASSUME AluTypes(alu), alu.task = "difference", DifferenceAt(alu), AluNext
  PROVE  AluTypes(alu') /\ alu'.task = alu.task /\ DifferenceAt(alu')
<1>1. ~(alu.at > Len(Code(alu.task, alu.given))) /\ alu.at \in Nat
  BY NextGoesOn DEF Done, AluTypes
<1>2. /\ alu.at \in 1..3
      /\ alu.at = 1 => Now(alu) = Two("sub", "x0", "y0")
      /\ alu.at = 2 => Now(alu) = One("dec", "n")
      /\ alu.at = 3 => Now(alu) = Two("sbb", "x1", "y1")
  <2>1. Code(alu.task, alu.given) = <<Two("sub", "x0", "y0"), One("dec", "n"), Two("sbb", "x1", "y1")>>
    BY SumCode
  <2>2. Len(Code(alu.task, alu.given)) = 3
    BY <2>1
  <2> QED  BY <1>1, <2>1, <2>2, SMTT(30) DEF Now, DifferenceAt
<1>4. alu.given \in Numbers(alu.m) /\ alu.r \in Numbers(alu.m) /\ alu.m \in Nat \ {0} /\ alu.f.c \in BOOLEAN
  BY WidthsSplit DEF AluTypes, Flags
<1>6. CASE alu.at = 1
  <2>1. PICK w : \E borrow \in BOOLEAN :
                   /\ Moves(alu, alu', "x0", w) /\ IsDifference(alu.m, alu.r["x0"], alu.r["y0"], borrow, w)
                   /\ ~borrow
    BY <1>2, <1>6, SubtractMoves
  <2>2. w.v \in 0..alu.m - 1 /\ w.f \in Flags
    BY <2>1 DEF IsDifference
  <2>3. /\ AluTypes(alu') /\ alu'.task = alu.task /\ alu'.given = alu.given /\ alu'.m = alu.m /\ alu'.at = alu.at + 1
        /\ alu'.f = w.f /\ alu'.r.x0 = w.v /\ alu'.r.x1 = alu.r.x1 /\ alu'.r.y0 = alu.r.y0 /\ alu'.r.y1 = alu.r.y1
        /\ alu'.r.n = alu.r.n
    BY <2>1, <2>2, MovesTypes DEF Names
  <2>5. w.v - alu.m * Bit(w.f.c) = alu.given.x0 - alu.given.y0
    <3>1. PICK borrow \in BOOLEAN : /\ w.v - alu.m * Bit(w.f.c) = alu.r.x0 - alu.r.y0 - Bit(borrow)
                                    /\ ~borrow
      BY <2>1 DEF IsDifference
    <3>2. alu.r.x0 = alu.given.x0 /\ alu.r.y0 = alu.given.y0
      BY <1>6, <3>1 DEF DifferenceAt
    <3> QED  BY <3>1, <3>2, <1>4 DEF Bit, Numbers
  <2>6. DifferenceAt(alu')
    BY <1>6, <2>3, <2>5 DEF DifferenceAt
  <2> QED  BY <2>3, <2>6
<1>7. CASE alu.at = 2
  <2>1. alu.r.n = 0
    BY <1>7 DEF DifferenceAt
  <2>2. PICK w : /\ Moves(alu, alu', "n", w) /\ w.v \in 0..alu.m - 1 /\ w.f \in Flags /\ w.f.c = alu.f.c
    BY <1>2, <1>7, <2>1, StepMoves
  <2>3. /\ AluTypes(alu') /\ alu'.task = alu.task /\ alu'.given = alu.given /\ alu'.m = alu.m /\ alu'.at = alu.at + 1
        /\ alu'.f = w.f /\ alu'.r.x0 = alu.r.x0 /\ alu'.r.x1 = alu.r.x1 /\ alu'.r.y0 = alu.r.y0 /\ alu'.r.y1 = alu.r.y1
    BY <2>2, MovesTypes DEF Names
  <2>5. DifferenceAt(alu')
    BY <1>7, <2>2, <2>3 DEF DifferenceAt
  <2> QED  BY <2>3, <2>5
<1>8. CASE alu.at = 3
  <2>1. PICK w : \E borrow \in BOOLEAN :
                   /\ Moves(alu, alu', "x1", w) /\ IsDifference(alu.m, alu.r["x1"], alu.r["y1"], borrow, w)
                   /\ borrow <=> alu.f.c
    BY <1>2, <1>8, SubtractMoves
  <2>2. w.v \in 0..alu.m - 1 /\ w.f \in Flags
    BY <2>1 DEF IsDifference
  <2>3. /\ AluTypes(alu') /\ alu'.task = alu.task /\ alu'.given = alu.given /\ alu'.m = alu.m /\ alu'.at = alu.at + 1
        /\ alu'.f = w.f /\ alu'.r.x0 = alu.r.x0 /\ alu'.r.x1 = w.v /\ alu'.r.y0 = alu.r.y0 /\ alu'.r.y1 = alu.r.y1
    BY <2>1, <2>2, MovesTypes DEF Names
  <2>5. PICK borrow \in BOOLEAN : IsDifference(alu.m, alu.r["x1"], alu.r["y1"], borrow, w) /\ (borrow <=> alu.f.c)
    BY <2>1
  <2>6. borrow = alu.f.c
    BY <2>5, <1>4, Zenon
  <2>7. alu.r.x0 - alu.m * Bit(borrow) = alu.given.x0 - alu.given.y0
    BY <1>8, <2>6 DEF DifferenceAt
  <2>8. alu.r["x1"] = alu.given.x1 /\ alu.r["y1"] = alu.given.y1
    BY <1>8 DEF DifferenceAt
  <2>9. IsDifference(alu'.m, alu'.given.x1, alu'.given.y1, borrow, w)
    BY <2>3, <2>5, <2>8
  <2>10. DifferenceAt(alu')
    BY <1>8, <2>3, <2>5, <2>7, <2>9 DEF DifferenceAt
  <2> QED  BY <2>3, <2>10
<1> QED  BY <1>2, <1>6, <1>7, <1>8

\* A negation.
NegationAt(s) ==
  /\ s.at \in 1..5
  /\ s.at >= 2 => s.r.y0 = 0
  /\ s.at <= 2 => s.r.x1 = s.given.x1
  /\ s.at <= 3 => s.r.x0 = s.given.x0
  /\ s.at \in {3, 4} => \E c \in 0..1 : s.r.x1 - s.m * c = -s.given.x1
  /\ s.at = 4 => s.r.x0 - s.m * Bit(s.f.c) = -s.given.x0
  /\ s.at = 5 => \E c, d, e \in 0..1 :
                   s.r.x0 - s.m * c = -s.given.x0 /\ s.r.x1 - s.m * e = s.m * d - s.given.x1 - c

\* An instruction of a negation leads to where the next one starts from.
LEMMA NegationNext ==
  ASSUME AluTypes(alu), alu.task = "negation", NegationAt(alu), AluNext
  PROVE  AluTypes(alu') /\ alu'.task = alu.task /\ NegationAt(alu')
<1>1. ~(alu.at > Len(Code(alu.task, alu.given))) /\ alu.at \in Nat
  BY NextGoesOn DEF Done, AluTypes
<1>2. /\ alu.at \in 1..4
      /\ alu.at = 1 => Now(alu) = One("xor", "y0")
      /\ alu.at = 2 => Now(alu) = One("neg", "x1")
      /\ alu.at = 3 => Now(alu) = One("neg", "x0")
      /\ alu.at = 4 => Now(alu) = Two("sbb", "x1", "y0")
  <2>1. Code(alu.task, alu.given) = <<One("xor", "y0"), One("neg", "x1"), One("neg", "x0"), Two("sbb", "x1", "y0")>>
    BY SumCode
  <2>2. Len(Code(alu.task, alu.given)) = 4
    BY <2>1
  <2>3. alu.at \in 1..4
    <3>1. alu.at \in 1..5
      BY Zenon DEF NegationAt
    <3> QED  BY <1>1, <2>2, <3>1, SMTT(30)
  <2>4. Now(alu) = Code(alu.task, alu.given)[alu.at]
    BY DEF Now
  <2> QED  BY <2>1, <2>3, <2>4
<1>3. alu.given \in Numbers(alu.m) /\ alu.r \in Numbers(alu.m) /\ alu.m \in Nat \ {0} /\ alu.f.c \in BOOLEAN
  BY WidthsSplit DEF AluTypes, Flags
<1>4. CASE alu.at = 1
  <2>1. PICK w : /\ Moves(alu, alu', "y0", w) /\ w.v \in 0..alu.m - 1 /\ w.f \in Flags /\ w.v = 0
    BY <1>2, <1>4, ItselfMoves
  <2>2. /\ AluTypes(alu') /\ alu'.task = alu.task /\ alu'.given = alu.given /\ alu'.m = alu.m /\ alu'.at = alu.at + 1
        /\ alu'.r.x0 = alu.r.x0 /\ alu'.r.x1 = alu.r.x1 /\ alu'.r.y0 = 0
    BY <2>1, MovesTypes DEF Names
  <2> QED  BY <1>4, <2>2 DEF NegationAt
<1>5. CASE alu.at = 2
  <2>1. PICK w : /\ Moves(alu, alu', "x1", w) /\ w.v \in 0..alu.m - 1 /\ w.f \in Flags
                 /\ w.v - alu.m * Bit(w.f.c) = -alu.r["x1"]
    BY <1>2, <1>5, NegateMoves
  <2>2. /\ AluTypes(alu') /\ alu'.task = alu.task /\ alu'.given = alu.given /\ alu'.m = alu.m /\ alu'.at = alu.at + 1
        /\ alu'.r.x0 = alu.r.x0 /\ alu'.r.x1 = w.v /\ alu'.r.y0 = alu.r.y0
    BY <2>1, MovesTypes DEF Names
  <2>3. Bit(w.f.c) \in 0..1
    BY DEF Bit
  <2>4. alu.r["x1"] = alu.given.x1 /\ alu.r.y0 = 0 /\ alu.r.x0 = alu.given.x0
    BY <1>5 DEF NegationAt
  <2>5. \E c \in 0..1 : w.v - alu.m * c = -alu.given.x1
    BY <2>1, <2>3, <2>4
  <2> QED  BY <1>5, <2>2, <2>4, <2>5 DEF NegationAt
<1>6. CASE alu.at = 3
  <2>1. PICK w : /\ Moves(alu, alu', "x0", w) /\ w.v \in 0..alu.m - 1 /\ w.f \in Flags
                 /\ w.v - alu.m * Bit(w.f.c) = -alu.r["x0"]
    BY <1>2, <1>6, NegateMoves
  <2>2. /\ AluTypes(alu') /\ alu'.task = alu.task /\ alu'.given = alu.given /\ alu'.m = alu.m /\ alu'.at = alu.at + 1
        /\ alu'.r.x0 = w.v /\ alu'.r.x1 = alu.r.x1 /\ alu'.r.y0 = alu.r.y0 /\ alu'.f = w.f
    BY <2>1, MovesTypes DEF Names
  <2>3. /\ alu.r["x0"] = alu.given.x0 /\ alu.r.y0 = 0
        /\ \E c \in 0..1 : alu.r.x1 - alu.m * c = -alu.given.x1
    BY <1>6 DEF NegationAt
  <2> QED  BY <1>6, <2>1, <2>2, <2>3 DEF NegationAt
<1>7. CASE alu.at = 4
  <2>1. PICK w : \E borrow \in BOOLEAN :
                   /\ Moves(alu, alu', "x1", w) /\ IsDifference(alu.m, alu.r["x1"], alu.r["y0"], borrow, w)
                   /\ borrow <=> alu.f.c
    BY <1>2, <1>7, SubtractMoves
  <2>2. w.v \in 0..alu.m - 1 /\ w.f \in Flags
    BY <2>1 DEF IsDifference
  <2>3. /\ AluTypes(alu') /\ alu'.task = alu.task /\ alu'.given = alu.given /\ alu'.m = alu.m /\ alu'.at = alu.at + 1
        /\ alu'.r.x0 = alu.r.x0 /\ alu'.r.x1 = w.v /\ alu'.r.y0 = alu.r.y0
    BY <2>1, <2>2, MovesTypes DEF Names
  <2>4. PICK borrow \in BOOLEAN : /\ w.v - alu.m * Bit(w.f.c) = alu.r["x1"] - alu.r["y0"] - Bit(borrow)
                                  /\ borrow <=> alu.f.c
    BY <2>1 DEF IsDifference
  <2>5. borrow = alu.f.c
    BY <2>4, <1>3, Zenon
  <2>6. PICK d \in 0..1 : alu.r.x1 - alu.m * d = -alu.given.x1
    BY <1>7 DEF NegationAt
  <2>7. alu.r.x0 - alu.m * Bit(borrow) = -alu.given.x0 /\ alu.r["y0"] = 0
    BY <1>7, <2>5 DEF NegationAt
  <2>8. Bit(borrow) \in 0..1 /\ Bit(w.f.c) \in 0..1
    BY DEF Bit
  <2>9. PICK e \in 0..1 : e = Bit(w.f.c)
    BY <2>8
  <2>10. PICK c \in 0..1 : c = Bit(borrow)
    BY <2>8
  <2>11. alu.m * d \in Int /\ alu.m * e \in Int /\ alu.r.x1 \in Int /\ alu.given.x1 \in Int
    BY <1>3, <2>6, <2>9 DEF Numbers
  <2>12. w.v - alu.m * e = alu.m * d - alu.given.x1 - c
    BY <2>2, <2>4, <2>6, <2>7, <2>9, <2>10, <2>11
  <2>13. alu.r.x0 - alu.m * c = -alu.given.x0
    BY <2>7, <2>10
  <2>14. alu'.at = 5
    BY <1>7, <2>3
  <2>15. \E c1, d1, e1 \in 0..1 :
           alu'.r.x0 - alu'.m * c1 = -alu'.given.x0 /\ alu'.r.x1 - alu'.m * e1 = alu'.m * d1 - alu'.given.x1 - c1
    BY <2>3, <2>12, <2>13, Zenon
  <2> QED  BY <2>3, <2>7, <2>14, <2>15 DEF NegationAt
<1> QED  BY <1>2, <1>4, <1>5, <1>6, <1>7

\* A complement and the increment that makes it a negation.
ComplementAt(s) ==
  /\ s.at \in 1..4
  /\ s.at = 1 => s.r.x0 = s.given.x0
  /\ s.at <= 2 => s.r.x1 = s.given.x1
  /\ s.at \in {2, 3} => s.r.x0 = s.m - 1 - s.given.x0
  /\ s.at >= 3 => s.r.x1 = s.m - 1 - s.given.x1
  /\ s.at = 4 => s.r.x0 = Wrap(s.m - s.given.x0, s.m)

\* An instruction of a complement leads to where the next one starts from.
LEMMA ComplementNext ==
  ASSUME AluTypes(alu), alu.task = "complement", ComplementAt(alu), AluNext
  PROVE  AluTypes(alu') /\ alu'.task = alu.task /\ ComplementAt(alu')
<1>1. ~(alu.at > Len(Code(alu.task, alu.given))) /\ alu.at \in Nat
  BY NextGoesOn DEF Done, AluTypes
<1>2. /\ alu.at \in 1..3
      /\ alu.at = 1 => Now(alu) = One("not", "x0")
      /\ alu.at = 2 => Now(alu) = One("not", "x1")
      /\ alu.at = 3 => Now(alu) = One("inc", "x0")
  <2>1. Code(alu.task, alu.given) = <<One("not", "x0"), One("not", "x1"), One("inc", "x0")>>
    BY SumCode
  <2>2. Len(Code(alu.task, alu.given)) = 3
    BY <2>1
  <2>3. alu.at \in 1..3
    <3>1. alu.at \in 1..4
      BY Zenon DEF ComplementAt
    <3>2. alu.at \in 0..3
      BY <2>2, NotPast
    <3> QED  BY <3>1, <3>2
  <2>4. Now(alu) = Code(alu.task, alu.given)[alu.at]
    BY DEF Now
  <2> QED  BY <2>1, <2>3, <2>4
<1>3. alu.given \in Numbers(alu.m) /\ alu.r \in Numbers(alu.m) /\ alu.m \in Nat \ {0}
  BY WidthsSplit DEF AluTypes
<1>4. CASE alu.at = 1
  <2>1. PICK w : /\ Moves(alu, alu', "x0", w) /\ w.v \in 0..alu.m - 1 /\ w.f \in Flags /\ w.v = alu.m - 1 - alu.r["x0"]
    BY <1>2, <1>4, ComplementMoves
  <2>2. /\ AluTypes(alu') /\ alu'.task = alu.task /\ alu'.given = alu.given /\ alu'.m = alu.m /\ alu'.at = alu.at + 1
        /\ alu'.r.x0 = w.v /\ alu'.r.x1 = alu.r.x1
    BY <2>1, MovesTypes DEF Names
  <2> QED  BY <1>4, <2>1, <2>2 DEF ComplementAt
<1>5. CASE alu.at = 2
  <2>1. PICK w : /\ Moves(alu, alu', "x1", w) /\ w.v \in 0..alu.m - 1 /\ w.f \in Flags /\ w.v = alu.m - 1 - alu.r["x1"]
    BY <1>2, <1>5, ComplementMoves
  <2>2. /\ AluTypes(alu') /\ alu'.task = alu.task /\ alu'.given = alu.given /\ alu'.m = alu.m /\ alu'.at = alu.at + 1
        /\ alu'.r.x0 = alu.r.x0 /\ alu'.r.x1 = w.v
    BY <2>1, MovesTypes DEF Names
  <2> QED  BY <1>5, <2>1, <2>2 DEF ComplementAt
<1>6. CASE alu.at = 3
  <2>1. PICK w : /\ Moves(alu, alu', "x0", w) /\ w.v \in 0..alu.m - 1 /\ w.f \in Flags /\ w.v = Wrap(alu.r.x0 + 1, alu.m)
    BY <1>2, <1>6, IncrementMoves
  <2>2. /\ AluTypes(alu') /\ alu'.task = alu.task /\ alu'.given = alu.given /\ alu'.m = alu.m /\ alu'.at = alu.at + 1
        /\ alu'.r.x0 = w.v /\ alu'.r.x1 = alu.r.x1
    BY <2>1, MovesTypes DEF Names
  <2>3. alu.r.x0 + 1 = alu.m - alu.given.x0
    BY <1>3, <1>6 DEF ComplementAt, Numbers
  <2> QED  BY <1>6, <2>1, <2>2, <2>3 DEF ComplementAt
<1> QED  BY <1>2, <1>4, <1>5, <1>6

\* A comparison.
ComparisonAt(s) ==
  /\ s.at \in 1..2
  /\ s.r.x0 = s.given.x0 /\ s.r.x1 = s.given.x1 /\ s.r.y0 = s.given.y0 /\ s.r.y1 = s.given.y1 /\ s.r.n = s.given.n
  /\ s.at = 2 => JumpsDecide(s.given.x0, s.given.y0, s.m, s.f)

\* A comparison is decided by its one instruction.
LEMMA ComparisonNext ==
  ASSUME AluTypes(alu), alu.task = "comparison", ComparisonAt(alu), AluNext
  PROVE  AluTypes(alu') /\ alu'.task = alu.task /\ ComparisonAt(alu')
<1>1. ~(alu.at > Len(Code(alu.task, alu.given))) /\ alu.at \in Nat
  BY NextGoesOn DEF Done, AluTypes
<1>2. alu.at = 1 /\ Now(alu) = Two("cmp", "x0", "y0")
  <2>1. Code(alu.task, alu.given) = <<Two("cmp", "x0", "y0")>>
    BY SumCode
  <2>2. Len(Code(alu.task, alu.given)) = 1
    BY <2>1
  <2> QED  BY <1>1, <2>1, <2>2 DEF Now, ComparisonAt
<1>3. PICK w : /\ Moves(alu, alu', "x0", w) /\ w.v = alu.r.x0 /\ w.f \in Flags
               /\ JumpsDecide(alu.r.x0, alu.r.y0, alu.m, w.f)
  BY <1>2, CompareMoves
<1>4. w.v \in 0..alu.m - 1
  BY <1>3 DEF AluTypes, Numbers
<1>5. /\ AluTypes(alu') /\ alu'.task = alu.task /\ alu'.given = alu.given /\ alu'.m = alu.m /\ alu'.at = alu.at + 1
      /\ alu'.r.x0 = alu.r.x0 /\ alu'.r.x1 = alu.r.x1 /\ alu'.r.y0 = alu.r.y0 /\ alu'.r.y1 = alu.r.y1
      /\ alu'.r.n = alu.r.n /\ alu'.f = w.f
  BY <1>3, <1>4, MovesTypes DEF Names
<1> QED  BY <1>2, <1>3, <1>5 DEF ComparisonAt

-----------------------------------------------------------------------------
(* Numbers of two operands. *)

\* The upper operand decides the order of numbers of two operands.
LEMMA Bounded ==
  ASSUME NEW m \in Nat \ {0}, NEW lo \in 0..m - 1, NEW hi \in Int, NEW k \in Int
  PROVE  /\ lo + m * hi \in Int /\ m * hi \in Int /\ m * k \in Int
         /\ hi >= k => lo + m * hi >= m * k
         /\ hi < k => lo + m * hi < m * k
<1>1. m * hi \in Int /\ m * k \in Int
  OBVIOUS
<1>2. ASSUME hi >= k PROVE m * hi >= m * k
  BY <1>2
<1>3. ASSUME hi < k PROVE m * hi <= m * k - m
  <2>1. hi + 1 <= k
    BY <1>3
  <2>2. m * (hi + 1) <= m * k
    BY <2>1
  <2>3. m * (hi + 1) = m * hi + m
    OBVIOUS
  <2> QED  BY <2>2, <2>3, <1>1
<1> QED  BY <1>1, <1>2, <1>3

\* An operand is an integer.
LEMMA InInt ==
  ASSUME NEW m \in Nat \ {0}, NEW i \in 0..m - 1
  PROVE  i \in Int
OBVIOUS

\* A flag is worth zero or one.
LEMMA BitInt ==
  ASSUME NEW b
  PROVE  Bit(b) \in 0..1 /\ Bit(b) \in Int
BY DEF Bit

\* What a number of two operands has of its parts.
IsWide(m, lo, hi) ==
  /\ lo + m * hi \in 0..m * m - 1 /\ m * m \in Nat \ {0}
  /\ Half(m * m) = m * Half(m)
  /\ (Sign(lo + m * hi, m * m) <=> Sign(hi, m))
  /\ Signed(lo + m * hi, m * m) = lo + m * Signed(hi, m)
  /\ (lo + m * hi = 0 <=> lo = 0 /\ hi = 0)

\* The upper operand has the sign of the whole, and the lower one is its remainder.
LEMMA WideNumbers ==
  ASSUME NEW m \in Nat \ {0}, m % 2 = 0, NEW lo \in 0..m - 1, NEW hi \in 0..m - 1
  PROVE  IsWide(m, lo, hi)
<1> DEFINE h == Half(m)
<1>1. h \in Nat \ {0} /\ m = 2 * h
  BY Halved
<1>2. m * hi \in Int /\ m * h \in Int /\ m * m \in Int
  BY <1>1
<1>3. lo + m * hi >= 0 /\ lo + m * hi < m * m
  BY <1>2, Bounded
<1>4. m * m = 2 * (m * h) /\ m * h > 0
  BY <1>1, <1>2
<1>5. Half(m * m) = m * h
  <2> DEFINE a == m * h
  <2>1. a \in Int /\ m * m = 2 * a
    BY <1>2, <1>4
  <2> HIDE DEF a
  <2>2. (2 * a) \div 2 = a
    BY <2>1
  <2> QED  BY <2>1, <2>2 DEF Half, a
<1>6. Sign(lo + m * hi, m * m) <=> lo + m * hi >= m * h
  BY <1>5, Zenon DEF Sign
<1>7. lo + m * hi >= m * h <=> hi >= h
  BY <1>1, <1>2, Bounded
<1>8. Sign(lo + m * hi, m * m) <=> Sign(hi, m)
  BY <1>6, <1>7, Zenon DEF Sign
<1>9. Signed(lo + m * hi, m * m) = lo + m * Signed(hi, m)
  <2>1. CASE Sign(hi, m)
    <3>1. Signed(hi, m) = hi - m /\ Signed(lo + m * hi, m * m) = lo + m * hi - m * m
      BY <2>1, <1>8 DEF Signed
    <3>2. m * (hi - m) = m * hi - m * m
      OBVIOUS
    <3> QED  BY <3>1, <3>2, <1>2
  <2>2. CASE ~Sign(hi, m)
    BY <2>2, <1>8, Zenon DEF Signed
  <2> QED  BY <2>1, <2>2
<1>10. lo + m * hi = 0 <=> lo = 0 /\ hi = 0
  <2>1. hi > 0 => lo + m * hi >= m * 1
    BY Bounded
  <2> QED  BY <2>1
<1>11. m * m > 0 /\ m * m \in Nat
  BY <1>2, <1>3, <1>4
<1>12. lo + m * hi \in 0..m * m - 1
  BY <1>2, <1>3
<1>13. m * m \in Nat \ {0}
  BY <1>11
<1> QED  BY <1>5, <1>8, <1>9, <1>10, <1>12, <1>13, Zenon DEF IsWide

\* An addition of the lower and one of the upper operands with its carry.
AddsUp(m, x0, x1, y0, y1, z0, z1, b0, b1) ==
  z0 + m * b0 = x0 + y0 /\ z1 + m * b1 = x1 + y1 + b0
    => (z0 + m * z1) + (m * m) * b1 = (x0 + m * x1) + (y0 + m * y1)

\* Two additions chained by a carry add up.
LEMMA WideSum ==
  ASSUME NEW m \in Int, NEW x0 \in Int, NEW x1 \in Int, NEW y0 \in Int, NEW y1 \in Int,
         NEW z0 \in Int, NEW z1 \in Int, NEW b0 \in Int, NEW b1 \in Int
  PROVE  AddsUp(m, x0, x1, y0, y1, z0, z1, b0, b1)
<1> SUFFICES ASSUME z0 + m * b0 = x0 + y0, z1 + m * b1 = x1 + y1 + b0
             PROVE  (z0 + m * z1) + (m * m) * b1 = (x0 + m * x1) + (y0 + m * y1)
  BY Zenon DEF AddsUp
<1>1. m * (z1 + m * b1) = m * z1 + (m * m) * b1
  OBVIOUS
<1>2. m * (x1 + y1 + b0) = m * x1 + m * y1 + m * b0
  OBVIOUS
<1>3. m * z1 \in Int /\ (m * m) * b1 \in Int /\ m * x1 \in Int /\ m * y1 \in Int /\ m * b0 \in Int
  OBVIOUS
<1> QED  BY <1>1, <1>2, <1>3

\* The flags of the upper addition are those of the whole sum.
LEMMA SumIsExact ==
  ASSUME NEW m \in Nat \ {0}, m % 2 = 0, m = alu.m, NEW f, NEW c \in BOOLEAN, NEW w,
         NEW x0 \in 0..m - 1, NEW x1 \in 0..m - 1, NEW y0 \in 0..m - 1, NEW y1 \in 0..m - 1, NEW z0 \in 0..m - 1,
         z0 + m * Bit(c) = x0 + y0, w.f = f, IsSum(m, x1, y1, c, w)
  PROVE  SumExact(x0 + m * x1, y0 + m * y1, z0 + m * w.v, f)
<1> DEFINE X == x0 + m * x1
           Y == y0 + m * y1
           Z == z0 + m * w.v
           W == m * m
<1>1. /\ w.v \in 0..m - 1 /\ f \in Flags /\ w.v + m * Bit(f.c) = x1 + y1 + Bit(c)
      /\ (f.s <=> Sign(w.v, m))
      /\ (f.o <=> Signed(x1, m) + Signed(y1, m) + Bit(c) # Signed(w.v, m))
  BY Zenon DEF IsSum
<1>0. w.v \in 0..m - 1
  BY <1>1, Zenon
<1>2. f.s \in BOOLEAN /\ f.o \in BOOLEAN /\ Bit(f.c) \in 0..1 /\ Bit(c) \in 0..1
  BY <1>1 DEF Flags, Bit
<1>3. Z + W * Bit(f.c) = X + Y
  <2>1. /\ x0 \in Int /\ x1 \in Int /\ y0 \in Int /\ y1 \in Int /\ z0 \in Int /\ w.v \in Int
        /\ Bit(c) \in Int /\ Bit(f.c) \in Int
    BY <1>0, InInt, BitInt, Zenon
  <2>2. m \in Int
    OBVIOUS
  <2>3. AddsUp(m, x0, x1, y0, y1, z0, w.v, Bit(c), Bit(f.c))
    BY <2>1, <2>2, WideSum, Zenon
  <2> QED  BY <1>1, <2>3, Zenon DEF AddsUp
<1>4. f.s <=> Sign(Z, W)
  <2>1. IsWide(m, z0, w.v)
    BY <1>0, WideNumbers
  <2>2. Sign(Z, W) <=> Sign(w.v, m)
    BY <2>1, Zenon DEF IsWide
  <2> QED  BY <1>1, <2>2, Zenon
<1>5. /\ Signed(X, W) = x0 + m * Signed(x1, m) /\ Signed(Y, W) = y0 + m * Signed(y1, m)
      /\ Signed(Z, W) = z0 + m * Signed(w.v, m)
  <2>1. IsWide(m, x0, x1) /\ IsWide(m, y0, y1) /\ IsWide(m, z0, w.v)
    BY <1>0, WideNumbers
  <2> QED  BY <2>1, Zenon DEF IsWide
<1>6. Signed(x1, m) \in Int /\ Signed(y1, m) \in Int /\ Signed(w.v, m) \in Int
  BY <1>1 DEF Signed
<1>7. f.o <=> Signed(X, W) + Signed(Y, W) # Signed(Z, W)
  <2>1. \A p, q, r, b \in Int :
          m * p + m * q + m * b = m * r <=> p + q + b = r
    <3> SUFFICES ASSUME NEW p \in Int, NEW q \in Int, NEW r \in Int, NEW b \in Int
                 PROVE  m * p + m * q + m * b = m * r <=> p + q + b = r
      OBVIOUS
    <3>1. m * p + m * q + m * b = m * (p + q + b)
      OBVIOUS
    <3> DEFINE d == p + q + b
    <3>2. d \in Int
      OBVIOUS
    <3> HIDE DEF d
    <3>3. m * d = m * r => d = r
      BY <3>2
    <3> QED  BY <3>1, <3>3 DEF d
  <2> DEFINE p == Signed(x1, m)
             q == Signed(y1, m)
             r == Signed(w.v, m)
             b == Bit(c)
  <2>2. p \in Int /\ q \in Int /\ r \in Int /\ b \in Int
    BY <1>2, <1>6
  <2>3. m * p + m * q + m * b = m * r <=> p + q + b = r
    BY <2>1, <2>2
  <2>4. m * p \in Int /\ m * q \in Int /\ m * r \in Int /\ m * b \in Int
    BY <2>2
  <2>5. z0 + m * b = x0 + y0 /\ (f.o <=> p + q + b # r)
    BY <1>1
  <2>6. (x0 + m * p) + (y0 + m * q) = z0 + m * r <=> m * p + m * q + m * b = m * r
    <3> HIDE DEF p, q, r, b
    <3> QED  BY <2>4, <2>5
  <2> QED  BY <2>3, <2>5, <2>6, <1>5
<1>8. Wide = W
  BY DEF Wide
<1> HIDE DEF X, Y, Z, W
<1>9. f.s = Sign(Z, Wide) /\ f.o = (Signed(X, Wide) + Signed(Y, Wide) # Signed(Z, Wide))
  <2>1. Sign(Z, W) \in BOOLEAN
    BY DEF Sign
  <2> QED  BY <1>2, <1>4, <1>7, <1>8, <2>1, Zenon
<1>10. SumExact(X, Y, Z, f)
  BY <1>3, <1>8, <1>9, Zenon DEF SumExact
<1> QED  BY <1>10 DEF X, Y, Z

\* The flags of the upper subtraction are those of the whole difference.
LEMMA DifferenceIsExact ==
  ASSUME NEW m \in Nat \ {0}, m % 2 = 0, m = alu.m, NEW f, NEW c \in BOOLEAN, NEW w,
         NEW x0 \in 0..m - 1, NEW x1 \in 0..m - 1, NEW y0 \in 0..m - 1, NEW y1 \in 0..m - 1, NEW z0 \in 0..m - 1,
         z0 - m * Bit(c) = x0 - y0, w.f = f, IsDifference(m, x1, y1, c, w)
  PROVE  DifferenceExact(x0 + m * x1, y0 + m * y1, z0 + m * w.v, f)
<1> DEFINE X == x0 + m * x1
           Y == y0 + m * y1
           Z == z0 + m * w.v
           W == m * m
<1>1. /\ w.v \in 0..m - 1 /\ f \in Flags /\ w.v - m * Bit(f.c) = x1 - y1 - Bit(c)
      /\ (f.o <=> Signed(x1, m) - Signed(y1, m) - Bit(c) # Signed(w.v, m))
  BY Zenon DEF IsDifference
<1>0. w.v \in 0..m - 1
  BY <1>1, Zenon
<1>2. f.o \in BOOLEAN
  BY <1>1 DEF Flags
<1>3. Z - W * Bit(f.c) = X - Y
  <2>1. /\ x0 \in Int /\ x1 \in Int /\ y0 \in Int /\ y1 \in Int /\ z0 \in Int /\ w.v \in Int
        /\ Bit(c) \in Int /\ Bit(f.c) \in Int
    BY <1>0, InInt, BitInt, Zenon
  <2>2. m \in Int
    OBVIOUS
  <2>3. AddsUp(m, y0, y1, z0, w.v, x0, x1, Bit(c), Bit(f.c))
    BY <2>1, <2>2, WideSum, Zenon
  <2>5. m * Bit(c) \in Int /\ m * Bit(f.c) \in Int /\ W * Bit(f.c) \in Int /\ X \in Int /\ Y \in Int /\ Z \in Int
    BY <2>1, <2>2
  <2>6. x0 + m * Bit(c) = y0 + z0
    <3> DEFINE b == m * Bit(c)
    <3>1. b \in Int /\ z0 - b = x0 - y0
      BY <2>5, Zenon
    <3> HIDE DEF b
    <3>2. x0 + b = y0 + z0
      BY <2>1, <3>1
    <3> QED  BY <3>2 DEF b
  <2>7. x1 + m * Bit(f.c) = y1 + w.v + Bit(c)
    <3> HIDE DEF X, Y, Z, W
    <3>1. w.v - m * Bit(f.c) = x1 - y1 - Bit(c)
      BY <1>1, Zenon
    <3> QED  BY <2>1, <2>5, <3>1
  <2>8. X + W * Bit(f.c) = Y + Z
    BY <2>3, <2>6, <2>7, Zenon DEF AddsUp
  <2> HIDE DEF X, Y, Z, W
  <2> QED  BY <2>5, <2>8
<1>5. /\ Signed(X, W) = x0 + m * Signed(x1, m) /\ Signed(Y, W) = y0 + m * Signed(y1, m)
      /\ Signed(Z, W) = z0 + m * Signed(w.v, m)
  <2>1. IsWide(m, x0, x1) /\ IsWide(m, y0, y1) /\ IsWide(m, z0, w.v)
    BY <1>0, WideNumbers
  <2> QED  BY <2>1, Zenon DEF IsWide
<1>6. Signed(x1, m) \in Int /\ Signed(y1, m) \in Int /\ Signed(w.v, m) \in Int
  BY <1>0 DEF Signed
<1>7. f.o <=> Signed(X, W) - Signed(Y, W) # Signed(Z, W)
  <2> DEFINE p == Signed(x1, m)
             q == Signed(y1, m)
             r == Signed(w.v, m)
             b == Bit(c)
  <2>2. p \in Int /\ q \in Int /\ r \in Int /\ b \in Int
    BY <1>6, BitInt
  <2>3. m * p - m * q - m * b = m * r <=> p - q - b = r
    <3> HIDE DEF p, q, r, b
    <3>1. m * p - m * q - m * b = m * (p - q - b)
      BY <2>2
    <3> DEFINE d == p - q - b
    <3>2. d \in Int
      BY <2>2
    <3> HIDE DEF d
    <3>3. m * d = m * r => d = r
      BY <2>2, <3>2
    <3> QED  BY <3>1, <3>3 DEF d
  <2>4. m * p \in Int /\ m * q \in Int /\ m * r \in Int /\ m * b \in Int
    BY <2>2
  <2>5. z0 - m * b = x0 - y0 /\ (f.o <=> p - q - b # r)
    BY <1>1
  <2>6. (x0 + m * p) - (y0 + m * q) = z0 + m * r <=> m * p - m * q - m * b = m * r
    <3> HIDE DEF p, q, r, b
    <3> QED  BY <2>4, <2>5
  <2> QED  BY <2>3, <2>5, <2>6, <1>5
<1>8. Wide = W
  BY DEF Wide
<1> HIDE DEF X, Y, Z, W
<1>9. f.o = (Signed(X, Wide) - Signed(Y, Wide) # Signed(Z, Wide))
  BY <1>2, <1>7, <1>8, Zenon
<1>10. DifferenceExact(X, Y, Z, f)
  BY <1>3, <1>8, <1>9, Zenon DEF DifferenceExact
<1> QED  BY <1>10 DEF X, Y, Z

\* A remainder is the only one.
LEMMA OnlyRemainder ==
  ASSUME NEW w \in Nat \ {0}, NEW z \in 0..w - 1, NEW k \in Int, NEW a \in Int, a = z + w * k
  PROVE  a % w = z /\ a \div w = k
<1> DEFINE q == a \div w
           r == a % w
<1>1. q \in Int /\ r \in 0..w - 1 /\ a = w * q + r
  OBVIOUS
<1> HIDE DEF q, r
<1>2. w * (q - k) = z - r
  BY <1>1
<1>3. q - k \in Int
  BY <1>1
<1>4. CASE q - k >= 1
  BY <1>1, <1>2, <1>4
<1>5. CASE q - k <= -1
  BY <1>1, <1>2, <1>5
<1>6. CASE q - k = 0
  BY <1>1, <1>2, <1>6 DEF q, r
<1> QED  BY <1>3, <1>4, <1>5, <1>6

\* The lower operand negated, the upper one with the borrow of it: the whole is negated.
NegatesWide(m, x0, x1, z0, z1, c, d, e) ==
  z0 - m * c = -x0 /\ z1 - m * e = m * d - x1 - c => z0 + m * z1 = (-(x0 + m * x1)) % (m * m)

\* Two negations chained by a borrow are that of the whole number.
LEMMA NegationIsExact ==
  ASSUME NEW m \in Nat \ {0}, m % 2 = 0, NEW x0 \in 0..m - 1, NEW x1 \in 0..m - 1,
         NEW z0 \in 0..m - 1, NEW z1 \in 0..m - 1, NEW c \in Int, NEW d \in Int, NEW e \in Int
  PROVE  NegatesWide(m, x0, x1, z0, z1, c, d, e)
<1> SUFFICES ASSUME z0 - m * c = -x0, z1 - m * e = m * d - x1 - c
             PROVE  z0 + m * z1 = (-(x0 + m * x1)) % (m * m)
  BY Zenon DEF NegatesWide
<1>1. m * (z1 - m * e) = m * z1 - (m * m) * e
  OBVIOUS
<1>2. m * (m * d - x1 - c) = (m * m) * d - m * x1 - m * c
  OBVIOUS
<1>3. m * z1 \in Int /\ m * x1 \in Int /\ m * c \in Int /\ (m * m) * e \in Int /\ (m * m) * d \in Int
  OBVIOUS
<1>4. (m * m) * (-(e + d)) = -((m * m) * e) - (m * m) * d
  OBVIOUS
<1>5. -(x0 + m * x1) = (z0 + m * z1) + (m * m) * (-(e + d))
  BY <1>1, <1>2, <1>3, <1>4
<1>6. z0 + m * z1 \in 0..m * m - 1 /\ m * m \in Nat \ {0}
  BY WideNumbers, Zenon DEF IsWide
<1> DEFINE w == m * m
           z == z0 + m * z1
           k == -(e + d)
           a == -(x0 + m * x1)
<1>7. w \in Nat \ {0} /\ z \in 0..w - 1 /\ k \in Int /\ a \in Int /\ a = z + w * k
  BY <1>3, <1>5, <1>6
<1> HIDE DEF w, z, k, a
<1>8. a % w = z
  BY <1>7, OnlyRemainder
<1> QED  BY <1>8 DEF a, w, z

-----------------------------------------------------------------------------
(* What the programs have come to when they are done. *)

\* A program that is done has executed all its code.
LEMMA RoutineDone ==
  ASSUME AluTypes(alu), Done, ~alu.trap, NEW k, Len(Code(alu.task, alu.given)) = k
  PROVE  alu.at \in Nat /\ alu.at > k
<1>1. alu.at \in Nat
  BY DEF AluTypes
<1>2. alu.at > Len(Code(alu.task, alu.given))
  BY Zenon DEF Done
<1> QED  BY <1>1, <1>2, Zenon

\* A sum that is done is exact.
LEMMA SumDone ==
  ASSUME AluTypes(alu), alu.task \in {"sum", "cleared_sum"}, SumAt(alu, SumPlace(alu)), Done, ~alu.trap
  PROVE  SumExact(XOf(alu.given), YOf(alu.given), XOf(alu.r), alu.f)
<1>1. SumPlace(alu) \in 4..10
  <2>1. CASE alu.task = "sum"
    <3>1. Len(Code(alu.task, alu.given)) = 3
      BY <2>1, SumCode
    <3>5. alu.at \in Nat /\ alu.at > 3
      BY <3>1, RoutineDone, Zenon
    <3> QED  BY <2>1, <3>5 DEF SumPlace, SumAt
  <2>2. CASE alu.task = "cleared_sum"
    <3>1. Len(Code(alu.task, alu.given)) = 4
      BY <2>2, SumCode
    <3>5. alu.at \in Nat /\ alu.at > 4
      BY <3>1, RoutineDone, Zenon
    <3> QED  BY <2>2, <3>5 DEF SumPlace, SumAt
  <2> QED  BY <2>1, <2>2
<1>2. SumAt(alu, 4)
  BY <1>1 DEF SumAt
<1>3. /\ alu.m \in Nat \ {0} /\ alu.m % 2 = 0 /\ alu.r.x0 \in 0..alu.m - 1
      /\ alu.given.x0 \in 0..alu.m - 1 /\ alu.given.x1 \in 0..alu.m - 1
      /\ alu.given.y0 \in 0..alu.m - 1 /\ alu.given.y1 \in 0..alu.m - 1
  BY WidthsSplit DEF AluTypes, Numbers
<1>4. PICK c \in BOOLEAN :
        /\ alu.r.x0 + alu.m * Bit(c) = alu.given.x0 + alu.given.y0
        /\ \E w : w.v = alu.r.x1 /\ w.f = alu.f /\ IsSum(alu.m, alu.given.x1, alu.given.y1, c, w)
  BY <1>2 DEF SumAt
<1>5. PICK w : w.v = alu.r.x1 /\ w.f = alu.f /\ IsSum(alu.m, alu.given.x1, alu.given.y1, c, w)
  BY <1>4
<1>6. SumExact(alu.given.x0 + alu.m * alu.given.x1, alu.given.y0 + alu.m * alu.given.y1,
               alu.r.x0 + alu.m * w.v, alu.f)
  BY <1>3, <1>4, <1>5, SumIsExact
<1> QED  BY <1>5, <1>6, Zenon DEF XOf, YOf

\* A difference that is done is exact.
LEMMA DifferenceDone ==
  ASSUME AluTypes(alu), alu.task = "difference", DifferenceAt(alu), Done, ~alu.trap
  PROVE  DifferenceExact(XOf(alu.given), YOf(alu.given), XOf(alu.r), alu.f)
<1>1. alu.at = 4
  <2>1. Len(Code(alu.task, alu.given)) = 3
    BY SumCode
  <2>5. alu.at \in Nat /\ alu.at > 3
    BY <2>1, RoutineDone, Zenon
  <2> QED  BY <2>5 DEF DifferenceAt
<1>3. /\ alu.m \in Nat \ {0} /\ alu.m % 2 = 0 /\ alu.r.x0 \in 0..alu.m - 1
      /\ alu.given.x0 \in 0..alu.m - 1 /\ alu.given.x1 \in 0..alu.m - 1
      /\ alu.given.y0 \in 0..alu.m - 1 /\ alu.given.y1 \in 0..alu.m - 1
  BY WidthsSplit DEF AluTypes, Numbers
<1>4. PICK c \in BOOLEAN :
        /\ alu.r.x0 - alu.m * Bit(c) = alu.given.x0 - alu.given.y0
        /\ \E w : w.v = alu.r.x1 /\ w.f = alu.f /\ IsDifference(alu.m, alu.given.x1, alu.given.y1, c, w)
  BY <1>1 DEF DifferenceAt
<1>5. PICK w : w.v = alu.r.x1 /\ w.f = alu.f /\ IsDifference(alu.m, alu.given.x1, alu.given.y1, c, w)
  BY <1>4
<1>6. DifferenceExact(alu.given.x0 + alu.m * alu.given.x1, alu.given.y0 + alu.m * alu.given.y1,
                      alu.r.x0 + alu.m * w.v, alu.f)
  BY <1>3, <1>4, <1>5, DifferenceIsExact
<1> QED  BY <1>5, <1>6, Zenon DEF XOf, YOf

\* A negation that is done is that of the whole number.
LEMMA NegationDone ==
  ASSUME AluTypes(alu), alu.task = "negation", NegationAt(alu), Done, ~alu.trap
  PROVE  XOf(alu.r) = (-XOf(alu.given)) % Wide
<1>1. alu.at = 5
  <2>1. Len(Code(alu.task, alu.given)) = 4
    BY SumCode
  <2>2. alu.at \in 1..5
    BY Zenon DEF NegationAt
  <2>5. alu.at \in Nat /\ alu.at > 4
    BY <2>1, RoutineDone, Zenon
  <2> QED  BY <2>2, <2>5
<1>2. /\ alu.m \in Nat \ {0} /\ alu.m % 2 = 0 /\ alu.r.x0 \in 0..alu.m - 1 /\ alu.r.x1 \in 0..alu.m - 1
      /\ alu.given.x0 \in 0..alu.m - 1 /\ alu.given.x1 \in 0..alu.m - 1
  BY WidthsSplit DEF AluTypes, Numbers
<1>3. \E c, d, e \in 0..1 : /\ alu.r.x0 - alu.m * c = -alu.given.x0
                            /\ alu.r.x1 - alu.m * e = alu.m * d - alu.given.x1 - c
  BY <1>1, Zenon DEF NegationAt
<1>4. PICK c \in 0..1, d \in 0..1, e \in 0..1 :
        alu.r.x0 - alu.m * c = -alu.given.x0 /\ alu.r.x1 - alu.m * e = alu.m * d - alu.given.x1 - c
  BY <1>3, Zenon
<1>5. c \in Int /\ d \in Int /\ e \in Int
  OBVIOUS
<1>6. alu.r.x0 + alu.m * alu.r.x1 = (-(alu.given.x0 + alu.m * alu.given.x1)) % (alu.m * alu.m)
  <2>1. NegatesWide(alu.m, alu.given.x0, alu.given.x1, alu.r.x0, alu.r.x1, c, d, e)
    BY <1>2, <1>5, NegationIsExact
  <2> QED  BY <1>4, <2>1, Zenon DEF NegatesWide
<1> QED  BY <1>6, Zenon DEF XOf, Wide

\* A complement that is done and incremented is a negation; its upper operand is not carried into.
LEMMA ComplementDone ==
  ASSUME AluTypes(alu), alu.task = "complement", ComplementAt(alu), Done, ~alu.trap
  PROVE  alu.r.x0 = Wrap(-alu.given.x0, alu.m) /\ alu.r.x1 + alu.given.x1 = alu.m - 1
<1>1. alu.at = 4
  <2>1. Len(Code(alu.task, alu.given)) = 3
    BY SumCode
  <2>2. alu.at \in 1..4
    BY Zenon DEF ComplementAt
  <2>5. alu.at \in Nat /\ alu.at > 3
    BY <2>1, RoutineDone, Zenon
  <2> QED  BY <2>2, <2>5
<1>2. /\ alu.m \in Nat \ {0} /\ alu.r.x0 \in 0..alu.m - 1 /\ alu.r.x1 \in 0..alu.m - 1
      /\ alu.given.x0 \in 0..alu.m - 1 /\ alu.given.x1 \in 0..alu.m - 1
  BY WidthsSplit DEF AluTypes, Numbers
<1>3. alu.r.x0 = Wrap(alu.m - alu.given.x0, alu.m) /\ alu.r.x1 = alu.m - 1 - alu.given.x1
  BY <1>1 DEF ComplementAt
<1> QED  BY <1>2, <1>3 DEF Wrap

\* A comparison that is done has changed nothing and decides the jumps.
LEMMA ComparisonDone ==
  ASSUME AluTypes(alu), alu.task = "comparison", ComparisonAt(alu), Done, ~alu.trap
  PROVE  alu.r = alu.given /\ JumpsDecide(alu.given.x0, alu.given.y0, alu.m, alu.f)
<1>1. alu.at = 2
  <2>1. Len(Code(alu.task, alu.given)) = 1
    BY SumCode
  <2>5. alu.at \in Nat /\ alu.at > 1
    BY <2>1, RoutineDone, Zenon
  <2> QED  BY <2>5 DEF ComparisonAt
<1>2. /\ alu.r.x0 = alu.given.x0 /\ alu.r.x1 = alu.given.x1 /\ alu.r.y0 = alu.given.y0
      /\ alu.r.y1 = alu.given.y1 /\ alu.r.n = alu.given.n
      /\ JumpsDecide(alu.given.x0, alu.given.y0, alu.m, alu.f)
  BY <1>1, Zenon DEF ComparisonAt
<1>3. alu.r \in Numbers(alu.m) /\ alu.given \in Numbers(alu.m)
  BY DEF AluTypes
<1>4. alu.r = alu.given
  BY <1>2, <1>3 DEF Numbers
<1> QED  BY <1>2, <1>4

-----------------------------------------------------------------------------
(* Products and quotients. *)

LEMMA Division ==
  ASSUME NEW x \in Int, NEW m \in Nat \ {0}
  PROVE  /\ x = m * (x \div m) + (x % m)
         /\ x % m \in 0..(m - 1)
         /\ x \div m \in Int
  BY SMT

LEMMA Unique ==
  ASSUME NEW m \in Nat \ {0}, NEW q \in Int, NEW r \in 0..(m - 1)
  PROVE  (m * q + r) % m = r /\ (m * q + r) \div m = q
  BY SMT

LEMMA Quotient ==
  ASSUME NEW x \in Nat, NEW m \in Nat \ {0}
  PROVE  x \div m \in Nat
<1> DEFINE q == x \div m
           r == x % m
<1>1. x = m * q + r /\ r \in 0..(m - 1) /\ q \in Int
  BY Division
<1> HIDE DEF q, r
<1>2. ASSUME q < 0 PROVE FALSE
  <2>1. m * q <= m * (-1)
    BY <1>1, <1>2
  <2> QED  BY <1>1, <2>1
<1>3. q \in Nat
  BY <1>1, <1>2
<1> QED  BY <1>3 DEF q

\* Both halves of a number of two operands.
LEMMA HalvesJoin ==
  ASSUME NEW m \in Nat \ {0}, NEW a \in 0..m * m - 1
  PROVE  a % m \in 0..m - 1 /\ a \div m \in 0..m - 1 /\ (a % m) + m * (a \div m) = a
<1> DEFINE q == a \div m
           r == a % m
<1>0. a \in Nat /\ a \in Int
  OBVIOUS
<1>1. a = m * q + r /\ r \in 0..m - 1 /\ q \in Nat /\ m * m \in Nat
  <2>1. a = m * q + r /\ r \in 0..(m - 1)
    BY <1>0, Division
  <2>2. q \in Nat
    BY <1>0, Quotient
  <2> HIDE DEF q, r
  <2> QED  BY <2>1, <2>2
<1> HIDE DEF q, r
<1>2. ASSUME q >= m PROVE FALSE
  <2>1. m * q >= m * m
    BY <1>1, <1>2
  <2>2. m * q \in Int /\ a \in Int /\ a < m * m
    BY <1>1
  <2> QED  BY <1>1, <2>1, <2>2
<1>3. q \in 0..m - 1 /\ r + m * q = a
  BY <1>1, <1>2
<1> QED  BY <1>1, <1>3 DEF q, r

\* What a factor stands for, and the product to be formed: REP negates it (i8088.py:1714-1796).
Factor(signed, x, m) == IF signed THEN Signed(x, m) ELSE x
ProductOf(signed, m, x, y, rep) ==
  IF rep THEN -(Factor(signed, x, m) * Factor(signed, y, m)) ELSE Factor(signed, x, m) * Factor(signed, y, m)

\* A product has come to w, with the carry that says whether its upper half matters.
IsProduct(signed, m, p, w) ==
  /\ w.lo \in 0..m - 1 /\ w.hi \in 0..m - 1 /\ w.c \in BOOLEAN
  /\ w.lo + m * w.hi = p % (m * m)
  /\ w.c = IF signed THEN p \notin -Half(m)..Half(m) - 1 ELSE w.hi # 0

\* A product of integers is one.
LEMMA ProductInt ==
  ASSUME NEW signed \in BOOLEAN, NEW rep \in BOOLEAN, NEW m \in Nat, NEW x \in Int, NEW y \in Int
  PROVE  /\ ProductOf(signed, m, x, y, rep) \in Int
         /\ Factor(signed, x, m) \in Int /\ Factor(signed, y, m) \in Int
<1>1. Factor(signed, x, m) \in Int /\ Factor(signed, y, m) \in Int
  BY DEF Factor, Signed
<1> QED  BY <1>1 DEF ProductOf

\* MUL and IMUL form the product, and their carry says when it does not fit one operand.
LEMMA MultiplyExact ==
  ASSUME NEW m \in Nat \ {0}, m % 2 = 0, NEW x \in 0..m - 1, NEW y \in 0..m - 1, NEW signed \in BOOLEAN, NEW rep \in BOOLEAN,
         NEW w, w = Multiply(signed, m, x, y, rep)
  PROVE  IsProduct(signed, m, ProductOf(signed, m, x, y, rep), w)
<1> DEFINE p == ProductOf(signed, m, x, y, rep)
           all == p % (m * m)
<1>1. p \in Int /\ Half(m) \in Int
  <2>1. x \in Int /\ y \in Int /\ m \in Nat
    OBVIOUS
  <2> QED  BY <2>1, ProductInt, Halved
<1>2. m * m \in Nat \ {0}
  BY WideNumbers DEF IsWide
<1>3. /\ w.lo = all % m /\ w.hi = all \div m
      /\ w.c = IF signed THEN p < -Half(m) \/ p >= Half(m) ELSE all \div m # 0
  BY Zenon DEF Multiply, ProductOf, Factor
<1> HIDE DEF p
<1>4. all \in 0..m * m - 1
  BY <1>1, <1>2, Division
<1> HIDE DEF all
<1>5. w.lo \in 0..m - 1 /\ w.hi \in 0..m - 1 /\ w.lo + m * w.hi = all
  BY <1>3, <1>4, HalvesJoin
<1>6. w.c = IF signed THEN p \notin -Half(m)..Half(m) - 1 ELSE w.hi # 0
  <2>1. (p < -Half(m) \/ p >= Half(m)) = (p \notin -Half(m)..Half(m) - 1)
    BY <1>1
  <2> QED  BY <1>3, <2>1, Zenon
<1>7. w.c \in BOOLEAN
  BY <1>6
<1> QED  BY <1>5, <1>6, <1>7, Zenon DEF IsProduct, p, all

\* The quotient that truncates.
IsTruncated(n, d, q) ==
  /\ Magnitude(n - q * d) < Magnitude(d)
  /\ n < 0 => n - q * d <= 0
  /\ n > 0 => n - q * d >= 0

\* There is at most one such quotient.
LEMMA OneTruncated ==
  ASSUME NEW n \in Int, NEW d \in Int, NEW p \in Int, NEW q \in Int, IsTruncated(n, d, p), IsTruncated(n, d, q)
  PROVE  p = q
<1> DEFINE a == p * d
           b == q * d
<1>1. a \in Int /\ b \in Int /\ a - b = (p - q) * d
  OBVIOUS
<1>2. /\ Magnitude(n - a) < Magnitude(d) /\ Magnitude(n - b) < Magnitude(d)
      /\ n < 0 => n - a <= 0 /\ n - b <= 0
      /\ n > 0 => n - a >= 0 /\ n - b >= 0
  BY Zenon DEF IsTruncated
<1> HIDE DEF a, b
<1>3. n # 0 => Magnitude(a - b) < Magnitude(d)
  BY <1>1, <1>2 DEF Magnitude
<1>4. \A k \in Int : Magnitude(k * d) < Magnitude(d) => k = 0
  <2> SUFFICES ASSUME NEW k \in Int, Magnitude(k * d) < Magnitude(d) PROVE k = 0
    OBVIOUS
  <2> DEFINE e == k * d
  <2>1. e \in Int /\ Magnitude(e) < Magnitude(d)
    OBVIOUS
  <2>2. CASE d > 0
    <3>1. k >= 1 => e >= d
      BY <2>2
    <3>2. k <= -1 => e <= -d
      BY <2>2
    <3> HIDE DEF e
    <3> QED  BY <2>1, <2>2, <3>1, <3>2 DEF Magnitude
  <2>3. CASE d < 0
    <3>1. k >= 1 => e <= d
      BY <2>3
    <3>2. k <= -1 => e >= -d
      BY <2>3
    <3> HIDE DEF e
    <3> QED  BY <2>1, <2>3, <3>1, <3>2 DEF Magnitude
  <2>4. CASE d = 0
    <3> HIDE DEF e
    <3> QED  BY <2>1, <2>4 DEF Magnitude
  <2> QED  BY <2>2, <2>3, <2>4
<1>5. CASE n # 0
  <2>1. Magnitude((p - q) * d) < Magnitude(d)
    BY <1>1, <1>3, <1>5, Zenon
  <2>2. p - q \in Int
    OBVIOUS
  <2>3. p - q = 0
    BY <1>4, <2>1, <2>2, Zenon
  <2> QED  BY <2>3
<1>6. CASE n = 0
  <2>1. Magnitude(p * d) < Magnitude(d) /\ Magnitude(q * d) < Magnitude(d)
    <3>1. Magnitude(a) < Magnitude(d) /\ Magnitude(b) < Magnitude(d)
      BY <1>1, <1>2, <1>6 DEF Magnitude
    <3> QED  BY <3>1 DEF a, b
  <2> QED  BY <1>4, <2>1, Zenon
<1> QED  BY <1>5, <1>6

\* A quotient of the magnitudes, with the sign of both, is the one that truncates.
LEMMA Truncates ==
  ASSUME NEW n \in Int, NEW d \in Int \ {0}, NEW amount, amount = Magnitude(n) \div Magnitude(d),
         NEW q, q = IF (n < 0) # (d < 0) THEN -amount ELSE amount
  PROVE  amount \in Nat /\ q \in Int /\ Magnitude(q) = amount /\ IsTruncated(n, d, q)
<1> DEFINE N == Magnitude(n)
           D == Magnitude(d)
           r == N % D
<1>1. N \in Nat /\ D \in Nat \ {0}
  BY DEF Magnitude
<1>2. amount \in Nat
  BY <1>1, Quotient
<1>3. N = D * amount + r /\ r \in 0..D - 1 /\ D * amount \in Int /\ r \in Int
  <2> HIDE DEF N, D
  <2>1. N \in Int
    BY <1>1
  <2>2. N = D * (N \div D) + r /\ r \in 0..(D - 1)
    BY <1>1, <2>1, Division
  <2>3. amount = N \div D
    BY DEF N, D
  <2>4. N = D * amount + r
    BY <2>2, <2>3, Zenon
  <2> HIDE DEF r
  <2>5. D * amount \in Int
    BY <1>1, <1>2
  <2> QED  BY <1>1, <2>2, <2>4, <2>5
<1> HIDE DEF r
<1>4. q \in Int /\ Magnitude(q) = amount
  BY <1>2 DEF Magnitude
<1>5. n - q * d = IF n < 0 THEN -r ELSE r
  <2>1. CASE n >= 0 /\ d > 0
    <3>1. N = n /\ D = d /\ q = amount
      BY <2>1 DEF Magnitude
    <3>2. n = d * amount + r
      BY <1>3, <3>1, Zenon
    <3>3. q * d = d * amount
      BY <1>2, <3>1
    <3> QED  BY <1>3, <2>1, <3>1, <3>2, <3>3
  <2>2. CASE n >= 0 /\ d < 0
    <3>1. N = n /\ D = -d /\ q = -amount
      BY <2>2 DEF Magnitude
    <3>2. n = (-d) * amount + r
      BY <1>3, <3>1, Zenon
    <3>3. q * d = (-d) * amount
      BY <1>2, <3>1
    <3> QED  BY <1>3, <2>2, <3>1, <3>2, <3>3
  <2>3. CASE n < 0 /\ d > 0
    <3>1. N = -n /\ D = d /\ q = -amount
      BY <2>3 DEF Magnitude
    <3>2. -n = d * amount + r
      BY <1>3, <3>1, Zenon
    <3>3. q * d = -(d * amount)
      <4>1. (-amount) * d = -(d * amount)
        BY <1>2
      <4> QED  BY <3>1, <4>1, Zenon
    <3> QED  BY <1>3, <2>3, <3>1, <3>2, <3>3
  <2>4. CASE n < 0 /\ d < 0
    <3>1. N = -n /\ D = -d /\ q = amount
      BY <2>4 DEF Magnitude
    <3>2. -n = (-d) * amount + r
      BY <1>3, <3>1, Zenon
    <3>3. q * d = -((-d) * amount)
      <4>1. amount * d = -((-d) * amount)
        BY <1>2
      <4> QED  BY <3>1, <4>1, Zenon
    <3> QED  BY <1>3, <2>4, <3>1, <3>2, <3>3
  <2> QED  BY <2>1, <2>2, <2>3, <2>4
<1>6. IsTruncated(n, d, q)
  <2> DEFINE e == n - q * d
  <2>1. e = IF n < 0 THEN -r ELSE r
    BY <1>5
  <2>2. IsTruncated(n, d, q) <=> Magnitude(e) < D /\ (n < 0 => e <= 0) /\ (n > 0 => e >= 0)
    BY Zenon DEF IsTruncated
  <2> HIDE DEF e
  <2>3. Magnitude(e) < D /\ (n < 0 => e <= 0) /\ (n > 0 => e >= 0)
    BY <1>1, <1>3, <2>1 DEF Magnitude
  <2> QED  BY <2>2, <2>3, Zenon
<1> QED  BY <1>2, <1>4, <1>6

\* The quotients that fit an operand, and the number that is divided.
QuotientsOf(signed, m) == IF signed THEN 1 - Half(m)..Half(m) - 1 ELSE 0..m - 1
Dividend(signed, n, m) == IF signed THEN Signed(n, m * m) ELSE n

\* What a division has to return, and when it has to trap.
IsDivided(signed, m, n, d, w) ==
  /\ w.trap \in BOOLEAN
  /\ w.trap => \A q \in QuotientsOf(signed, m) : ~IsTruncated(n, d, q)
  /\ ~w.trap => /\ w.q \in 0..m - 1 /\ w.r \in 0..m - 1
                /\ \E q \in QuotientsOf(signed, m) :
                     IsTruncated(n, d, q) /\ w.q = q % m /\ w.r = (n - q * d) % m

\* Nothing is a quotient by zero.
LEMMA NoneOfZero ==
  ASSUME NEW n \in Int, NEW q \in Int
  PROVE  ~IsTruncated(n, 0, q)
<1>1. n - q * 0 = n
  OBVIOUS
<1>2. ~(Magnitude(n - q * 0) < Magnitude(0))
  BY <1>1 DEF Magnitude
<1> QED  BY <1>2, Zenon DEF IsTruncated

\* What a division that traps returns.
LEMMA TrapReturned ==
  ASSUME NEW w, w = [trap |-> TRUE]
  PROVE  w.trap = TRUE
OBVIOUS

\* What one that does not trap returns.
LEMMA Returned ==
  ASSUME NEW q, NEW r, NEW w, w = [trap |-> FALSE, q |-> q, r |-> r]
  PROVE  w.q = q /\ w.r = r /\ ~w.trap /\ w.trap \in BOOLEAN
OBVIOUS

\* DIV returns the one quotient and traps when none fits.
LEMMA DivideNatural ==
  ASSUME NEW m \in Nat \ {0}, NEW n \in 0..m * m - 1, NEW d \in 0..m - 1, NEW signed \in BOOLEAN, ~signed,
         NEW rep, NEW w, w = Divide(signed, m, n, d, rep)
  PROVE  IsDivided(signed, m, n, d, w)
<1>0. n \in Int /\ n \in Nat /\ d \in Int /\ m \in Int
  BY DEF Half
<1>1. QuotientsOf(signed, m) = 0..m - 1
  BY DEF QuotientsOf
<1>2. w = IF d = 0 \/ n \div d >= m THEN [trap |-> TRUE] ELSE [trap |-> FALSE, q |-> n \div d, r |-> n % d]
  BY Zenon DEF Divide
<1>3. CASE d = 0
  <2>1. w = [trap |-> TRUE]
    BY <1>2, <1>3, Zenon
  <2>2. \A q \in 0..m - 1 : ~IsTruncated(n, d, q)
    BY <1>0, <1>3, NoneOfZero
  <2> QED  BY <1>1, <2>1, <2>2 DEF IsDivided
<1>4. CASE d # 0
  <2> DEFINE amount == n \div d
             r == n % d
  <2>0. d \in Nat \ {0}
    BY <1>4
  <2>1. n = d * amount + r /\ r \in 0..(d - 1) /\ amount \in Nat
    BY <1>0, <2>0, Division, Quotient
  <2>2. IsTruncated(n, d, amount)
    <3>1. Magnitude(n) = n /\ Magnitude(d) = d /\ ~(n < 0) /\ ~(d < 0)
      BY <1>0, <2>0 DEF Magnitude
    <3>2. amount = Magnitude(n) \div Magnitude(d) /\ amount = IF (n < 0) # (d < 0) THEN -amount ELSE amount
      BY <3>1
    <3>3. d \in Int \ {0}
      BY <2>0
    <3> HIDE DEF amount
    <3> QED  BY <1>0, <3>2, <3>3, Truncates
  <2>3. w = IF amount >= m THEN [trap |-> TRUE] ELSE [trap |-> FALSE, q |-> amount, r |-> r]
    BY <1>2, <1>4, Zenon
  <2> HIDE DEF amount, r
  <2>4. CASE amount >= m
    <3>1. w = [trap |-> TRUE]
      BY <2>3, <2>4, Zenon
    <3>2. \A q \in 0..m - 1 : ~IsTruncated(n, d, q)
      <4> SUFFICES ASSUME NEW q \in 0..m - 1, IsTruncated(n, d, q) PROVE FALSE
        OBVIOUS
      <4>1. q \in Int /\ amount \in Int
        BY <2>1
      <4>2. q = amount
        BY <1>0, <2>2, <4>1, OneTruncated
      <4> QED  BY <4>2, <2>4
    <3> QED  BY <1>1, <3>1, <3>2, SMTT(30) DEF IsDivided
  <2>5. CASE ~(amount >= m)
    <3>1. w = [trap |-> FALSE, q |-> amount, r |-> r]
      BY <2>3, <2>5, Zenon
    <3>2. amount \in 0..m - 1 /\ r \in 0..m - 1 /\ amount \in Int
      BY <2>1, <2>5
    <3>3. n - amount * d = r
      <4>1. amount * d = d * amount /\ d * amount \in Int /\ r \in Int
        BY <2>1
      <4> HIDE DEF amount
      <4> QED  BY <1>0, <2>1, <4>1
    <3>4. amount = amount % m /\ r = r % m
      BY <3>2
    <3>5. \E q \in 0..m - 1 : IsTruncated(n, d, q) /\ w.q = q % m /\ w.r = (n - q * d) % m
      <4>1. w.q = amount % m /\ w.r = (n - amount * d) % m
        <5>1. w.q = amount /\ w.r = r
          BY <3>1
        <5> QED  BY <3>3, <3>4, <5>1, Zenon
      <4> QED  BY <2>2, <3>2, <4>1, Zenon
    <3>6. w.q \in 0..m - 1 /\ w.r \in 0..m - 1 /\ w.trap = FALSE
      BY <3>1, <3>2
    <3> QED  BY <1>1, <3>5, <3>6 DEF IsDivided
  <2> QED  BY <2>4, <2>5
<1> QED  BY <1>3, <1>4

\* IDIV returns the one quotient that truncates and traps when none fits.
LEMMA DivideSigned ==
  ASSUME NEW m \in Nat \ {0}, m % 2 = 0, NEW N \in 0..m * m - 1, NEW D \in 0..m - 1, NEW signed \in BOOLEAN, signed,
         NEW rep \in BOOLEAN, ~rep, NEW w, w = Divide(signed, m, N, D, rep),
         NEW n, n = Signed(N, m * m), NEW d, d = Signed(D, m)
  PROVE  IsDivided(signed, m, n, d, w)
<1> DEFINE amount == Magnitude(n) \div Magnitude(d)
           q0 == IF (n < 0) # (d < 0) THEN -amount ELSE amount
           h == Half(m)
<1>0. h \in Nat \ {0} /\ n \in Int /\ d \in Int
  <2>1. m * m \in Int
    OBVIOUS
  <2>2. N - m * m \in Int /\ N \in Int
    BY <2>1
  <2> QED  BY <2>2, Halved DEF Signed
<1>1. QuotientsOf(signed, m) = 1 - h..h - 1
  BY DEF QuotientsOf
<1>2. w = IF d = 0 \/ (IF d = 0 THEN 0 ELSE amount) > h - 1 THEN [trap |-> TRUE]
          ELSE [trap |-> FALSE,
                q |-> (IF (n < 0) # (d < 0) THEN -(IF d = 0 THEN 0 ELSE amount) ELSE (IF d = 0 THEN 0 ELSE amount)) % m,
                r |-> (n - (IF (n < 0) # (d < 0) THEN -(IF d = 0 THEN 0 ELSE amount) ELSE (IF d = 0 THEN 0 ELSE amount)) * d) % m]
  <2>1. n = IF N >= (m * m) \div 2 THEN N - m * m ELSE N
    BY Zenon DEF Signed, Sign, Half
  <2> QED  BY <2>1, Zenon DEF Divide, Magnitude
<1>3. CASE d = 0
  <2>1. w = [trap |-> TRUE]
    BY <1>2, <1>3, Zenon
  <2>2. \A q \in 1 - h..h - 1 : ~IsTruncated(n, d, q)
    BY <1>0, <1>3, NoneOfZero
  <2>3. w.trap = TRUE
    BY <2>1, TrapReturned, Zenon
  <2> QED  BY <1>1, <2>2, <2>3, Zenon DEF IsDivided
<1>4. CASE d # 0
  <2>1. w = IF amount > h - 1 THEN [trap |-> TRUE]
            ELSE [trap |-> FALSE, q |-> q0 % m, r |-> (n - q0 * d) % m]
    BY <1>2, <1>4, Zenon
  <2>2. amount \in Nat /\ q0 \in Int /\ Magnitude(q0) = amount /\ IsTruncated(n, d, q0)
    <3>1. d \in Int \ {0}
      BY <1>0, <1>4
    <3> QED  BY <1>0, <3>1, Truncates
  <2> HIDE DEF amount, q0, h
  <2>3. CASE amount > h - 1
    <3>1. w = [trap |-> TRUE]
      BY <2>1, <2>3, Zenon
    <3>2. \A q \in 1 - h..h - 1 : ~IsTruncated(n, d, q)
      <4> SUFFICES ASSUME NEW q \in 1 - h..h - 1, IsTruncated(n, d, q) PROVE FALSE
        OBVIOUS
      <4>1. q \in Int
        BY <1>0
      <4>2. q = q0
        BY <1>0, <2>2, <4>1, OneTruncated
      <4>3. Magnitude(q) <= h - 1
        BY <1>0, <4>1 DEF Magnitude
      <4> QED  BY <1>0, <4>2, <4>3, <2>2, <2>3
    <3>3. w.trap = TRUE
      BY <3>1, TrapReturned, ZenonT(60)
    <3> QED  BY <1>1, <3>2, <3>3, Zenon DEF IsDivided
  <2>4. CASE ~(amount > h - 1)
    <3>1. w = [trap |-> FALSE, q |-> q0 % m, r |-> (n - q0 * d) % m]
      BY <2>1, <2>4, Zenon
    <3>2. q0 \in 1 - h..h - 1
      BY <1>0, <2>2, <2>4 DEF Magnitude
    <3>3. n - q0 * d \in Int
      BY <1>0, <2>2
    <3>4. q0 % m \in 0..m - 1 /\ (n - q0 * d) % m \in 0..m - 1
      BY <2>2, <3>3, Division
    <3>5. w.q = q0 % m /\ w.r = (n - q0 * d) % m /\ ~w.trap /\ w.trap \in BOOLEAN
      <4> DEFINE a == q0 % m
                 b == (n - q0 * d) % m
      <4>1. w = [trap |-> FALSE, q |-> a, r |-> b]
        BY <3>1
      <4> HIDE DEF a, b
      <4>2. w.q = a /\ w.r = b /\ ~w.trap /\ w.trap \in BOOLEAN
        BY <4>1, Returned, Zenon
      <4> QED  BY <4>2, Zenon DEF a, b
    <3>6. \E q \in 1 - h..h - 1 : IsTruncated(n, d, q) /\ w.q = q % m /\ w.r = (n - q * d) % m
      BY <2>2, <3>2, <3>5, Zenon
    <3>7. w.q \in 0..m - 1 /\ w.r \in 0..m - 1
      BY <3>4, <3>5, Zenon
    <3> QED  BY <1>1, <3>5, <3>6, <3>7, Zenon DEF IsDivided
  <2> QED  BY <2>3, <2>4
<1> QED  BY <1>3, <1>4

\* What stays as it is.
Carries(s, t) ==
  t.task = s.task /\ t.given = s.given /\ t.encoding = s.encoding /\ t.rep = s.rep /\ t.m = s.m

\* An instruction of several operands: they become b, the flags f.
Puts(s, t, b, f) == t = [s EXCEPT !.r = b, !.f = f, !.at = s.at + 1]

\* It keeps the types and what the program is.
LEMMA Becomes ==
  ASSUME NEW s, AluTypes(s), NEW b \in Numbers(s.m), NEW f \in Flags, NEW t, Puts(s, t, b, f)
  PROVE  AluTypes(t) /\ Carries(s, t) /\ t.trap = s.trap /\ t.at = s.at + 1 /\ t.r = b /\ t.f = f
<1>1. /\ t.task = s.task /\ t.given = s.given /\ t.encoding = s.encoding /\ t.rep = s.rep
      /\ t.m = s.m /\ t.trap = s.trap /\ t.at = s.at + 1 /\ t.f = f /\ t.r = b
      /\ t = [task |-> t.task, given |-> t.given, r |-> t.r, encoding |-> t.encoding, rep |-> t.rep,
              m |-> t.m, f |-> t.f, at |-> t.at, trap |-> t.trap]
  BY DEF AluTypes, Puts
<1>2. AluTypes(t)
  BY <1>1 DEF AluTypes
<1> QED  BY <1>1, <1>2, Zenon DEF Carries

\* A division leaves quotient and remainder, or traps and leaves all as it was.
LEMMA DividesNext ==
  ASSUME AluTypes(alu), AluNext, NEW signed \in BOOLEAN, Now(alu) = One(IF signed THEN "idiv" ELSE "div", "y0")
  PROVE  \E w : /\ IsDivided(signed, alu.m, Dividend(signed, XOf(alu.r), alu.m), Factor(signed, alu.r.y0, alu.m), w)
                /\ AluTypes(alu') /\ Carries(alu, alu') /\ alu'.r.y0 = alu.r.y0
                /\ w.trap => alu'.trap /\ alu'.at = alu.at
                /\ ~w.trap => /\ alu'.trap = alu.trap /\ alu'.at = alu.at + 1
                              /\ alu'.r.x0 = w.q /\ alu'.r.x1 = w.r
<1>1. Now(alu).op = IF signed THEN "idiv" ELSE "div"
  BY DEF One
<1>2. DivideStep
  BY <1>1 DEF AluNext, Calculate, MultiplyStep, AsciiStep
<1>3. PICK no \in BOOLEAN : no = FALSE
  OBVIOUS
<1>4. (Now(alu).op = "idiv") = signed
  BY <1>1
<1> DEFINE w == Divide(signed, alu.m, XOf(alu.r), alu.r.y0, no)
           m == alu.m
<1>5. alu' = IF w.trap THEN [alu EXCEPT !.trap = TRUE]
             ELSE [alu EXCEPT !.r.x0 = w.q, !.r.x1 = w.r, !.at = @ + 1]
  <2>1. w = Divide(Now(alu).op = "idiv", alu.m, alu.r.x0 + alu.m * alu.r.x1, alu.r.y0, FALSE)
    BY <1>3, <1>4, Zenon DEF XOf
  <2> HIDE DEF w
  <2> QED  BY <1>2, <2>1, Zenon DEF DivideStep
<1>6. m \in Nat \ {0} /\ m % 2 = 0 /\ alu.r.x0 \in 0..m - 1 /\ alu.r.x1 \in 0..m - 1 /\ alu.r.y0 \in 0..m - 1
  BY WidthsSplit DEF AluTypes, Numbers
<1>7. XOf(alu.r) \in 0..m * m - 1
  <2>1. IsWide(m, alu.r.x0, alu.r.x1)
    BY <1>6, WideNumbers
  <2> QED  BY <2>1, Zenon DEF IsWide, XOf
<1>8. IsDivided(signed, m, Dividend(signed, XOf(alu.r), m), Factor(signed, alu.r.y0, m), w)
  <2> HIDE DEF m
  <2>1. CASE signed
    <3>1. /\ Dividend(signed, XOf(alu.r), m) = Signed(XOf(alu.r), m * m)
          /\ Factor(signed, alu.r.y0, m) = Signed(alu.r.y0, m)
      BY <2>1, Zenon DEF Dividend, Factor
    <3>2. w = Divide(signed, m, XOf(alu.r), alu.r.y0, no)
      BY Zenon DEF m
    <3> HIDE DEF w
    <3> QED  BY <1>3, <1>6, <1>7, <2>1, <3>1, <3>2, DivideSigned
  <2>2. CASE ~signed
    <3>1. Dividend(signed, XOf(alu.r), m) = XOf(alu.r) /\ Factor(signed, alu.r.y0, m) = alu.r.y0
      BY <2>2, Zenon DEF Dividend, Factor
    <3>2. w = Divide(signed, m, XOf(alu.r), alu.r.y0, no)
      BY ZenonT(60) DEF m
    <3> HIDE DEF w
    <3> QED  BY <1>6, <1>7, <2>2, <3>1, <3>2, DivideNatural
  <2> QED  BY <2>1, <2>2
<1>9. w.trap \in BOOLEAN /\ (~w.trap => w.q \in 0..m - 1 /\ w.r \in 0..m - 1)
  BY <1>8, Zenon DEF IsDivided
<1> HIDE DEF w
<1>10. CASE w.trap
  <2>1. alu' = [alu EXCEPT !.trap = TRUE]
    BY <1>5, <1>10
  <2>2. AluTypes(alu') /\ Carries(alu, alu') /\ alu'.r.y0 = alu.r.y0 /\ alu'.trap /\ alu'.at = alu.at
    BY <2>1 DEF AluTypes, Carries
  <2> QED  BY <1>8, <1>10, <2>2
<1>11. CASE ~w.trap
  <2>1. alu' = [alu EXCEPT !.r.x0 = w.q, !.r.x1 = w.r, !.at = @ + 1]
    BY <1>5, <1>11, Zenon
  <2>2. PICK q, r : q = w.q /\ r = w.r /\ q \in 0..alu.m - 1 /\ r \in 0..alu.m - 1
    BY <1>9, <1>11
  <2>3. alu' = [alu EXCEPT !.r = [alu.r EXCEPT !.x0 = q, !.x1 = r], !.at = alu.at + 1]
    BY <2>1, <2>2 DEF AluTypes, Numbers
  <2>4. alu.r \in Numbers(alu.m) /\ alu.at \in Nat
    BY DEF AluTypes
  <2>5. PICK b : b = [alu.r EXCEPT !.x0 = q, !.x1 = r]
    OBVIOUS
  <2>6. b \in Numbers(alu.m) /\ b.x0 = q /\ b.x1 = r /\ b.y0 = alu.r.y0
    BY <2>2, <2>4, <2>5 DEF Numbers
  <2>7. alu' = [alu EXCEPT !.r = b, !.f = alu.f, !.at = alu.at + 1] /\ alu.f \in Flags
    BY <2>3, <2>5 DEF AluTypes
  <2>8. /\ AluTypes(alu') /\ Carries(alu, alu') /\ alu'.trap = alu.trap /\ alu'.at = alu.at + 1 /\ alu'.r = b
    <3>1. Puts(alu, alu', b, alu.f)
      BY <2>7, Zenon DEF Puts
    <3> QED  BY <2>6, <2>7, <3>1, Becomes
  <2> QED  BY <1>8, <1>11, <2>2, <2>6, <2>8
<1> QED  BY <1>9, <1>10, <1>11

\* A multiplication leaves both halves of the product.
LEMMA MultipliesNext ==
  ASSUME AluTypes(alu), AluNext, NEW signed \in BOOLEAN, Now(alu) = One(IF signed THEN "imul" ELSE "mul", "y0")
  PROVE  \E w : /\ IsProduct(signed, alu.m, ProductOf(signed, alu.m, alu.r.x0, alu.r.y0, alu.rep), w)
                /\ AluTypes(alu') /\ Carries(alu, alu') /\ alu'.r.y0 = alu.r.y0
                /\ alu'.trap = alu.trap /\ alu'.at = alu.at + 1
                /\ alu'.r.x0 = w.lo /\ alu'.r.x1 = w.hi /\ alu'.f.c = w.c
<1>1. Now(alu).op = IF signed THEN "imul" ELSE "mul"
  BY DEF One
<1>2. MultiplyStep
  BY <1>1 DEF AluNext, Calculate, DivideStep, AsciiStep
<1>3. (Now(alu).op = "imul") = signed
  BY <1>1
<1> DEFINE w == Multiply(signed, alu.m, alu.r.x0, alu.r.y0, alu.rep)
           m == alu.m
<1>4. alu' = [alu EXCEPT !.r.x0 = w.lo, !.r.x1 = w.hi, !.f.c = w.c, !.f.o = w.c, !.at = @ + 1]
  BY <1>2, <1>3, Zenon DEF MultiplyStep
<1>5. m \in Nat \ {0} /\ m % 2 = 0 /\ alu.r.x0 \in 0..m - 1 /\ alu.r.y0 \in 0..m - 1 /\ alu.rep \in BOOLEAN
  BY WidthsSplit DEF AluTypes, Numbers
<1>6. IsProduct(signed, m, ProductOf(signed, m, alu.r.x0, alu.r.y0, alu.rep), w)
  <2> HIDE DEF m
  <2>1. w = Multiply(signed, m, alu.r.x0, alu.r.y0, alu.rep)
    BY Zenon DEF m
  <2> HIDE DEF w
  <2> QED  BY <1>5, <2>1, MultiplyExact
<1> HIDE DEF w
<1>7. w.lo \in 0..alu.m - 1 /\ w.hi \in 0..alu.m - 1 /\ w.c \in BOOLEAN
  BY <1>6, Zenon DEF IsProduct
<1>8. PICK q, r, c : q = w.lo /\ r = w.hi /\ c = w.c
  OBVIOUS
<1>9. q \in 0..alu.m - 1 /\ r \in 0..alu.m - 1 /\ c \in BOOLEAN
  BY <1>7, <1>8
<1>10. alu.r \in Numbers(alu.m) /\ alu.at \in Nat /\ alu.f \in Flags
  BY DEF AluTypes
<1>11. PICK b, f : b = [alu.r EXCEPT !.x0 = q, !.x1 = r] /\ f = [alu.f EXCEPT !.c = c, !.o = c]
  OBVIOUS
<1>12. b \in Numbers(alu.m) /\ b.x0 = q /\ b.x1 = r /\ b.y0 = alu.r.y0
  BY <1>9, <1>10, <1>11 DEF Numbers
<1>13. f \in Flags /\ f.c = c
  BY <1>9, <1>10, <1>11 DEF Flags
<1>14. alu' = [alu EXCEPT !.r = b, !.f = f, !.at = alu.at + 1]
  BY <1>4, <1>8, <1>10, <1>11 DEF AluTypes, Numbers, Flags
<1>15. /\ AluTypes(alu') /\ Carries(alu, alu') /\ alu'.trap = alu.trap /\ alu'.at = alu.at + 1
       /\ alu'.r = b /\ alu'.f = f
  <2>1. Puts(alu, alu', b, f)
    BY <1>14, Zenon DEF Puts
  <2> QED  BY <1>12, <1>13, <2>1, Becomes
<1> QED  BY <1>6, <1>8, <1>12, <1>13, <1>15

\* Larger factors have a larger product.
LEMMA Grows ==
  ASSUME NEW a \in Nat, NEW b \in Nat, NEW c \in Nat, NEW d \in Nat, a <= c, b <= d
  PROVE  a * b \in Nat /\ c * d \in Nat /\ a * b <= c * d
<1>1. a * b \in Nat /\ c * d \in Nat /\ c * b \in Nat
  OBVIOUS
<1>2. (c - a) * b >= 0 /\ (c - a) * b = c * b - a * b
  OBVIOUS
<1>3. (d - b) * c >= 0 /\ (d - b) * c = c * d - c * b
  OBVIOUS
<1> QED  BY <1>1, <1>2, <1>3

\* What a factor stands for is known from its bits and the reverse.
LEMMA Factors ==
  ASSUME NEW m \in Nat \ {0}, m % 2 = 0, NEW signed \in BOOLEAN, NEW X \in 0..m - 1
  PROVE  /\ Factor(signed, X, m) \in (IF signed THEN -Half(m)..Half(m) - 1 ELSE 0..m - 1)
         /\ Factor(signed, X, m) \in Int /\ Factor(signed, X, m) % m = X
<1>1. CASE signed
  <2>1. Factor(signed, X, m) = Signed(X, m)
    BY <1>1, Zenon DEF Factor
  <2>2. Signed(X, m) \in -Half(m)..Half(m) - 1 /\ Half(m) \in Nat
    BY Signs, Halved
  <2>3. Signed(X, m) % m = X
    <3>1. Signed(X, m) = X \/ Signed(X, m) = X - m
      BY DEF Signed
    <3>2. m * 0 + X = X /\ m * (-1) + X = X - m
      OBVIOUS
    <3>3. (m * 0 + X) % m = X /\ (m * (-1) + X) % m = X
      <4>1. X \in 0..(m - 1) /\ 0 \in Int /\ -1 \in Int
        OBVIOUS
      <4> QED  BY <4>1, Unique
    <3> QED  BY <3>1, <3>2, <3>3, Zenon
  <2>4. Signed(X, m) \in Int
    BY DEF Signed
  <2>5. Signed(X, m) \in (IF signed THEN -Half(m)..Half(m) - 1 ELSE 0..m - 1)
    BY <1>1, <2>2, Zenon
  <2> QED  BY <2>1, <2>3, <2>4, <2>5, Zenon
<1>2. CASE ~signed
  <2>1. Factor(signed, X, m) = X
    BY <1>2, Zenon DEF Factor
  <2>2. X % m = X /\ X \in Int
    OBVIOUS
  <2> QED  BY <1>2, <2>1, <2>2
<1> QED  BY <1>1, <1>2

\* A product of two factors fits two operands.
LEMMA ProductKept ==
  ASSUME NEW m \in Nat \ {0}, m % 2 = 0, NEW signed \in BOOLEAN, NEW X \in 0..m - 1, NEW Y \in 0..m - 1,
         NEW x, x = Factor(signed, X, m), NEW y, y = Factor(signed, Y, m)
  PROVE  Dividend(signed, (x * y) % (m * m), m) = x * y
<1> DEFINE h == Half(m)
           p == x * y
           W == m * m
           H == h * h
<1>1. h \in Nat \ {0} /\ m = 2 * h
  BY Halved
<1>2. x \in (IF signed THEN -h..h - 1 ELSE 0..m - 1) /\ y \in (IF signed THEN -h..h - 1 ELSE 0..m - 1)
      /\ x \in Int /\ y \in Int
  BY Factors
<1>3. p \in Int /\ W \in Int /\ H \in Int /\ W = 4 * H /\ H > 0
  <2>1. m * m = 4 * (h * h)
    BY <1>1
  <2>2. h * h > 0
    BY <1>1
  <2> QED  BY <1>1, <1>2, <2>1, <2>2
<1>4. CASE ~signed
  <2>1. x \in Nat /\ y \in Nat /\ x <= m - 1 /\ y <= m - 1 /\ m - 1 \in Nat
    BY <1>2, <1>4
  <2>2. p >= 0 /\ p <= (m - 1) * (m - 1)
    BY <2>1, Grows
  <2>3. (m - 1) * (m - 1) < W
    OBVIOUS
  <2>4. (m - 1) * (m - 1) \in Int
    OBVIOUS
  <2> HIDE DEF p, W
  <2>5. p \in 0..W - 1 /\ W \in Nat \ {0}
    BY <2>2, <2>3, <2>4, <1>3
  <2>6. p % W = p
    BY <2>5
  <2> QED  BY <2>6, <1>4 DEF Dividend, p, W
<1>5. CASE signed
  <2>1. x >= -h /\ x <= h /\ y >= -h /\ y <= h
    <3>1. x \in -h..h - 1 /\ y \in -h..h - 1
      BY <1>2, <1>5, Zenon
    <3> HIDE DEF h
    <3> QED  BY <1>1, <3>1
  <2>2. p <= H /\ p >= -H
    <3>1. CASE x >= 0 /\ y >= 0
      BY <1>1, <1>2, <2>1, <3>1, Grows
    <3>2. CASE x >= 0 /\ y < 0
      <4>1. x \in Nat /\ -y \in Nat /\ x <= h /\ -y <= h /\ h \in Nat
        BY <1>1, <1>2, <2>1, <3>2
      <4>2. x * (-y) \in Nat /\ x * (-y) <= H
        BY <4>1, Grows
      <4>3. x * (-y) = -p
        BY <1>2
      <4> HIDE DEF p, H
      <4> QED  BY <1>3, <4>2, <4>3
    <3>3. CASE x < 0 /\ y >= 0
      <4>1. -x \in Nat /\ y \in Nat /\ -x <= h /\ y <= h /\ h \in Nat
        BY <1>1, <1>2, <2>1, <3>3
      <4>2. (-x) * y \in Nat /\ (-x) * y <= H
        BY <4>1, Grows
      <4>3. (-x) * y = -p
        BY <1>2
      <4> HIDE DEF p, H
      <4> QED  BY <1>3, <4>2, <4>3
    <3>4. CASE x < 0 /\ y < 0
      <4>1. -x \in Nat /\ -y \in Nat /\ -x <= h /\ -y <= h /\ h \in Nat
        BY <1>1, <1>2, <2>1, <3>4
      <4>2. (-x) * (-y) \in Nat /\ (-x) * (-y) <= H
        BY <4>1, Grows
      <4>3. (-x) * (-y) = p
        BY <1>2
      <4> HIDE DEF p, H
      <4> QED  BY <1>3, <4>2, <4>3
    <3> QED  BY <1>2, <3>1, <3>2, <3>3, <3>4
  <2>3. Half(W) = 2 * H
    <3> HIDE DEF W, H
    <3>1. W = 2 * (2 * H) /\ 2 * H \in Int
      BY <1>3
    <3>2. (2 * (2 * H)) \div 2 = 2 * H
      BY <3>1
    <3> QED  BY <3>1, <3>2 DEF Half
  <2> HIDE DEF p, W, H
  <2>4. p % W = IF p >= 0 THEN p ELSE p + W
    <3>1. W \in Nat \ {0}
      BY <1>3
    <3>2. p >= 0 => p \in 0..(W - 1) /\ W * 0 + p = p
      BY <1>3, <2>2
    <3>3. p < 0 => p + W \in 0..(W - 1) /\ W * (-1) + (p + W) = p
      BY <1>3, <2>2
    <3>4. p < 0 => (W * (-1) + (p + W)) % W = p + W
      <4>1. -1 \in Int
        OBVIOUS
      <4> QED  BY <4>1, <3>1, <3>3, Unique, Zenon
    <3>5. p >= 0 => (W * 0 + p) % W = p
      BY <3>1, <3>2, Unique
    <3> QED  BY <1>3, <3>2, <3>3, <3>4, <3>5
  <2>5. Signed(p % W, W) = p
    BY <1>3, <2>2, <2>3, <2>4 DEF Signed, Sign
  <2> QED  BY <1>5, <2>5, Zenon DEF Dividend, p, W
<1> QED  BY <1>4, <1>5

\* Divided by one of its factors, it gives the other, unless that factor is zero or the other the least
\* negative one.
LEMMA ProductDivided ==
  ASSUME NEW m \in Nat \ {0}, m % 2 = 0, NEW signed \in BOOLEAN, NEW X \in 0..m - 1, NEW Y \in 0..m - 1,
         NEW x, x = Factor(signed, X, m), NEW y, y = Factor(signed, Y, m), NEW w, IsDivided(signed, m, x * y, y, w)
  PROVE  /\ w.trap <=> (y = 0 \/ (signed /\ x = -Half(m)))
         /\ ~w.trap => w.q = X /\ w.r = 0
<1>1. Half(m) \in Nat \ {0}
  BY Halved
<1>2. x \in (IF signed THEN -Half(m)..Half(m) - 1 ELSE 0..m - 1) /\ x \in Int /\ y \in Int /\ x % m = X
  BY Factors
<1>3. x \in QuotientsOf(signed, m) <=> ~(signed /\ x = -Half(m))
  BY <1>1, <1>2 DEF QuotientsOf
<1>4. QuotientsOf(signed, m) \subseteq Int
  BY <1>1 DEF QuotientsOf
<1>5. x * y \in Int /\ x * y - x * y = 0
  BY <1>2
<1>6. y # 0 => IsTruncated(x * y, y, x)
  <2>1. y # 0 => Magnitude(x * y - x * y) < Magnitude(y)
    BY <1>2, <1>5 DEF Magnitude
  <2>2. x * y - x * y <= 0 /\ x * y - x * y >= 0
    BY <1>5
  <2> QED  BY <2>1, <2>2, Zenon DEF IsTruncated
<1>7. CASE w.trap
  <2>1. \A q \in QuotientsOf(signed, m) : ~IsTruncated(x * y, y, q)
    BY <1>7, Zenon DEF IsDivided
  <2>2. y = 0 \/ x \notin QuotientsOf(signed, m)
    BY <1>6, <2>1, Zenon
  <2> QED  BY <1>3, <1>7, <2>2, Zenon
<1>8. CASE ~w.trap
  <2>1. PICK q \in QuotientsOf(signed, m) :
          IsTruncated(x * y, y, q) /\ w.q = q % m /\ w.r = (x * y - q * y) % m
    BY <1>8, Zenon DEF IsDivided
  <2>2. q \in Int
    BY <1>4
  <2>3. y # 0
    <3> SUFFICES ASSUME y = 0 PROVE FALSE
      OBVIOUS
    <3>1. ~IsTruncated(x * y, 0, q)
      BY <1>5, <2>2, NoneOfZero
    <3> QED  BY <2>1, <3>1, Zenon
  <2>4. q = x
    <3> DEFINE n == x * y
    <3>1. n \in Int /\ IsTruncated(n, y, q) /\ IsTruncated(n, y, x)
      BY <1>5, <1>6, <2>1, <2>3, Zenon
    <3> HIDE DEF n
    <3> QED  BY <1>2, <2>2, <3>1, OneTruncated
  <2>5. w.q = X /\ w.r = 0 % m
    <3>1. w.q = x % m /\ w.r = (x * y - x * y) % m
      BY <2>1, <2>4, Zenon
    <3> QED  BY <1>2, <1>5, <3>1, Zenon
  <2>6. 0 % m = 0
    OBVIOUS
  <2> QED  BY <1>3, <1>8, <2>3, <2>4, <2>5, <2>6, Zenon
<1>9. w.trap \in BOOLEAN
  BY Zenon DEF IsDivided
<1> QED  BY <1>7, <1>8, <1>9

\* The programs of products and quotients.
LEMMA ProductCode ==
  ASSUME NEW g
  PROVE  /\ Code("product", g) = <<One("mul", "y0"), One("div", "y0")>>
         /\ Code("signed_product", g) = <<One("imul", "y0"), One("idiv", "y0")>>
         /\ Code("quotient", g) = <<One("div", "y0")>>
         /\ Code("signed_quotient", g) = <<One("idiv", "y0")>>
<1>1. Code("product", g) = <<One("mul", "y0"), One("div", "y0")>>
  BY DEF Code
<1>2. Code("signed_product", g) = <<One("imul", "y0"), One("idiv", "y0")>>
  BY DEF Code
<1>3. Code("quotient", g) = <<One("div", "y0")>>
  BY DEF Code
<1>4. Code("signed_quotient", g) = <<One("idiv", "y0")>>
  BY DEF Code
<1> QED  BY <1>1, <1>2, <1>3, <1>4

\* A product, and what is left of it divided again.
ProductBack(s, signed) ==
  ~s.rep => LET x == Factor(signed, s.given.x0, s.m)
                y == Factor(signed, s.given.y0, s.m)
            IN /\ s.trap <=> (y = 0 \/ (signed /\ x = -Half(s.m)))
               /\ ~s.trap => s.r.x0 = s.given.x0 /\ s.r.x1 = 0

\* Both halves of a product between its two instructions.
HeldAt(s, signed) ==
  LET p == ProductOf(signed, s.m, s.given.x0, s.given.y0, s.rep)
  IN /\ s.r.x0 + s.m * s.r.x1 = p % (s.m * s.m)
     /\ s.f.c = IF signed THEN p \notin -Half(s.m)..Half(s.m) - 1 ELSE s.r.x1 # 0

\* A product that has come to the instruction s.at.
ProductAt(s, signed) ==
  /\ s.at \in 1..3 /\ s.r.y0 = s.given.y0
  /\ s.at = 1 => ~s.trap /\ s.r.x0 = s.given.x0
  /\ s.at = 2 /\ ~s.trap => HeldAt(s, signed)
  /\ s.trap \/ s.at = 3 => ProductBack(s, signed)

\* An instruction of a product leads to where the next one starts from, or traps as it has to.
LEMMA ProductNext ==
  ASSUME AluTypes(alu), NEW signed \in BOOLEAN, alu.task = (IF signed THEN "signed_product" ELSE "product"),
         ProductAt(alu, signed), AluNext
  PROVE  AluTypes(alu') /\ alu'.task = alu.task /\ ProductAt(alu', signed)
<1>1. Code(alu.task, alu.given)
        = <<One(IF signed THEN "imul" ELSE "mul", "y0"), One(IF signed THEN "idiv" ELSE "div", "y0")>>
  <2>1. CASE signed
    BY <2>1, ProductCode
  <2>2. CASE ~signed
    BY <2>2, ProductCode
  <2> QED  BY <2>1, <2>2
<1>2. alu.at \in 1..2 /\ ~alu.trap
  <2>1. Len(Code(alu.task, alu.given)) = 2
    BY <1>1
  <2>2. alu.at \in 1..3
    BY Zenon DEF ProductAt
  <2>3. alu.at \in 0..2
    BY <2>1, NotPast
  <2>4. ~alu.trap
    BY NextGoesOn, Zenon DEF Done
  <2> QED  BY <2>2, <2>3, <2>4
<1>3. /\ alu.at = 1 => Now(alu) = One(IF signed THEN "imul" ELSE "mul", "y0")
      /\ alu.at = 2 => Now(alu) = One(IF signed THEN "idiv" ELSE "div", "y0")
  <2>1. Now(alu) = Code(alu.task, alu.given)[alu.at]
    BY DEF Now
  <2> QED  BY <1>1, <1>2, <2>1
<1>4. /\ alu.m \in Nat \ {0} /\ alu.m % 2 = 0 /\ alu.given.x0 \in 0..alu.m - 1 /\ alu.given.y0 \in 0..alu.m - 1
      /\ alu.r.y0 = alu.given.y0
  BY WidthsSplit DEF AluTypes, Numbers, ProductAt
<1>5. CASE alu.at = 1
  <2>1. PICK w : /\ IsProduct(signed, alu.m, ProductOf(signed, alu.m, alu.r.x0, alu.r.y0, alu.rep), w)
                 /\ AluTypes(alu') /\ Carries(alu, alu') /\ alu'.r.y0 = alu.r.y0
                 /\ alu'.trap = alu.trap /\ alu'.at = alu.at + 1
                 /\ alu'.r.x0 = w.lo /\ alu'.r.x1 = w.hi /\ alu'.f.c = w.c
    BY <1>3, <1>5, MultipliesNext
  <2>2. alu.r.x0 = alu.given.x0
    BY <1>5, Zenon DEF ProductAt
  <2> DEFINE p == ProductOf(signed, alu.m, alu.given.x0, alu.given.y0, alu.rep)
  <2>3. /\ alu'.task = alu.task /\ alu'.given = alu.given /\ alu'.m = alu.m /\ alu'.rep = alu.rep
    BY <2>1, Zenon DEF Carries
  <2>4. p = ProductOf(signed, alu'.m, alu'.given.x0, alu'.given.y0, alu'.rep)
    BY <2>3, Zenon
  <2>5. /\ w.lo + alu.m * w.hi = p % (alu.m * alu.m)
        /\ w.c = IF signed THEN p \notin -Half(alu.m)..Half(alu.m) - 1 ELSE w.hi # 0
    BY <1>4, <2>1, <2>2, Zenon DEF IsProduct
  <2> HIDE DEF p
  <2>6. HeldAt(alu', signed)
    BY <2>1, <2>3, <2>4, <2>5, Zenon DEF HeldAt
  <2>7. alu'.at = 2 /\ ~alu'.trap /\ alu'.r.y0 = alu'.given.y0
    BY <1>2, <1>4, <1>5, <2>1, <2>3
  <2> QED  BY <2>1, <2>3, <2>6, <2>7 DEF ProductAt
<1>6. CASE alu.at = 2
  <2>1. PICK w : /\ IsDivided(signed, alu.m, Dividend(signed, XOf(alu.r), alu.m), Factor(signed, alu.r.y0, alu.m), w)
                 /\ AluTypes(alu') /\ Carries(alu, alu') /\ alu'.r.y0 = alu.r.y0
                 /\ w.trap => alu'.trap /\ alu'.at = alu.at
                 /\ ~w.trap => /\ alu'.trap = alu.trap /\ alu'.at = alu.at + 1
                               /\ alu'.r.x0 = w.q /\ alu'.r.x1 = w.r
    BY <1>3, <1>6, DividesNext
  <2>2. /\ alu'.task = alu.task /\ alu'.given = alu.given /\ alu'.m = alu.m /\ alu'.rep = alu.rep
    BY <2>1, Zenon DEF Carries
  <2> DEFINE x == Factor(signed, alu.given.x0, alu.m)
             y == Factor(signed, alu.given.y0, alu.m)
  <2>3. ASSUME ~alu.rep
        PROVE  /\ w.trap <=> (y = 0 \/ (signed /\ x = -Half(alu.m)))
               /\ ~w.trap => w.q = alu.given.x0 /\ w.r = 0
    <3>1. XOf(alu.r) = (x * y) % (alu.m * alu.m)
      <4>1. HeldAt(alu, signed)
        BY <1>2, <1>6, Zenon DEF ProductAt
      <4>2. ProductOf(signed, alu.m, alu.given.x0, alu.given.y0, alu.rep) = x * y
        BY <2>3, Zenon DEF ProductOf
      <4> QED  BY <4>1, <4>2, Zenon DEF HeldAt, XOf
    <3> DEFINE m == alu.m
               X == alu.given.x0
               Y == alu.given.y0
    <3>2. m \in Nat \ {0} /\ m % 2 = 0 /\ X \in 0..m - 1 /\ Y \in 0..m - 1
      BY <1>4
    <3>3. x = Factor(signed, X, m) /\ y = Factor(signed, Y, m)
      OBVIOUS
    <3>4. IsDivided(signed, m, Dividend(signed, (x * y) % (m * m), m), y, w)
      BY <1>4, <2>1, <3>1, Zenon
    <3> HIDE DEF x, y, m, X, Y
    <3>5. Dividend(signed, (x * y) % (m * m), m) = x * y
      BY <3>2, <3>3, ProductKept
    <3>6. IsDivided(signed, m, x * y, y, w)
      BY <3>4, <3>5, Zenon
    <3>7. (w.trap <=> (y = 0 \/ (signed /\ x = -Half(m)))) /\ (~w.trap => w.q = X /\ w.r = 0)
      BY <3>2, <3>3, <3>6, ProductDivided
    <3> QED  BY <3>7, Zenon DEF m, X, Y
  <2>4. (alu'.trap <=> w.trap) /\ (~w.trap => alu'.at = 3) /\ alu'.at \in 2..3
    BY <1>2, <1>6, <2>1
  <2>5. ProductBack(alu', signed)
    <3> SUFFICES ASSUME ~alu'.rep
                 PROVE  LET x1 == Factor(signed, alu'.given.x0, alu'.m)
                            y1 == Factor(signed, alu'.given.y0, alu'.m)
                        IN /\ alu'.trap <=> (y1 = 0 \/ (signed /\ x1 = -Half(alu'.m)))
                           /\ ~alu'.trap => alu'.r.x0 = alu'.given.x0 /\ alu'.r.x1 = 0
      BY Zenon DEF ProductBack
    <3>1. Factor(signed, alu'.given.x0, alu'.m) = x /\ Factor(signed, alu'.given.y0, alu'.m) = y
      BY <2>2, Zenon
    <3>2. ~alu.rep
      BY <2>2
    <3>3. /\ w.trap <=> (y = 0 \/ (signed /\ x = -Half(alu.m)))
          /\ ~w.trap => w.q = alu.given.x0 /\ w.r = 0
      BY <2>3, <3>2, Zenon
    <3> HIDE DEF x, y
    <3> QED  BY <2>1, <2>2, <2>4, <3>1, <3>3, Zenon
  <2>6. alu'.at \in 1..3 /\ alu'.at # 1 /\ (alu'.at = 2 => alu'.trap) /\ alu'.r.y0 = alu'.given.y0
    <3>1. alu'.at = 2 => w.trap
      BY <2>4
    <3> QED  BY <1>4, <2>1, <2>2, <2>4, <3>1
  <2> QED  BY <2>1, <2>2, <2>5, <2>6, Zenon DEF ProductAt
<1> QED  BY <1>2, <1>5, <1>6

\* A quotient.
QuotientAt(s, signed) ==
  LET n == Dividend(signed, s.given.x0 + s.m * s.given.x1, s.m)
      d == Factor(signed, s.given.y0, s.m)
  IN /\ s.at \in 1..2
     /\ s.at = 1 /\ ~s.trap => s.r.x0 = s.given.x0 /\ s.r.x1 = s.given.x1 /\ s.r.y0 = s.given.y0
     /\ s.trap => \A q \in QuotientsOf(signed, s.m) : ~IsTruncated(n, d, q)
     /\ s.at = 2 /\ ~s.trap =>
          \E q \in QuotientsOf(signed, s.m) :
            IsTruncated(n, d, q) /\ s.r.x0 = q % s.m /\ s.r.x1 = (n - q * d) % s.m

\* A division leaves the quotient it has to, or traps as it has to.
LEMMA QuotientNext ==
  ASSUME AluTypes(alu), NEW signed \in BOOLEAN, alu.task = (IF signed THEN "signed_quotient" ELSE "quotient"),
         QuotientAt(alu, signed), AluNext
  PROVE  AluTypes(alu') /\ alu'.task = alu.task /\ QuotientAt(alu', signed)
<1>1. Code(alu.task, alu.given) = <<One(IF signed THEN "idiv" ELSE "div", "y0")>>
  <2>1. CASE signed
    BY <2>1, ProductCode
  <2>2. CASE ~signed
    BY <2>2, ProductCode
  <2> QED  BY <2>1, <2>2
<1>2. alu.at = 1 /\ ~alu.trap
  <2>1. Len(Code(alu.task, alu.given)) = 1
    BY <1>1
  <2>2. alu.at \in 1..2
    BY Zenon DEF QuotientAt
  <2>3. alu.at \in 0..1
    BY <2>1, NotPast
  <2>4. ~alu.trap
    BY NextGoesOn, Zenon DEF Done
  <2> QED  BY <2>2, <2>3, <2>4
<1>3. Now(alu) = One(IF signed THEN "idiv" ELSE "div", "y0")
  <2>1. Now(alu) = Code(alu.task, alu.given)[alu.at]
    BY DEF Now
  <2> QED  BY <1>1, <1>2, <2>1
<1>4. alu.r.x0 = alu.given.x0 /\ alu.r.x1 = alu.given.x1 /\ alu.r.y0 = alu.given.y0
  BY <1>2, Zenon DEF QuotientAt
<1> DEFINE n == Dividend(signed, alu.given.x0 + alu.m * alu.given.x1, alu.m)
           d == Factor(signed, alu.given.y0, alu.m)
<1>5. PICK w : /\ IsDivided(signed, alu.m, n, d, w)
               /\ AluTypes(alu') /\ Carries(alu, alu')
               /\ w.trap => alu'.trap /\ alu'.at = alu.at
               /\ ~w.trap => /\ alu'.trap = alu.trap /\ alu'.at = alu.at + 1
                             /\ alu'.r.x0 = w.q /\ alu'.r.x1 = w.r
  <2>1. Dividend(signed, XOf(alu.r), alu.m) = n /\ Factor(signed, alu.r.y0, alu.m) = d
    BY <1>4, Zenon DEF XOf
  <2> HIDE DEF n, d
  <2> QED  BY <1>3, <2>1, DividesNext
<1>6. alu'.task = alu.task /\ alu'.given = alu.given /\ alu'.m = alu.m
  BY <1>5, Zenon DEF Carries
<1>7. n = Dividend(signed, alu'.given.x0 + alu'.m * alu'.given.x1, alu'.m) /\ d = Factor(signed, alu'.given.y0, alu'.m)
  BY <1>6, Zenon
<1> HIDE DEF n, d
<1>8. CASE w.trap
  <2>1. alu'.trap /\ alu'.at = 1
    BY <1>2, <1>5, <1>8, Zenon
  <2>2. \A q \in QuotientsOf(signed, alu'.m) : ~IsTruncated(n, d, q)
    BY <1>5, <1>6, <1>8, Zenon DEF IsDivided
  <2>3. alu'.at \in 1..2 /\ alu'.at # 2
    BY <2>1
  <2> QED  BY <1>5, <1>6, <1>7, <2>1, <2>2, <2>3, Zenon DEF QuotientAt
<1>9. CASE ~w.trap
  <2>1. ~alu'.trap /\ alu'.at = 2 /\ alu'.r.x0 = w.q /\ alu'.r.x1 = w.r
    BY <1>2, <1>5, <1>9
  <2>2. \E q \in QuotientsOf(signed, alu'.m) :
          IsTruncated(n, d, q) /\ alu'.r.x0 = q % alu'.m /\ alu'.r.x1 = (n - q * d) % alu'.m
    BY <1>5, <1>6, <1>9, <2>1, Zenon DEF IsDivided
  <2>3. alu'.at \in 1..2 /\ alu'.at # 1
    BY <2>1
  <2> QED  BY <1>5, <1>6, <1>7, <2>1, <2>2, <2>3, Zenon DEF QuotientAt
<1> QED  BY <1>8, <1>9

\* A product is exact, once formed.
LEMMA ProductDone ==
  ASSUME AluTypes(alu), NEW signed \in BOOLEAN, alu.task = (IF signed THEN "signed_product" ELSE "product"),
         ProductAt(alu, signed)
  PROVE  (alu.at = 1 /\ ~alu.trap) \/ ProductExact(alu.given, alu.r)
<1>1. (alu.task = "signed_product") = signed
  OBVIOUS
<1> DEFINE x == Factor(signed, alu.given.x0, alu.m)
           y == Factor(signed, alu.given.y0, alu.m)
           p == ProductOf(signed, alu.m, alu.given.x0, alu.given.y0, alu.rep)
<1>2. ProductExact(alu.given, alu.r)
        <=> IF alu.at = 2 /\ ~alu.trap
            THEN /\ XOf(alu.r) = p % Wide
                 /\ alu.f.c = IF signed THEN p \notin -Half(alu.m)..Half(alu.m) - 1 ELSE alu.r.x1 # 0
            ELSE /\ ~alu.rep => alu.trap = (y = 0 \/ (signed /\ x = -Half(alu.m)))
                 /\ ~alu.rep /\ ~alu.trap => alu.r.x0 = alu.given.x0 /\ alu.r.x1 = 0
  BY <1>1, Zenon DEF ProductExact, ProductOf, Factor
<1>3. CASE alu.at = 2 /\ ~alu.trap
  <2>1. HeldAt(alu, signed)
    BY <1>3, Zenon DEF ProductAt
  <2> QED  BY <1>2, <1>3, <2>1, Zenon DEF HeldAt, XOf, Wide
<1>4. CASE ~(alu.at = 2 /\ ~alu.trap) /\ ~(alu.at = 1 /\ ~alu.trap)
  <2>1. alu.trap \/ alu.at = 3
    <3>1. alu.at \in 1..3
      BY Zenon DEF ProductAt
    <3> QED  BY <1>4, <3>1
  <2>2. ProductBack(alu, signed)
    BY <2>1, Zenon DEF ProductAt
  <2>3. alu.trap \in BOOLEAN
    BY DEF AluTypes
  <2>4. ~alu.rep => /\ alu.trap <=> (y = 0 \/ (signed /\ x = -Half(alu.m)))
                    /\ ~alu.trap => alu.r.x0 = alu.given.x0 /\ alu.r.x1 = 0
    BY <2>2, Zenon DEF ProductBack
  <2>5. ~alu.rep => alu.trap = (y = 0 \/ (signed /\ x = -Half(alu.m)))
    <3> HIDE DEF x, y
    <3> QED  BY <2>3, <2>4
  <2> QED  BY <1>2, <1>4, <2>4, <2>5, Zenon
<1> QED  BY <1>3, <1>4, Zenon

\* A quotient that is done is exact.
LEMMA QuotientDone ==
  ASSUME AluTypes(alu), NEW signed \in BOOLEAN, alu.task = (IF signed THEN "signed_quotient" ELSE "quotient"),
         QuotientAt(alu, signed), Done
  PROVE  QuotientExact(alu.given, alu.r)
<1>1. (alu.task = "signed_quotient") = signed
  OBVIOUS
<1> DEFINE n == Dividend(signed, alu.given.x0 + alu.m * alu.given.x1, alu.m)
           d == Factor(signed, alu.given.y0, alu.m)
<1>2. QuotientExact(alu.given, alu.r)
        <=> IF alu.trap THEN \A q \in QuotientsOf(signed, alu.m) : ~IsTruncated(n, d, q)
            ELSE \E q \in QuotientsOf(signed, alu.m) :
                   IsTruncated(n, d, q) /\ alu.r.x0 = q % alu.m /\ alu.r.x1 = (n - q * d) % alu.m
  BY <1>1, Zenon DEF QuotientExact, QuotientsOf, IsTruncated, Dividend, Factor, XOf, Wide
<1>3. CASE alu.trap
  BY <1>2, <1>3, Zenon DEF QuotientAt
<1>4. CASE ~alu.trap
  <2>1. Code(alu.task, alu.given) = <<One(IF signed THEN "idiv" ELSE "div", "y0")>>
    <3>1. CASE signed
      BY <3>1, ProductCode, SMTT(30)
    <3>2. CASE ~signed
      BY <3>2, ProductCode, SMTT(30)
    <3> QED  BY <3>1, <3>2, SMTT(30)
  <2>2. Len(Code(alu.task, alu.given)) = 1
    BY <2>1, SMTT(30)
  <2>3. alu.at \in Nat /\ alu.at > 1
    BY <1>4, <2>2, RoutineDone, Zenon
  <2>4. alu.at = 2
    <3>1. alu.at \in 1..2
      BY ZenonT(60) DEF QuotientAt
    <3> QED  BY <2>3, <3>1
  <2> QED  BY <1>2, <1>4, <2>4, Zenon DEF QuotientAt
<1> QED  BY <1>3, <1>4

-----------------------------------------------------------------------------
(* Packed decimal numbers: DAA and DAS. *)

Packed == {d \in 0..255 : d % 16 < 10 /\ d \div 16 < 10}

\* A packed byte is two decimal digits.
LEMMA Nibbles ==
  ASSUME NEW d \in Packed
  PROVE  \E p, q \in 0..9 : d = 16 * p + q /\ Nibble(d) = q /\ Decimal(d) = 10 * p + q
<1>1. d \in Nat /\ d % 16 < 10 /\ d \div 16 < 10 /\ 16 \in Nat \ {0} /\ d \in Int
  BY DEF Packed
<1>2. d = 16 * (d \div 16) + (d % 16) /\ d % 16 \in 0..(16 - 1) /\ d \div 16 \in Nat
  <2>1. d = 16 * (d \div 16) + (d % 16) /\ d % 16 \in 0..(16 - 1)
    BY <1>1, Division
  <2>2. d \div 16 \in Nat
    BY <1>1, Quotient
  <2> QED  BY <2>1, <2>2
<1>3. d \div 16 \in 0..9 /\ d % 16 \in 0..9
  BY <1>1, <1>2
<1>4. Nibble(d) = d % 16 /\ Decimal(d) = 10 * (d \div 16) + (d % 16)
  BY Zenon DEF Nibble, Decimal
<1> QED  BY <1>2, <1>3, <1>4, Zenon

\* What the digits of a byte come to.
LEMMA OfNibbles ==
  ASSUME NEW p \in Int, NEW q \in 0..15
  PROVE  Nibble(16 * p + q) = q /\ Decimal(16 * p + q) = 10 * p + q
<1>1. 16 \in Nat \ {0} /\ q \in 0..(16 - 1)
  OBVIOUS
<1>2. (16 * p + q) % 16 = q /\ (16 * p + q) \div 16 = p
  BY <1>1, Unique
<1> QED  BY <1>2, Zenon DEF Nibble, Decimal

\* An addition or a subtraction, and the adjustment that follows it.
OneOf(add, m, x, y, c, w) == IF add THEN IsSum(m, x, y, c, w) ELSE IsDifference(m, x, y, c, w)
Adjust(add, al, f) == IF add THEN DecimalAdjustAdd(al, f) ELSE DecimalAdjustSubtract(al, f)

\* Of two decimal digits, a sum or a difference.
DecimalOf(add, x, y, c, v, carry) ==
  IF add THEN Decimal(v) + 100 * Bit(carry) = Decimal(x) + Decimal(y) + Bit(c)
  ELSE Decimal(v) - 100 * Bit(carry) = Decimal(x) - Decimal(y) - Bit(c)

\* Flags of which two are set.
LEMMA FlagsSet ==
  ASSUME NEW f \in Flags, NEW a \in BOOLEAN, NEW c \in BOOLEAN, NEW g, g = [f EXCEPT !.a = a, !.c = c]
  PROVE  g \in Flags /\ (g.c <=> c)
BY DEF Flags

\* A byte is what is left of a number modulo 256.
LEMMA ByteOf ==
  ASSUME NEW a \in Int, NEW r \in 0..255
  PROVE  (256 * a + r) % 256 = r
OBVIOUS

\* DAA after an addition of packed bytes leaves the decimal sum and its carry.
LEMMA AdjustsSum ==
  ASSUME NEW x \in Packed, NEW y \in Packed, NEW c \in BOOLEAN, NEW w, IsSum(256, x, y, c, w),
         NEW z, z = DecimalAdjustAdd(w.v, w.f)
  PROVE  /\ z.v \in 0..255 /\ z.f \in Flags
         /\ Decimal(z.v) + 100 * Bit(z.f.c) = Decimal(x) + Decimal(y) + Bit(c)
<1>1. PICK a1 \in 0..9, a0 \in 0..9 : x = 16 * a1 + a0 /\ Nibble(x) = a0 /\ Decimal(x) = 10 * a1 + a0
  BY Nibbles
<1>2. PICK b1 \in 0..9, b0 \in 0..9 : y = 16 * b1 + b0 /\ Nibble(y) = b0 /\ Decimal(y) = 10 * b1 + b0
  BY Nibbles
<1>3. /\ w.v \in 0..255 /\ w.f \in Flags /\ w.v + 256 * Bit(w.f.c) = x + y + Bit(c)
      /\ (w.f.a <=> Nibble(x) + Nibble(y) + Bit(c) > 15)
  <2>1. /\ w.v \in 0..256 - 1 /\ w.f \in Flags /\ w.v + 256 * Bit(w.f.c) = x + y + Bit(c)
        /\ (w.f.a <=> Nibble(x) + Nibble(y) + Bit(c) > 15)
    BY Zenon DEF IsSum
  <2> QED  BY <2>1
<1> DEFINE e == Bit(c)
           s0 == a0 + b0 + e
           s1 == a1 + b1
           l == Bit(s0 > 9)
           t1 == s1 + l
           h == Bit(t1 > 9)
           k == Bit(w.f.c)
           low == Nibble(w.v) > 9 \/ w.f.a
           upper == w.v > (IF w.f.a THEN 159 ELSE 153) \/ w.f.c
<1>4. e \in 0..1 /\ s0 \in 0..19 /\ s1 \in 0..18 /\ k \in 0..1 /\ l \in 0..1 /\ h \in 0..1
  BY DEF Bit
<1>5. w.v + 256 * k = 16 * s1 + s0 /\ (w.f.a <=> s0 > 15) /\ (k = 1 <=> w.f.c)
  BY <1>1, <1>2, <1>3, <1>4 DEF Bit
<1>6. Nibble(w.v) = IF s0 > 15 THEN s0 - 16 ELSE s0
  <2> HIDE DEF s0, s1, k
  <2>1. CASE s0 > 15
    <3>1. w.v = 16 * (s1 + 1 - 16 * k) + (s0 - 16) /\ s0 - 16 \in 0..15 /\ s1 + 1 - 16 * k \in Int
      BY <1>3, <1>4, <1>5, <2>1
    <3>2. Nibble(16 * (s1 + 1 - 16 * k) + (s0 - 16)) = s0 - 16
      BY <3>1, OfNibbles
    <3> QED  BY <2>1, <3>1, <3>2, Zenon
  <2>2. CASE ~(s0 > 15)
    <3>1. w.v = 16 * (s1 - 16 * k) + s0 /\ s0 \in 0..15 /\ s1 - 16 * k \in Int
      BY <1>3, <1>4, <1>5, <2>2
    <3>2. Nibble(16 * (s1 - 16 * k) + s0) = s0
      BY <3>1, OfNibbles
    <3> QED  BY <2>2, <3>1, <3>2, Zenon
  <2> QED  BY <2>1, <2>2
<1>7. low <=> s0 > 9
  BY <1>4, <1>5, <1>6
<1>8. upper <=> t1 > 9
  <2>1. l = IF s0 > 9 THEN 1 ELSE 0
    BY DEF Bit
  <2> HIDE DEF s0, s1, k, l
  <2> QED  BY <1>3, <1>4, <1>5, <2>1, SMTT(30)
<1>9. z.v = (w.v + 6 * Bit(low) + 96 * Bit(upper)) % 256 /\ z.f = [w.f EXCEPT !.a = low, !.c = upper]
  BY Zenon DEF DecimalAdjustAdd
<1>10. low \in BOOLEAN /\ upper \in BOOLEAN
  BY <1>3 DEF Flags
<1>11. Bit(low) = l /\ Bit(upper) = h
  BY <1>7, <1>8 DEF Bit
<1>12. z.f \in Flags /\ (z.f.c <=> t1 > 9)
  <2>1. (z.f.c <=> upper) /\ z.f \in Flags
    <3> HIDE DEF low, upper
    <3> QED  BY <1>3, <1>9, <1>10, FlagsSet, ZenonT(60)
  <2> QED  BY <1>8, <2>1, Zenon
<1> HIDE DEF low, upper
<1>13. l = (IF s0 > 9 THEN 1 ELSE 0) /\ h = (IF t1 > 9 THEN 1 ELSE 0)
  BY DEF Bit
<1> DEFINE q1 == t1 - 10 * h
           q0 == s0 - 10 * l
<1>14. z.v = 16 * q1 + q0 /\ q1 \in 0..9 /\ q0 \in 0..9
  <2>1. z.v = (w.v + 6 * l + 96 * h) % 256
    BY <1>9, <1>11, Zenon
  <2> HIDE DEF s0, s1, k, l, h
  <2>2. q1 \in 0..9 /\ q0 \in 0..9
    BY <1>4, <1>13
  <2>3. w.v + 6 * l + 96 * h = 256 * (h - k) + (16 * q1 + q0)
    BY <1>3, <1>4, <1>5, SMTT(30)
  <2>4. 16 * q1 + q0 \in 0..255 /\ h - k \in Int
    BY <2>2, <1>4
  <2>5. (256 * (h - k) + (16 * q1 + q0)) % 256 = 16 * q1 + q0
    BY <2>4, ByteOf, ZenonT(60)
  <2> QED  BY <2>1, <2>2, <2>3, <2>5
<1>15. Decimal(z.v) = 10 * q1 + q0
  <2> HIDE DEF q1, q0
  <2>1. q1 \in Int /\ q0 \in 0..15
    BY <1>14
  <2> QED  BY <1>14, <2>1, OfNibbles
<1>16. Bit(z.f.c) = h
  BY <1>12 DEF Bit
<1>17. Decimal(z.v) + 100 * Bit(z.f.c) = Decimal(x) + Decimal(y) + Bit(c)
  <2>1. Decimal(x) + Decimal(y) + Bit(c) = 10 * s1 + s0
    BY <1>1, <1>2, <1>4
  <2> HIDE DEF s0, s1, l, h
  <2> QED  BY <1>4, <1>15, <1>16, <2>1
<1>18. z.v \in 0..255
  <2> HIDE DEF q1, q0
  <2> QED  BY <1>14
<1> QED  BY <1>12, <1>17, <1>18

\* DAS after a subtraction of packed bytes leaves the decimal difference and its borrow.
LEMMA AdjustsDifference ==
  ASSUME NEW x \in Packed, NEW y \in Packed, NEW c \in BOOLEAN, NEW w, IsDifference(256, x, y, c, w),
         NEW z, z = DecimalAdjustSubtract(w.v, w.f)
  PROVE  /\ z.v \in 0..255 /\ z.f \in Flags
         /\ Decimal(z.v) - 100 * Bit(z.f.c) = Decimal(x) - Decimal(y) - Bit(c)
<1>1. PICK a1 \in 0..9, a0 \in 0..9 : x = 16 * a1 + a0 /\ Nibble(x) = a0 /\ Decimal(x) = 10 * a1 + a0
  BY Nibbles, SMTT(30)
<1>2. PICK b1 \in 0..9, b0 \in 0..9 : y = 16 * b1 + b0 /\ Nibble(y) = b0 /\ Decimal(y) = 10 * b1 + b0
  BY Nibbles, SMTT(30)
<1>3. /\ w.v \in 0..255 /\ w.f \in Flags /\ w.v - 256 * Bit(w.f.c) = x - y - Bit(c)
      /\ (w.f.a <=> Nibble(x) - Nibble(y) - Bit(c) < 0)
  <2>1. /\ w.v \in 0..256 - 1 /\ w.f \in Flags /\ w.v - 256 * Bit(w.f.c) = x - y - Bit(c)
        /\ (w.f.a <=> Nibble(x) - Nibble(y) - Bit(c) < 0)
    BY Zenon DEF IsDifference
  <2> QED  BY <2>1
<1> DEFINE e == Bit(c)
           d0 == a0 - b0 - e
           d1 == a1 - b1
           l == Bit(d0 < 0)
           t1 == d1 - l
           h == Bit(t1 < 0)
           k == Bit(w.f.c)
           low == Nibble(w.v) > 9 \/ w.f.a
           upper == w.v > (IF w.f.a THEN 159 ELSE 153) \/ w.f.c
<1>4. e \in 0..1 /\ d0 \in -10..9 /\ d1 \in -9..9 /\ k \in 0..1 /\ l \in 0..1 /\ h \in 0..1
  BY DEF Bit
<1>5. w.v - 256 * k = 16 * d1 + d0 /\ (w.f.a <=> d0 < 0) /\ (k = 1 <=> w.f.c)
  BY <1>1, <1>2, <1>3, <1>4 DEF Bit
<1>6. Nibble(w.v) = IF d0 < 0 THEN d0 + 16 ELSE d0
  <2> HIDE DEF d0, d1, k
  <2>1. CASE d0 < 0
    <3>1. w.v = 16 * (d1 - 1 + 16 * k) + (d0 + 16) /\ d0 + 16 \in 0..15 /\ d1 - 1 + 16 * k \in Int
      BY <1>3, <1>4, <1>5, <2>1
    <3>2. Nibble(16 * (d1 - 1 + 16 * k) + (d0 + 16)) = d0 + 16
      BY <3>1, OfNibbles
    <3> QED  BY <2>1, <3>1, <3>2, Zenon
  <2>2. CASE ~(d0 < 0)
    <3>1. w.v = 16 * (d1 + 16 * k) + d0 /\ d0 \in 0..15 /\ d1 + 16 * k \in Int
      BY <1>3, <1>4, <1>5, <2>2
    <3>2. Nibble(16 * (d1 + 16 * k) + d0) = d0
      BY <3>1, OfNibbles
    <3> QED  BY <2>2, <3>1, <3>2, Zenon
  <2> QED  BY <2>1, <2>2
<1>7. low <=> d0 < 0
  BY <1>4, <1>5, <1>6
<1>8. upper <=> t1 < 0
  <2>1. l = IF d0 < 0 THEN 1 ELSE 0
    BY DEF Bit
  <2> HIDE DEF d0, d1, k, l
  <2> QED  BY <1>3, <1>4, <1>5, <2>1
<1>9. z.v = (w.v - 6 * Bit(low) - 96 * Bit(upper)) % 256 /\ z.f = [w.f EXCEPT !.a = low, !.c = upper]
  BY Zenon DEF DecimalAdjustSubtract
<1>10. low \in BOOLEAN /\ upper \in BOOLEAN
  BY <1>3 DEF Flags
<1>11. Bit(low) = l /\ Bit(upper) = h
  BY <1>7, <1>8 DEF Bit
<1>12. z.f \in Flags /\ (z.f.c <=> t1 < 0)
  <2>1. (z.f.c <=> upper) /\ z.f \in Flags
    <3> HIDE DEF low, upper
    <3> QED  BY <1>3, <1>9, <1>10, FlagsSet, Zenon
  <2> QED  BY <1>8, <2>1, Zenon
<1> HIDE DEF low, upper
<1>13. l = (IF d0 < 0 THEN 1 ELSE 0) /\ h = (IF t1 < 0 THEN 1 ELSE 0)
  BY DEF Bit
<1> DEFINE q1 == t1 + 10 * h
           q0 == d0 + 10 * l
<1>14. z.v = 16 * q1 + q0 /\ q1 \in 0..9 /\ q0 \in 0..9
  <2>1. z.v = (w.v - 6 * l - 96 * h) % 256
    BY <1>9, <1>11, Zenon
  <2> HIDE DEF d0, d1, k, l, h
  <2>2. q1 \in 0..9 /\ q0 \in 0..9
    BY <1>4, <1>13
  <2>3. w.v - 6 * l - 96 * h = 256 * (k - h) + (16 * q1 + q0)
    BY <1>3, <1>4, <1>5, SMTT(30)
  <2>4. 16 * q1 + q0 \in 0..255 /\ k - h \in Int
    BY <2>2, <1>4
  <2>5. (256 * (k - h) + (16 * q1 + q0)) % 256 = 16 * q1 + q0
    BY <2>4, ByteOf, ZenonT(60)
  <2> QED  BY <2>1, <2>2, <2>3, <2>5
<1>15. Decimal(z.v) = 10 * q1 + q0
  <2> HIDE DEF q1, q0
  <2>1. q1 \in Int /\ q0 \in 0..15
    BY <1>14, SMTT(30)
  <2> QED  BY <1>14, <2>1, OfNibbles, SMTT(30)
<1>16. Bit(z.f.c) = h
  BY <1>12 DEF Bit
<1>17. Decimal(z.v) - 100 * Bit(z.f.c) = Decimal(x) - Decimal(y) - Bit(c)
  <2>1. Decimal(x) - Decimal(y) - Bit(c) = 10 * d1 + d0
    BY <1>1, <1>2, <1>4
  <2> HIDE DEF d0, d1, l, h
  <2> QED  BY <1>4, <1>15, <1>16, <2>1
<1>18. z.v \in 0..255
  <2> HIDE DEF q1, q0
  <2> QED  BY <1>14, SMTT(30)
<1> QED  BY <1>12, <1>17, <1>18

\* z is the decimal sum or difference, with its carry.
IsDecimal(add, x, y, c, z) ==
  /\ z.v \in 0..255 /\ z.f \in Flags /\ DecimalOf(add, x, y, c, z.v, z.f.c)

\* Either adjustment leaves what is decimal.
LEMMA Adjusts ==
  ASSUME NEW add \in BOOLEAN, NEW x \in Packed, NEW y \in Packed, NEW c \in BOOLEAN, NEW w, OneOf(add, 256, x, y, c, w)
  PROVE  IsDecimal(add, x, y, c, Adjust(add, w.v, w.f))
<1>1. CASE add
  <2>1. IsSum(256, x, y, c, w) /\ Adjust(add, w.v, w.f) = DecimalAdjustAdd(w.v, w.f)
    BY <1>1, Zenon DEF OneOf, Adjust
  <2>2. PICK z : z = Adjust(add, w.v, w.f)
    OBVIOUS
  <2>3. /\ z.v \in 0..255 /\ z.f \in Flags
        /\ Decimal(z.v) + 100 * Bit(z.f.c) = Decimal(x) + Decimal(y) + Bit(c)
    BY <2>1, <2>2, AdjustsSum
  <2>4. DecimalOf(add, x, y, c, z.v, z.f.c)
    BY <1>1, <2>3, Zenon DEF DecimalOf
  <2> QED  BY <2>2, <2>3, <2>4, Zenon DEF IsDecimal
<1>2. CASE ~add
  <2>1. IsDifference(256, x, y, c, w) /\ Adjust(add, w.v, w.f) = DecimalAdjustSubtract(w.v, w.f)
    BY <1>2, Zenon DEF OneOf, Adjust
  <2>2. PICK z : z = Adjust(add, w.v, w.f)
    BY SMTT(30)
  <2>3. /\ z.v \in 0..255 /\ z.f \in Flags
        /\ Decimal(z.v) - 100 * Bit(z.f.c) = Decimal(x) - Decimal(y) - Bit(c)
    BY <2>1, <2>2, AdjustsDifference
  <2>4. DecimalOf(add, x, y, c, z.v, z.f.c)
    BY <1>2, <2>3, Zenon DEF DecimalOf
  <2> QED  BY <2>2, <2>3, <2>4, Zenon DEF IsDecimal
<1> QED  BY <1>1, <1>2

\* The programs of decimal numbers.
LEMMA DecimalCode ==
  ASSUME NEW g
  PROVE  /\ Code("decimal_sum", g)
              = <<Two("add", "x0", "y0"), One("daa", "x0"), Two("adc", "x1", "y1"), One("daa", "x1")>>
         /\ Code("decimal_difference", g)
              = <<Two("sub", "x0", "y0"), One("das", "x0"), Two("sbb", "x1", "y1"), One("das", "x1")>>
         /\ Code("ascii_sum", g) = <<Two("add", "x0", "y0"), One("aaa", "x0")>>
         /\ Code("ascii_difference", g) = <<Two("sub", "x0", "y0"), One("aas", "x0")>>
         /\ Code("ascii_product", g) = <<One("mul", "y0"), One("aam", "x0"), One("aad", "x0")>>
<1>1. Code("decimal_sum", g)
        = <<Two("add", "x0", "y0"), One("daa", "x0"), Two("adc", "x1", "y1"), One("daa", "x1")>>
  BY DEF Code
<1>2. Code("decimal_difference", g)
        = <<Two("sub", "x0", "y0"), One("das", "x0"), Two("sbb", "x1", "y1"), One("das", "x1")>>
  BY DEF Code
<1>3. Code("ascii_sum", g) = <<Two("add", "x0", "y0"), One("aaa", "x0")>>
  BY DEF Code
<1>4. Code("ascii_difference", g) = <<Two("sub", "x0", "y0"), One("aas", "x0")>>
  BY DEF Code
<1>5. Code("ascii_product", g) = <<One("mul", "y0"), One("aam", "x0"), One("aad", "x0")>>
  BY DEF Code
<1> QED  BY <1>1, <1>2, <1>3, <1>4, <1>5

\* Additions and subtractions in one, with a carry from the instruction before or none.
LEMMA OneMovesBy ==
  ASSUME AluTypes(alu), AluNext, NEW add \in BOOLEAN, NEW carried \in BOOLEAN,
         NEW dst \in {"x0", "x1"}, NEW src \in {"y0", "y1"},
         Now(alu) = Two(IF carried THEN (IF add THEN "adc" ELSE "sbb") ELSE (IF add THEN "add" ELSE "sub"), dst, src)
  PROVE  \E w : \E c \in BOOLEAN :
           /\ Moves(alu, alu', dst, w) /\ OneOf(add, alu.m, alu.r[dst], alu.r[src], c, w)
           /\ w.v \in 0..alu.m - 1 /\ w.f \in Flags
           /\ c <=> carried /\ alu.f.c
<1>1. CASE add
  <2>1. PICK op \in {"add", "adc"} : (op = "adc" <=> carried) /\ Now(alu) = Two(op, dst, src)
    BY <1>1
  <2>2. PICK w : \E c \in BOOLEAN :
          /\ Moves(alu, alu', dst, w) /\ IsSum(alu.m, alu.r[dst], alu.r[src], c, w)
          /\ c <=> op = "adc" /\ alu.f.c
    BY <2>1, AddMoves
  <2>3. PICK c \in BOOLEAN :
          /\ Moves(alu, alu', dst, w) /\ IsSum(alu.m, alu.r[dst], alu.r[src], c, w)
          /\ c <=> op = "adc" /\ alu.f.c
    BY <2>2
  <2>4. w.v \in 0..alu.m - 1 /\ w.f \in Flags
    BY <2>3, Zenon DEF IsSum
  <2> QED  BY <1>1, <2>1, <2>3, <2>4, Zenon DEF OneOf
<1>2. CASE ~add
  <2>1. PICK op \in {"sub", "sbb"} : (op = "sbb" <=> carried) /\ Now(alu) = Two(op, dst, src)
    BY <1>2
  <2>2. PICK w : \E c \in BOOLEAN :
          /\ Moves(alu, alu', dst, w) /\ IsDifference(alu.m, alu.r[dst], alu.r[src], c, w)
          /\ c <=> op = "sbb" /\ alu.f.c
    BY <2>1, SubtractMoves
  <2>3. PICK c \in BOOLEAN :
          /\ Moves(alu, alu', dst, w) /\ IsDifference(alu.m, alu.r[dst], alu.r[src], c, w)
          /\ c <=> op = "sbb" /\ alu.f.c
    BY <2>2
  <2>4. w.v \in 0..alu.m - 1 /\ w.f \in Flags
    BY <2>3, Zenon DEF IsDifference
  <2> QED  BY <1>2, <2>1, <2>3, <2>4, Zenon DEF OneOf
<1> QED  BY <1>1, <1>2

\* DAA and DAS adjust the operand they are given by the flags the instruction before left.
LEMMA AdjustMoves ==
  ASSUME AluTypes(alu), AluNext, NEW add \in BOOLEAN, NEW dst \in {"x0", "x1"},
         Now(alu) = One(IF add THEN "daa" ELSE "das", dst)
  PROVE  Moves(alu, alu', dst, Adjust(add, alu.r[dst], alu.f))
<1>1. dst \in Names
  BY DEF Names
<1>2. CASE add
  <2>1. Now(alu) = One("daa", dst)
    BY <1>2
  <2>2. Moves(alu, alu', dst, Result(alu, One("daa", dst), alu.r[dst], 1))
    BY <1>1, <2>1, OneMoves
  <2>3. Result(alu, One("daa", dst), alu.r[dst], 1) = DecimalAdjustAdd(alu.r[dst], alu.f)
    BY DEF Result, One
  <2>4. Adjust(add, alu.r[dst], alu.f) = DecimalAdjustAdd(alu.r[dst], alu.f)
    BY <1>2, Zenon DEF Adjust
  <2> QED  BY <2>2, <2>3, <2>4, Zenon
<1>3. CASE ~add
  <2>1. Now(alu) = One("das", dst)
    BY <1>3
  <2>2. Moves(alu, alu', dst, Result(alu, One("das", dst), alu.r[dst], 1))
    BY <1>1, <2>1, OneMoves
  <2>3. Result(alu, One("das", dst), alu.r[dst], 1) = DecimalAdjustSubtract(alu.r[dst], alu.f)
    BY DEF Result, One
  <2>4. Adjust(add, alu.r[dst], alu.f) = DecimalAdjustSubtract(alu.r[dst], alu.f)
    BY <1>3, Zenon DEF Adjust
  <2> QED  BY <2>2, <2>3, <2>4, Zenon
<1> QED  BY <1>2, <1>3

\* Decimal numbers are bytes, and no prefix is before their instructions.
ByteWide(s) == s.m = 256 /\ ~s.rep

\* v and the flags are what an addition or a subtraction has left.
Adding(s, add, x, y, c, v) == \E w : w.v = v /\ w.f = s.f /\ OneOf(add, 256, x, y, c, w)

\* Decimal numbers of two operands, of which the first s.at - 1 instructions are done.
DecimalAt(s, add) ==
  /\ ByteWide(s) /\ s.at \in 1..5
  /\ s.given.x0 \in Packed /\ s.given.x1 \in Packed /\ s.given.y0 \in Packed /\ s.given.y1 \in Packed
  /\ s.r.y0 = s.given.y0 /\ s.r.y1 = s.given.y1
  /\ s.at <= 3 => s.r.x1 = s.given.x1
  /\ s.at = 1 => s.r.x0 = s.given.x0
  /\ s.at = 2 => \E no \in BOOLEAN : ~no /\ Adding(s, add, s.given.x0, s.given.y0, no, s.r.x0)
  /\ s.at = 3 => \E no \in BOOLEAN : ~no /\ DecimalOf(add, s.given.x0, s.given.y0, no, s.r.x0, s.f.c)
  /\ s.at = 4 => \E no, c \in BOOLEAN :
                   /\ ~no /\ DecimalOf(add, s.given.x0, s.given.y0, no, s.r.x0, c)
                   /\ Adding(s, add, s.given.x1, s.given.y1, c, s.r.x1)
  /\ s.at = 5 => \E no, c \in BOOLEAN :
                   /\ ~no /\ DecimalOf(add, s.given.x0, s.given.y0, no, s.r.x0, c)
                   /\ DecimalOf(add, s.given.x1, s.given.y1, c, s.r.x1, s.f.c)

\* An instruction on decimal numbers leads to where the next one starts from.
LEMMA DecimalNext ==
  ASSUME AluTypes(alu), NEW add \in BOOLEAN, alu.task = (IF add THEN "decimal_sum" ELSE "decimal_difference"),
         DecimalAt(alu, add), AluNext
  PROVE  AluTypes(alu') /\ alu'.task = alu.task /\ DecimalAt(alu', add)
<1> DEFINE first == IF add THEN "add" ELSE "sub"
           then == IF add THEN "adc" ELSE "sbb"
           da == IF add THEN "daa" ELSE "das"
<1>1. Code(alu.task, alu.given)
        = <<Two(first, "x0", "y0"), One(da, "x0"), Two(then, "x1", "y1"), One(da, "x1")>>
  <2>1. CASE add
    BY <2>1, DecimalCode
  <2>2. CASE ~add
    BY <2>2, DecimalCode
  <2> QED  BY <2>1, <2>2
<1>2. alu.at \in 1..4
  <2>1. Len(Code(alu.task, alu.given)) = 4
    BY <1>1
  <2>2. alu.at \in 1..5
    BY Zenon DEF DecimalAt
  <2>3. alu.at \in 0..4
    BY <2>1, NotPast
  <2> QED  BY <2>2, <2>3
<1>3. /\ alu.at = 1 => Now(alu) = Two(first, "x0", "y0")
      /\ alu.at = 2 => Now(alu) = One(da, "x0")
      /\ alu.at = 3 => Now(alu) = Two(then, "x1", "y1")
      /\ alu.at = 4 => Now(alu) = One(da, "x1")
  <2>1. Now(alu) = Code(alu.task, alu.given)[alu.at]
    BY DEF Now
  <2> HIDE DEF first, then, da
  <2> QED  BY <1>1, <1>2, <2>1
<1>4. /\ alu.given.x0 \in Packed /\ alu.given.x1 \in Packed /\ alu.given.y0 \in Packed /\ alu.given.y1 \in Packed
      /\ alu.r.y0 = alu.given.y0 /\ alu.r.y1 = alu.given.y1 /\ alu.m = 256 /\ ~alu.rep
      /\ alu.f.c \in BOOLEAN
  <2>1. alu.f \in Flags
    BY DEF AluTypes
  <2> QED  BY <2>1, Zenon DEF DecimalAt, ByteWide, Flags
<1>5. PICK no \in BOOLEAN, yes \in BOOLEAN : ~no /\ yes
  OBVIOUS
<1>6. CASE alu.at = 1
  <2>1. Now(alu) = Two(IF no THEN (IF add THEN "adc" ELSE "sbb") ELSE (IF add THEN "add" ELSE "sub"), "x0", "y0")
    BY <1>3, <1>5, <1>6
  <2>2. PICK w : \E c \in BOOLEAN :
           /\ Moves(alu, alu', "x0", w) /\ OneOf(add, alu.m, alu.r["x0"], alu.r["y0"], c, w)
           /\ w.v \in 0..alu.m - 1 /\ w.f \in Flags
           /\ c <=> no /\ alu.f.c
    BY <2>1, OneMovesBy
  <2>3. PICK c \in BOOLEAN : OneOf(add, alu.m, alu.r["x0"], alu.r["y0"], c, w) /\ ~c
    BY <1>5, <2>2
  <2>4. /\ AluTypes(alu') /\ alu'.task = alu.task /\ alu'.given = alu.given /\ alu'.rep = alu.rep
        /\ alu'.m = alu.m /\ alu'.at = alu.at + 1
        /\ alu'.f = w.f /\ alu'.r.x0 = w.v /\ alu'.r.x1 = alu.r.x1 /\ alu'.r.y0 = alu.r.y0 /\ alu'.r.y1 = alu.r.y1
    BY <2>2, MovesTypes DEF Names
  <2>5. alu.r["x0"] = alu.given.x0 /\ alu.r["y0"] = alu.given.y0 /\ alu.r.x1 = alu.given.x1
    BY <1>4, <1>6 DEF DecimalAt
  <2>6. Adding(alu', add, alu'.given.x0, alu'.given.y0, c, alu'.r.x0)
    BY <1>4, <2>3, <2>4, <2>5, Zenon DEF Adding
  <2>7. alu'.at = 2
    BY <1>6, <2>4
  <2>8. \E none \in BOOLEAN : ~none /\ Adding(alu', add, alu'.given.x0, alu'.given.y0, none, alu'.r.x0)
    BY <2>3, <2>6
  <2>9. ByteWide(alu')
    BY <1>4, <2>4, Zenon DEF ByteWide
  <2> QED  BY <1>4, <2>4, <2>5, <2>7, <2>8, <2>9 DEF DecimalAt
<1>7. CASE alu.at = 2
  <2>1. Moves(alu, alu', "x0", Adjust(add, alu.r["x0"], alu.f))
    BY <1>3, <1>7, AdjustMoves
  <2>2. PICK c \in BOOLEAN : ~c /\ Adding(alu, add, alu.given.x0, alu.given.y0, c, alu.r.x0)
    BY <1>7 DEF DecimalAt
  <2>3. PICK w : w.v = alu.r.x0 /\ w.f = alu.f /\ OneOf(add, 256, alu.given.x0, alu.given.y0, c, w)
    BY <2>2, Zenon DEF Adding
  <2>4. PICK z : z = Adjust(add, w.v, w.f)
    OBVIOUS
  <2>5. z.v \in 0..255 /\ z.f \in Flags /\ DecimalOf(add, alu.given.x0, alu.given.y0, c, z.v, z.f.c)
    <3>1. IsDecimal(add, alu.given.x0, alu.given.y0, c, z)
      BY <1>4, <2>3, <2>4, Adjusts
    <3> QED  BY <3>1, Zenon DEF IsDecimal
  <2>6. Moves(alu, alu', "x0", z)
    BY <2>1, <2>3, <2>4
  <2>7. z.v \in 0..alu.m - 1
    BY <1>4, <2>5
  <2>8. /\ AluTypes(alu') /\ alu'.task = alu.task /\ alu'.given = alu.given /\ alu'.rep = alu.rep
        /\ alu'.m = alu.m /\ alu'.at = alu.at + 1
        /\ alu'.f = z.f /\ alu'.r.x0 = z.v /\ alu'.r.x1 = alu.r.x1 /\ alu'.r.y0 = alu.r.y0 /\ alu'.r.y1 = alu.r.y1
    BY <2>5, <2>6, <2>7, MovesTypes DEF Names
  <2>9. \E none \in BOOLEAN : ~none /\ DecimalOf(add, alu'.given.x0, alu'.given.y0, none, alu'.r.x0, alu'.f.c)
    BY <2>2, <2>5, <2>8, Zenon
  <2>10. alu'.at = 3 /\ alu.r.x1 = alu.given.x1
    BY <1>7, <2>8 DEF DecimalAt
  <2>11. ByteWide(alu')
    BY <1>4, <2>8, ZenonT(60) DEF ByteWide
  <2> QED  BY <1>4, <2>8, <2>9, <2>10, <2>11 DEF DecimalAt
<1>8. CASE alu.at = 3
  <2>1. Now(alu) = Two(IF yes THEN (IF add THEN "adc" ELSE "sbb") ELSE (IF add THEN "add" ELSE "sub"), "x1", "y1")
    BY <1>3, <1>5, <1>8
  <2>2. PICK w : \E c \in BOOLEAN :
           /\ Moves(alu, alu', "x1", w) /\ OneOf(add, alu.m, alu.r["x1"], alu.r["y1"], c, w)
           /\ w.v \in 0..alu.m - 1 /\ w.f \in Flags
           /\ c <=> yes /\ alu.f.c
    BY <2>1, OneMovesBy
  <2>3. PICK c \in BOOLEAN : OneOf(add, alu.m, alu.r["x1"], alu.r["y1"], c, w) /\ c = alu.f.c
    BY <1>4, <1>5, <2>2
  <2>4. /\ AluTypes(alu') /\ alu'.task = alu.task /\ alu'.given = alu.given /\ alu'.rep = alu.rep
        /\ alu'.m = alu.m /\ alu'.at = alu.at + 1
        /\ alu'.f = w.f /\ alu'.r.x0 = alu.r.x0 /\ alu'.r.x1 = w.v /\ alu'.r.y0 = alu.r.y0 /\ alu'.r.y1 = alu.r.y1
    BY <2>2, MovesTypes DEF Names
  <2>5. alu.r["x1"] = alu.given.x1 /\ alu.r["y1"] = alu.given.y1
    BY <1>4, <1>8 DEF DecimalAt
  <2>6. Adding(alu', add, alu'.given.x1, alu'.given.y1, c, alu'.r.x1)
    BY <1>4, <2>3, <2>4, <2>5, Zenon DEF Adding
  <2>7. alu'.at = 4
    BY <1>8, <2>4
  <2>8. PICK none \in BOOLEAN : ~none /\ DecimalOf(add, alu.given.x0, alu.given.y0, none, alu.r.x0, alu.f.c)
    BY <1>8 DEF DecimalAt
  <2>9. \E none1, c1 \in BOOLEAN :
          /\ ~none1 /\ DecimalOf(add, alu'.given.x0, alu'.given.y0, none1, alu'.r.x0, c1)
          /\ Adding(alu', add, alu'.given.x1, alu'.given.y1, c1, alu'.r.x1)
    BY <2>3, <2>4, <2>6, <2>8, Zenon
  <2>10. ByteWide(alu')
    BY <1>4, <2>4, Zenon DEF ByteWide
  <2> QED  BY <1>4, <2>4, <2>7, <2>9, <2>10 DEF DecimalAt
<1>9. CASE alu.at = 4
  <2>1. Moves(alu, alu', "x1", Adjust(add, alu.r["x1"], alu.f))
    BY <1>3, <1>9, AdjustMoves
  <2>2. PICK none \in BOOLEAN, c \in BOOLEAN :
          /\ ~none /\ DecimalOf(add, alu.given.x0, alu.given.y0, none, alu.r.x0, c)
          /\ Adding(alu, add, alu.given.x1, alu.given.y1, c, alu.r.x1)
    BY <1>9, Zenon DEF DecimalAt
  <2>3. PICK w : w.v = alu.r.x1 /\ w.f = alu.f /\ OneOf(add, 256, alu.given.x1, alu.given.y1, c, w)
    BY <2>2, Zenon DEF Adding
  <2>4. PICK z : z = Adjust(add, w.v, w.f)
    OBVIOUS
  <2>5. z.v \in 0..255 /\ z.f \in Flags /\ DecimalOf(add, alu.given.x1, alu.given.y1, c, z.v, z.f.c)
    <3>1. IsDecimal(add, alu.given.x1, alu.given.y1, c, z)
      BY <1>4, <2>3, <2>4, Adjusts
    <3> QED  BY <3>1, Zenon DEF IsDecimal
  <2>6. Moves(alu, alu', "x1", z)
    BY <2>1, <2>3, <2>4
  <2>7. z.v \in 0..alu.m - 1
    BY <1>4, <2>5
  <2>8. /\ AluTypes(alu') /\ alu'.task = alu.task /\ alu'.given = alu.given /\ alu'.rep = alu.rep
        /\ alu'.m = alu.m /\ alu'.at = alu.at + 1
        /\ alu'.f = z.f /\ alu'.r.x0 = alu.r.x0 /\ alu'.r.x1 = z.v /\ alu'.r.y0 = alu.r.y0 /\ alu'.r.y1 = alu.r.y1
    BY <2>5, <2>6, <2>7, MovesTypes DEF Names
  <2>9. \E none1, c1 \in BOOLEAN :
          /\ ~none1 /\ DecimalOf(add, alu'.given.x0, alu'.given.y0, none1, alu'.r.x0, c1)
          /\ DecimalOf(add, alu'.given.x1, alu'.given.y1, c1, alu'.r.x1, alu'.f.c)
    BY <2>2, <2>5, <2>8, Zenon
  <2>10. alu'.at = 5
    BY <1>9, <2>8
  <2>11. ByteWide(alu')
    BY <1>4, <2>8, Zenon DEF ByteWide
  <2> QED  BY <1>4, <2>8, <2>9, <2>10, <2>11 DEF DecimalAt
<1> QED  BY <1>2, <1>6, <1>7, <1>8, <1>9

\* Z is X and Y added up or subtracted, with e carried out.
Exactly(add, X, Y, Z, e) == IF add THEN Z + 10000 * e = X + Y ELSE Z - 10000 * e = X - Y

\* Two pairs of digits chained by a carry.
TwoDigits(add, a, b, c, d, x, y, k, e) ==
  (IF add THEN x + 100 * k = a + c + 0 /\ y + 100 * e = b + d + k
   ELSE x - 100 * k = a - c - 0 /\ y - 100 * e = b - d - k)
    => Exactly(add, a + 100 * b, c + 100 * d, x + 100 * y, e)

\* They add up.
LEMMA TwoDigitsAdd ==
  ASSUME NEW add, NEW a \in Int, NEW b \in Int, NEW c \in Int, NEW d \in Int,
         NEW x \in Int, NEW y \in Int, NEW k \in Int, NEW e \in Int
  PROVE  TwoDigits(add, a, b, c, d, x, y, k, e)
BY DEF TwoDigits, Exactly

\* A decimal sum or difference that is done is exact.
LEMMA DecimalDone ==
  ASSUME AluTypes(alu), NEW add \in BOOLEAN, alu.task = (IF add THEN "decimal_sum" ELSE "decimal_difference"),
         DecimalAt(alu, add), Done, ~alu.trap
  PROVE  DecimalExact(alu.given, alu.r, alu.f)
<1>1. alu.at = 5
  <2>1. Len(Code(alu.task, alu.given)) = 4
    <3>1. CASE add
      BY <3>1, DecimalCode
    <3>2. CASE ~add
      BY <3>2, DecimalCode
    <3> QED  BY <3>1, <3>2
  <2>2. alu.at \in 1..5
    BY Zenon DEF DecimalAt
  <2>3. alu.at \in Nat /\ alu.at > 4
    BY <2>1, RoutineDone, Zenon
  <2> QED  BY <2>2, <2>3
<1>2. PICK none \in BOOLEAN, c \in BOOLEAN :
        /\ ~none /\ DecimalOf(add, alu.given.x0, alu.given.y0, none, alu.r.x0, c)
        /\ DecimalOf(add, alu.given.x1, alu.given.y1, c, alu.r.x1, alu.f.c)
  BY <1>1, Zenon DEF DecimalAt
<1>3. \A d \in Int : Decimal(d) \in Int
  BY DEF Decimal, Nibble
<1>4. /\ alu.given.x0 \in Int /\ alu.given.x1 \in Int /\ alu.given.y0 \in Int /\ alu.given.y1 \in Int
      /\ alu.r.x0 \in Int /\ alu.r.x1 \in Int
  BY WidthsSplit DEF AluTypes, Numbers
<1>5. /\ Decimal(alu.given.x0) \in Int /\ Decimal(alu.given.x1) \in Int /\ Decimal(alu.given.y0) \in Int
      /\ Decimal(alu.given.y1) \in Int /\ Decimal(alu.r.x0) \in Int /\ Decimal(alu.r.x1) \in Int
  BY <1>3, <1>4
<1>6. Bit(none) = 0 /\ Bit(c) \in Int /\ Bit(alu.f.c) \in Int
  <2>1. Bit(none) = 0
    BY <1>2 DEF Bit
  <2> QED  BY <2>1, BitInt, Zenon
<1>7. TwoDigits(add, Decimal(alu.given.x0), Decimal(alu.given.x1), Decimal(alu.given.y0), Decimal(alu.given.y1),
                Decimal(alu.r.x0), Decimal(alu.r.x1), Bit(c), Bit(alu.f.c))
  BY <1>5, <1>6, TwoDigitsAdd, Zenon
<1>8. IF add THEN /\ Decimal(alu.r.x0) + 100 * Bit(c) = Decimal(alu.given.x0) + Decimal(alu.given.y0) + 0
                  /\ Decimal(alu.r.x1) + 100 * Bit(alu.f.c) = Decimal(alu.given.x1) + Decimal(alu.given.y1) + Bit(c)
      ELSE /\ Decimal(alu.r.x0) - 100 * Bit(c) = Decimal(alu.given.x0) - Decimal(alu.given.y0) - 0
           /\ Decimal(alu.r.x1) - 100 * Bit(alu.f.c) = Decimal(alu.given.x1) - Decimal(alu.given.y1) - Bit(c)
  <2>1. CASE add
    BY <1>2, <1>6, <2>1, Zenon DEF DecimalOf
  <2>2. CASE ~add
    BY <1>2, <1>6, <2>2, Zenon DEF DecimalOf
  <2> QED  BY <2>1, <2>2
<1>9. Exactly(add, Hundreds(alu.given.x0, alu.given.x1), Hundreds(alu.given.y0, alu.given.y1),
              Hundreds(alu.r.x0, alu.r.x1), Bit(alu.f.c))
  BY <1>7, <1>8, Zenon DEF TwoDigits, Hundreds
<1>10. DecimalExact(alu.given, alu.r, alu.f)
         <=> Exactly(add, Hundreds(alu.given.x0, alu.given.x1), Hundreds(alu.given.y0, alu.given.y1),
                     Hundreds(alu.r.x0, alu.r.x1), Bit(alu.f.c))
  <2>1. CASE add
    <3>1. alu.task = "decimal_sum"
      BY <2>1
    <3> QED  BY <2>1, <3>1 DEF DecimalExact, Exactly
  <2>2. CASE ~add
    <3>1. alu.task = "decimal_difference"
      BY <2>2
    <3> QED  BY <2>2, <3>1 DEF DecimalExact, Exactly
  <2> QED  BY <2>1, <2>2
<1> QED  BY <1>9, <1>10, Zenon

-----------------------------------------------------------------------------
(* Decimal digits of one operand: AAA, AAS, AAM and AAD. *)

AsciiOf(add, x, y, h, lo, hi, carry) ==
  IF add THEN lo + 10 * Bit(carry) = x + y /\ hi = h + Bit(carry)
  ELSE lo - 10 * Bit(carry) = x - y /\ hi = (h - Bit(carry)) % 256

\* z is a digit, with the one above it.
IsAscii(add, x, y, h, z) ==
  /\ z.al \in 0..255 /\ z.ah \in 0..255 /\ z.f \in Flags /\ AsciiOf(add, x, y, h, z.al, z.ah, z.f.c)

\* z is what AAA or AAS makes of w.
AsciiAdjusted(z, w, h, sub) == z = AsciiAdjust(w.v, h, sub, w.f)

\* AAA and AAS leave a digit and hand the carry on to the one above.
LEMMA AsciiAdjusts ==
  ASSUME NEW add \in BOOLEAN, NEW x \in 0..9, NEW y \in 0..9, NEW h \in {0, 5}, NEW no \in BOOLEAN, ~no,
         NEW w, OneOf(add, 256, x, y, no, w), NEW sub, sub = ~add, NEW z, AsciiAdjusted(z, w, h, sub)
  PROVE  IsAscii(add, x, y, h, z)
<1> DEFINE low == Nibble(w.v) > 9 \/ w.f.a
           by == IF sub THEN -1 ELSE 1
<1>1. /\ z.al = Nibble((w.v + 6 * by * Bit(low)) % 256) /\ z.ah = (h + by * Bit(low)) % 256
      /\ z.f = [w.f EXCEPT !.a = low, !.c = low]
  BY Zenon DEF AsciiAdjust, AsciiAdjusted
<1>2. Nibble(x) = x /\ Nibble(y) = y /\ Bit(no) = 0
  BY DEF Nibble, Bit
<1>3. CASE add
  <2>1. /\ w.v \in 0..256 - 1 /\ w.f \in Flags /\ w.v + 256 * Bit(w.f.c) = x + y + Bit(no)
        /\ (w.f.a <=> Nibble(x) + Nibble(y) + Bit(no) > 15)
    BY <1>3, Zenon DEF OneOf, IsSum
  <2>2. w.v = x + y /\ (w.f.a <=> x + y > 15) /\ w.v \in 0..18 /\ w.f.a \in BOOLEAN
    <3>1. w.f.a \in BOOLEAN
      BY <2>1 DEF Flags
    <3>2. w.v = x + y
      <4>1. CASE w.f.c
        BY <1>2, <2>1, <4>1 DEF Bit
      <4>2. CASE ~w.f.c
        BY <1>2, <2>1, <4>2 DEF Bit
      <4> QED  BY <4>1, <4>2
    <3> QED  BY <1>2, <2>1, <3>1, <3>2
  <2>3. low <=> x + y > 9
    BY <2>2 DEF Nibble
  <2>4. by = 1
    BY <1>3
  <2> HIDE DEF low, by
  <2>5. PICK l \in BOOLEAN : (l <=> x + y > 9) /\ l = low
    BY <2>2, <2>3 DEF low
  <2>6. z.f \in Flags /\ (z.f.c <=> l)
    <3>1. z.f = [w.f EXCEPT !.a = l, !.c = l] /\ w.f \in Flags /\ l \in BOOLEAN
      BY <1>1, <2>1, <2>5, Zenon
    <3> QED  BY <3>1, FlagsSet, Zenon
  <2>7. z.al = Nibble((w.v + 6 * 1 * Bit(l)) % 256) /\ z.ah = (h + 1 * Bit(l)) % 256
    BY <1>1, <2>4, <2>5, Zenon
  <2>8. z.al = x + y - 10 * Bit(l) /\ z.ah = h + Bit(l) /\ z.al \in 0..255 /\ z.ah \in 0..255
    <3>1. CASE l
      BY <2>2, <2>5, <2>7, <3>1 DEF Bit, Nibble
    <3>2. CASE ~l
      BY <2>2, <2>5, <2>7, <3>2 DEF Bit, Nibble
    <3> QED  BY <3>1, <3>2
  <2>9. Bit(z.f.c) = Bit(l) /\ Bit(l) \in 0..1
    BY <2>6 DEF Bit
  <2>10. z.al + 10 * Bit(z.f.c) = x + y /\ z.ah = h + Bit(z.f.c)
    BY <2>8, <2>9
  <2> QED  BY <1>3, <2>6, <2>8, <2>10, Zenon DEF IsAscii, AsciiOf
<1>4. CASE ~add
  <2>1. /\ w.v \in 0..256 - 1 /\ w.f \in Flags /\ w.v - 256 * Bit(w.f.c) = x - y - Bit(no)
        /\ (w.f.a <=> Nibble(x) - Nibble(y) - Bit(no) < 0)
    BY <1>4, Zenon DEF OneOf, IsDifference
  <2>2. w.v = (IF x < y THEN x - y + 256 ELSE x - y) /\ (w.f.a <=> x < y) /\ w.f.a \in BOOLEAN
    <3>1. w.f.a \in BOOLEAN
      BY <2>1 DEF Flags
    <3>2. w.v = (IF x < y THEN x - y + 256 ELSE x - y)
      <4>1. CASE w.f.c
        BY <1>2, <2>1, <4>1 DEF Bit
      <4>2. CASE ~w.f.c
        BY <1>2, <2>1, <4>2 DEF Bit
      <4> QED  BY <4>1, <4>2
    <3> QED  BY <1>2, <2>1, <3>1, <3>2
  <2>3. low <=> x < y
    BY <2>2 DEF Nibble
  <2>4. by = -1
    BY <1>4
  <2> HIDE DEF low, by
  <2>5. PICK l \in BOOLEAN : (l <=> x < y) /\ l = low
    BY <2>2, <2>3 DEF low
  <2>6. z.f \in Flags /\ (z.f.c <=> l)
    <3>1. z.f = [w.f EXCEPT !.a = l, !.c = l] /\ w.f \in Flags /\ l \in BOOLEAN
      BY <1>1, <2>1, <2>5, Zenon
    <3> QED  BY <3>1, FlagsSet, ZenonT(60)
  <2>7. z.al = Nibble((w.v + 6 * (-1) * Bit(l)) % 256) /\ z.ah = (h + (-1) * Bit(l)) % 256
    BY <1>1, <2>4, <2>5, Zenon
  <2>8. /\ z.al = x - y + 10 * Bit(l) /\ z.ah = (h - Bit(l)) % 256
        /\ z.al \in 0..255 /\ z.ah \in 0..255
    <3>1. CASE l
      BY <2>2, <2>5, <2>7, <3>1 DEF Bit, Nibble
    <3>2. CASE ~l
      BY <2>2, <2>5, <2>7, <3>2 DEF Bit, Nibble
    <3> QED  BY <3>1, <3>2
  <2>9. Bit(z.f.c) = Bit(l) /\ Bit(l) \in 0..1
    BY <2>6, SMTT(30) DEF Bit
  <2>10. z.al - 10 * Bit(z.f.c) = x - y /\ z.ah = (h - Bit(z.f.c)) % 256
    BY <2>8, <2>9
  <2> QED  BY <1>4, <2>6, <2>8, <2>10, Zenon DEF IsAscii, AsciiOf
<1> QED  BY <1>3, <1>4

\* An instruction that puts the two operands of a number.
PutsTwo(s, t, q, r, f) ==
  t = [s EXCEPT !.r = [s.r EXCEPT !.x0 = q, !.x1 = r], !.f = f, !.at = s.at + 1]

\* It keeps the types and what else there is.
LEMMA PutsBoth ==
  ASSUME NEW s, AluTypes(s), NEW q \in 0..s.m - 1, NEW r \in 0..s.m - 1, NEW f \in Flags, NEW t, PutsTwo(s, t, q, r, f)
  PROVE  /\ AluTypes(t) /\ Carries(s, t) /\ t.trap = s.trap /\ t.at = s.at + 1 /\ t.f = f
         /\ t.r.x0 = q /\ t.r.x1 = r /\ t.r.y0 = s.r.y0
<1>1. s.r \in Numbers(s.m)
  BY DEF AluTypes
<1>2. PICK b : b = [s.r EXCEPT !.x0 = q, !.x1 = r]
  OBVIOUS
<1>3. b \in Numbers(s.m) /\ b.x0 = q /\ b.x1 = r /\ b.y0 = s.r.y0
  BY <1>1, <1>2 DEF Numbers
<1>4. Puts(s, t, b, f)
  BY <1>2, Zenon DEF Puts, PutsTwo
<1> HIDE DEF Puts
<1>5. AluTypes(t) /\ Carries(s, t) /\ t.trap = s.trap /\ t.at = s.at + 1 /\ t.r = b /\ t.f = f
  BY <1>3, <1>4, Becomes
<1> QED  BY <1>3, <1>5

\* AAA and AAS put both digits.
LEMMA AsciiMoves ==
  ASSUME AluTypes(alu), alu.m = 256, AluNext, NEW add \in BOOLEAN,
         Now(alu) = One(IF add THEN "aaa" ELSE "aas", "x0"), NEW sub, sub = ~add
  PROVE  LET z == AsciiAdjust(alu.r.x0, alu.r.x1, sub, alu.f) IN
         (z.al \in 0..255 /\ z.ah \in 0..255 /\ z.f \in Flags)
           => PutsTwo(alu, alu', z.al, z.ah, z.f)
<1>1. Now(alu).op = IF add THEN "aaa" ELSE "aas"
  BY DEF One
<1>2. AsciiStep
  BY <1>1 DEF AluNext, Calculate, MultiplyStep, DivideStep
<1>3. (Now(alu).op = "aas") = sub /\ Now(alu).op \in {"aaa", "aas"} /\ Now(alu).op # "aam" /\ Now(alu).op # "aad"
  BY <1>1
<1> DEFINE z == AsciiAdjust(alu.r.x0, alu.r.x1, sub, alu.f)
<1>4. alu' = [alu EXCEPT !.r.x0 = z.al, !.r.x1 = z.ah, !.f = z.f, !.at = @ + 1]
  BY <1>2, <1>3, ZenonT(60) DEF AsciiStep
<1> HIDE DEF z
<1>5. SUFFICES ASSUME z.al \in 0..255 /\ z.ah \in 0..255 /\ z.f \in Flags
      PROVE  PutsTwo(alu, alu', z.al, z.ah, z.f)
  BY ZenonT(60) DEF z
<1> QED  BY <1>4, <1>5 DEF AluTypes, Numbers, PutsTwo

\* What AAM does to a product and AAD to two digits.
Unpacked(q, r, v) == q = v % 10 /\ r = v \div 10
PackedFrom(q, r, lo, hi) == q = (lo + hi * 10) % 256 /\ r = 0

\* AAM unpacks a product, AAD packs two digits.
LEMMA AsciiProductMoves ==
  ASSUME AluTypes(alu), alu.m = 256, AluNext, NEW op \in {"aam", "aad"}, Now(alu) = One(op, "x0"),
         alu.r.x0 \in 0..99, alu.r.x1 \in 0..9
  PROVE  \E q, r \in 0..255 : \E f \in Flags :
           /\ PutsTwo(alu, alu', q, r, f)
           /\ op = "aam" => Unpacked(q, r, alu.r.x0)
           /\ op = "aad" => PackedFrom(q, r, alu.r.x0, alu.r.x1)
<1>1. Now(alu).op = op
  BY DEF One
<1>2. AsciiStep
  BY <1>1, Zenon DEF AluNext, Calculate, MultiplyStep, DivideStep
<1>3. CASE op = "aam"
  <2>1. alu' = [alu EXCEPT !.r.x0 = alu.r.x0 % 10, !.r.x1 = alu.r.x0 \div 10, !.f.c = FALSE, !.at = @ + 1]
    <3>1. LET x == AsciiMultiply(alu.r.x0, 10)
          IN alu' = [alu EXCEPT !.r.x0 = x.al, !.r.x1 = x.ah, !.f.c = FALSE, !.at = @ + 1]
      BY <1>1, <1>2, <1>3 DEF AsciiStep
    <3>2. AsciiMultiply(alu.r.x0, 10).al = alu.r.x0 % 10 /\ AsciiMultiply(alu.r.x0, 10).ah = alu.r.x0 \div 10
      BY DEF AsciiMultiply
    <3> QED  BY <3>1, <3>2, Zenon
  <2>2. PICK q, r : q = alu.r.x0 % 10 /\ r = alu.r.x0 \div 10
    OBVIOUS
  <2>3. q \in 0..255 /\ r \in 0..255
    BY <2>2, SMTT(30)
  <2>4. PICK f, no : f = [alu.f EXCEPT !.c = no] /\ no \in BOOLEAN /\ no = FALSE
    OBVIOUS
  <2>5. f \in Flags
    BY <2>4 DEF AluTypes, Flags
  <2>6. alu' = [alu EXCEPT !.r.x0 = q, !.r.x1 = r, !.f.c = no, !.at = @ + 1]
    BY <2>1, <2>2, <2>4, Zenon
  <2>7. PutsTwo(alu, alu', q, r, f)
    BY <2>4, <2>6 DEF AluTypes, Numbers, Flags, PutsTwo
  <2>8. Unpacked(q, r, alu.r.x0)
    BY <2>2, Zenon DEF Unpacked
  <2> QED  BY <1>3, <2>3, <2>5, <2>7, <2>8, Zenon
<1>4. CASE op = "aad"
  <2>1. alu' = [alu EXCEPT !.r.x0 = AsciiDivide(@, alu.r.x1, 10), !.r.x1 = 0, !.at = @ + 1]
    BY <1>1, <1>2, <1>4, Zenon DEF AsciiStep
  <2>2. PICK q : q = (alu.r.x0 + alu.r.x1 * 10) % 256
    OBVIOUS
  <2>3. q \in 0..255 /\ q = AsciiDivide(alu.r.x0, alu.r.x1, 10)
    BY <2>2, SMTT(30) DEF AsciiDivide
  <2>5. alu.f \in Flags /\ 0 \in 0..255
    BY DEF AluTypes
  <2>6. PutsTwo(alu, alu', q, 0, alu.f)
    <3>1. alu' = [alu EXCEPT !.r.x0 = q, !.r.x1 = 0, !.at = @ + 1]
      BY <2>1, <2>3, Zenon
    <3> QED  BY <2>3, <3>1 DEF AluTypes, Numbers, PutsTwo
  <2>7. PICK r : r = 0
    OBVIOUS
  <2>8. PackedFrom(q, r, alu.r.x0, alu.r.x1)
    BY <2>2, <2>7, Zenon DEF PackedFrom
  <2>9. r \in 0..255 /\ PutsTwo(alu, alu', q, r, alu.f)
    BY <2>5, <2>6, <2>7
  <2> QED  BY <1>4, <2>3, <2>5, <2>8, <2>9, Zenon
<1> QED  BY <1>3, <1>4, Zenon

\* AAM alone.
LEMMA AamMoves ==
  ASSUME AluTypes(alu), alu.m = 256, AluNext, Now(alu) = One("aam", "x0"), alu.r.x0 \in 0..99, alu.r.x1 \in 0..9
  PROVE  \E q \in 0..255, r \in 0..255, f \in Flags : PutsTwo(alu, alu', q, r, f) /\ Unpacked(q, r, alu.r.x0)
<1>1. PICK op \in {"aam", "aad"} : op = "aam"
  OBVIOUS
<1>2. Now(alu) = One(op, "x0")
  BY <1>1
<1>3. \E q, r \in 0..255 : \E f \in Flags :
        /\ PutsTwo(alu, alu', q, r, f)
        /\ op = "aam" => Unpacked(q, r, alu.r.x0)
        /\ op = "aad" => PackedFrom(q, r, alu.r.x0, alu.r.x1)
  BY <1>2, AsciiProductMoves, ZenonT(60)
<1> QED  BY <1>1, <1>3, Zenon

\* AAD alone.
LEMMA AadMoves ==
  ASSUME AluTypes(alu), alu.m = 256, AluNext, Now(alu) = One("aad", "x0"), alu.r.x0 \in 0..99, alu.r.x1 \in 0..9
  PROVE  \E q \in 0..255, r \in 0..255, f \in Flags : PutsTwo(alu, alu', q, r, f) /\ PackedFrom(q, r, alu.r.x0, alu.r.x1)
<1>1. PICK op \in {"aam", "aad"} : op = "aad"
  OBVIOUS
<1>2. Now(alu) = One(op, "x0")
  BY <1>1
<1>3. \E q, r \in 0..255 : \E f \in Flags :
        /\ PutsTwo(alu, alu', q, r, f)
        /\ op = "aam" => Unpacked(q, r, alu.r.x0)
        /\ op = "aad" => PackedFrom(q, r, alu.r.x0, alu.r.x1)
  BY <1>2, AsciiProductMoves, ZenonT(60)
<1> QED  BY <1>1, <1>3, Zenon

\* A sum or difference of digits that has come to the instruction s.at.
AsciiAt(s, add) ==
  /\ ByteWide(s) /\ s.at \in 1..3 /\ s.given.x0 \in 0..9 /\ s.given.y0 \in 0..9 /\ s.given.x1 \in {0, 5}
  /\ s.at <= 2 => s.r.x1 = s.given.x1
  /\ s.at = 1 => s.r.x0 = s.given.x0 /\ s.r.y0 = s.given.y0
  /\ s.at = 2 => \E no \in BOOLEAN : ~no /\ Adding(s, add, s.given.x0, s.given.y0, no, s.r.x0)
  /\ s.at = 3 => AsciiOf(add, s.given.x0, s.given.y0, s.given.x1, s.r.x0, s.r.x1, s.f.c)

\* An instruction on digits leads to where the next one starts from.
LEMMA AsciiNext ==
  ASSUME AluTypes(alu), NEW add \in BOOLEAN, alu.task = (IF add THEN "ascii_sum" ELSE "ascii_difference"),
         AsciiAt(alu, add), AluNext
  PROVE  AluTypes(alu') /\ alu'.task = alu.task /\ AsciiAt(alu', add)
<1> DEFINE first == IF add THEN "add" ELSE "sub"
           aa == IF add THEN "aaa" ELSE "aas"
<1>1. Code(alu.task, alu.given) = <<Two(first, "x0", "y0"), One(aa, "x0")>>
  <2>1. CASE add
    BY <2>1, DecimalCode
  <2>2. CASE ~add
    BY <2>2, DecimalCode
  <2> QED  BY <2>1, <2>2
<1>2. alu.at \in 1..2
  <2>1. Len(Code(alu.task, alu.given)) = 2
    BY <1>1
  <2>2. alu.at \in 1..3
    BY Zenon DEF AsciiAt
  <2>3. alu.at \in 0..2
    BY <2>1, NotPast
  <2> QED  BY <2>2, <2>3
<1>3. /\ alu.at = 1 => Now(alu) = Two(first, "x0", "y0")
      /\ alu.at = 2 => Now(alu) = One(aa, "x0")
  <2>1. Now(alu) = Code(alu.task, alu.given)[alu.at]
    BY DEF Now
  <2> HIDE DEF first, aa
  <2> QED  BY <1>1, <1>2, <2>1
<1>4. /\ alu.given.x0 \in 0..9 /\ alu.given.y0 \in 0..9 /\ alu.given.x1 \in {0, 5}
      /\ alu.r.x1 = alu.given.x1 /\ alu.m = 256 /\ ~alu.rep
  BY <1>2 DEF AsciiAt, ByteWide
<1>5. PICK no \in BOOLEAN, sub \in BOOLEAN : ~no /\ sub = ~add
  OBVIOUS
<1>6. CASE alu.at = 1
  <2>1. Now(alu) = Two(IF no THEN (IF add THEN "adc" ELSE "sbb") ELSE (IF add THEN "add" ELSE "sub"), "x0", "y0")
    BY <1>3, <1>5, <1>6
  <2>2. PICK w : \E c \in BOOLEAN :
           /\ Moves(alu, alu', "x0", w) /\ OneOf(add, alu.m, alu.r["x0"], alu.r["y0"], c, w)
           /\ w.v \in 0..alu.m - 1 /\ w.f \in Flags
           /\ c <=> no /\ alu.f.c
    BY <2>1, OneMovesBy
  <2>3. PICK c \in BOOLEAN : OneOf(add, alu.m, alu.r["x0"], alu.r["y0"], c, w) /\ ~c
    BY <1>5, <2>2
  <2>4. /\ AluTypes(alu') /\ alu'.task = alu.task /\ alu'.given = alu.given /\ alu'.rep = alu.rep
        /\ alu'.m = alu.m /\ alu'.at = alu.at + 1
        /\ alu'.f = w.f /\ alu'.r.x0 = w.v /\ alu'.r.x1 = alu.r.x1
    BY <2>2, MovesTypes DEF Names
  <2>5. alu.r["x0"] = alu.given.x0 /\ alu.r["y0"] = alu.given.y0
    BY <1>6 DEF AsciiAt
  <2>6. Adding(alu', add, alu'.given.x0, alu'.given.y0, c, alu'.r.x0)
    BY <1>4, <2>3, <2>4, <2>5, Zenon DEF Adding
  <2>7. alu'.at = 2
    BY <1>6, <2>4
  <2>8. \E none \in BOOLEAN : ~none /\ Adding(alu', add, alu'.given.x0, alu'.given.y0, none, alu'.r.x0)
    BY <2>3, <2>6
  <2>9. ByteWide(alu')
    BY <1>4, <2>4, Zenon DEF ByteWide
  <2> QED  BY <1>4, <2>4, <2>7, <2>8, <2>9 DEF AsciiAt
<1>7. CASE alu.at = 2
  <2>1. Now(alu) = One(IF add THEN "aaa" ELSE "aas", "x0")
    BY <1>3, <1>7
  <2>2. PICK c \in BOOLEAN : ~c /\ Adding(alu, add, alu.given.x0, alu.given.y0, c, alu.r.x0)
    BY <1>7 DEF AsciiAt
  <2>3. PICK w : w.v = alu.r.x0 /\ w.f = alu.f /\ OneOf(add, 256, alu.given.x0, alu.given.y0, c, w)
    BY <2>2, Zenon DEF Adding
  <2>4. PICK z : z = AsciiAdjust(w.v, alu.given.x1, sub, w.f)
    OBVIOUS
  <2>5. IsAscii(add, alu.given.x0, alu.given.y0, alu.given.x1, z)
    <3>1. AsciiAdjusted(z, w, alu.given.x1, sub)
      BY <2>4, Zenon DEF AsciiAdjusted
    <3>2. alu.given.x0 \in 0..9 /\ alu.given.y0 \in 0..9 /\ alu.given.x1 \in {0, 5}
      BY <1>4
    <3> QED  BY <1>5, <2>2, <2>3, <3>1, <3>2, AsciiAdjusts, ZenonT(60)
  <2>6. /\ z.al \in 0..255 /\ z.ah \in 0..255 /\ z.f \in Flags
        /\ AsciiOf(add, alu.given.x0, alu.given.y0, alu.given.x1, z.al, z.ah, z.f.c)
    BY <2>5, Zenon DEF IsAscii
  <2>7. z = AsciiAdjust(alu.r.x0, alu.r.x1, sub, alu.f)
    BY <1>4, <2>3, <2>4, Zenon
  <2>8. PutsTwo(alu, alu', z.al, z.ah, z.f)
    <3>1. LET y == AsciiAdjust(alu.r.x0, alu.r.x1, sub, alu.f) IN
          (y.al \in 0..255 /\ y.ah \in 0..255 /\ y.f \in Flags) => PutsTwo(alu, alu', y.al, y.ah, y.f)
      BY <1>4, <1>5, <2>1, AsciiMoves, ZenonT(60)
    <3> QED  BY <2>6, <2>7, <3>1, Zenon
  <2>9. PICK q \in 0..255, r \in 0..255, f \in Flags : q = z.al /\ r = z.ah /\ f = z.f
    BY <2>6, Zenon
  <2>10. q \in 0..alu.m - 1 /\ r \in 0..alu.m - 1 /\ PutsTwo(alu, alu', q, r, f)
    BY <1>4, <2>8, <2>9
  <2>11. /\ AluTypes(alu') /\ Carries(alu, alu') /\ alu'.at = alu.at + 1
         /\ alu'.f = f /\ alu'.r.x0 = q /\ alu'.r.x1 = r
    BY <2>10, PutsBoth
  <2>12. /\ alu'.task = alu.task /\ alu'.given = alu.given /\ alu'.rep = alu.rep /\ alu'.m = alu.m
    BY <2>11, Zenon DEF Carries
  <2>13. AsciiOf(add, alu'.given.x0, alu'.given.y0, alu'.given.x1, alu'.r.x0, alu'.r.x1, alu'.f.c)
    BY <2>6, <2>9, <2>11, <2>12, Zenon
  <2>14. ByteWide(alu')
    BY <1>4, <2>12, Zenon DEF ByteWide
  <2>15. alu'.at = 3
    BY <1>7, <2>11
  <2> QED  BY <1>4, <2>11, <2>12, <2>13, <2>14, <2>15 DEF AsciiAt
<1> QED  BY <1>2, <1>6, <1>7

\* What a digit added or taken off comes to.
Added(g, r, f) == r.x0 + 10 * Bit(f.c) = g.x0 + g.y0 /\ r.x1 = g.x1 + Bit(f.c)
TakenOff(g, r, f) == r.x0 - 10 * Bit(f.c) = g.x0 - g.y0 /\ r.x1 = (g.x1 - Bit(f.c)) % 256

\* A digit that is added is exact.
LEMMA AddedExact ==
  ASSUME alu.task = "ascii_sum", NEW g, NEW r, NEW f, Added(g, r, f)
  PROVE  DecimalExact(g, r, f)
<1>1. alu.task # "decimal_sum"
  OBVIOUS
<1> QED  BY <1>1, SMT DEF DecimalExact, Added

\* A digit that is taken off is exact.
LEMMA TakenOffExact ==
  ASSUME alu.task = "ascii_difference", NEW g, NEW r, NEW f, TakenOff(g, r, f)
  PROVE  DecimalExact(g, r, f)
<1>1. alu.task # "decimal_sum"
  OBVIOUS
<1> QED  BY <1>1, SMT DEF DecimalExact, TakenOff

\* A sum or difference of digits that is done is exact.
LEMMA AsciiDone ==
  ASSUME AluTypes(alu), NEW add \in BOOLEAN, alu.task = (IF add THEN "ascii_sum" ELSE "ascii_difference"),
         AsciiAt(alu, add), Done, ~alu.trap
  PROVE  DecimalExact(alu.given, alu.r, alu.f)
<1>1. alu.at = 3
  <2>1. Len(Code(alu.task, alu.given)) = 2
    <3>1. CASE add
      BY <3>1, DecimalCode
    <3>2. CASE ~add
      BY <3>2, DecimalCode
    <3> QED  BY <3>1, <3>2
  <2>2. alu.at \in 1..3
    BY Zenon DEF AsciiAt
  <2>3. alu.at \in Nat /\ alu.at > 2
    BY <2>1, RoutineDone, Zenon
  <2> QED  BY <2>2, <2>3
<1>2. AsciiOf(add, alu.given.x0, alu.given.y0, alu.given.x1, alu.r.x0, alu.r.x1, alu.f.c)
  BY <1>1, Zenon DEF AsciiAt
<1>3. CASE add
  <2>1. alu.task = "ascii_sum"
    BY <1>3
  <2>2. Added(alu.given, alu.r, alu.f)
    BY <1>2, <1>3, Zenon DEF AsciiOf, Added
  <2> QED  BY <2>1, <2>2, AddedExact, Zenon
<1>4. CASE ~add
  <2>1. alu.task = "ascii_difference"
    BY <1>4
  <2>2. TakenOff(alu.given, alu.r, alu.f)
    BY <1>2, <1>4, Zenon DEF AsciiOf, TakenOff
  <2> QED  BY <2>1, <2>2, TakenOffExact, Zenon
<1> QED  BY <1>3, <1>4

\* A product of digits that has come to the instruction s.at.
AsciiProductAt(s) ==
  /\ ByteWide(s) /\ s.at \in 1..4 /\ s.given.x0 \in 0..9 /\ s.given.y0 \in 0..9
  /\ s.at = 1 => s.r.x0 = s.given.x0 /\ s.r.y0 = s.given.y0
  /\ s.at = 2 => s.r.x0 = s.given.x0 * s.given.y0 /\ s.r.x1 = 0
  /\ s.at = 3 => s.r.x0 = (s.given.x0 * s.given.y0) % 10 /\ s.r.x1 = (s.given.x0 * s.given.y0) \div 10
  /\ s.at = 4 => s.r.x0 = s.given.x0 * s.given.y0 /\ s.r.x1 = 0

\* A product of digits has two digits.
LEMMA DigitsProduct ==
  ASSUME NEW x \in 0..9, NEW y \in 0..9
  PROVE  x * y \in 0..81
<1>1. x * y <= 9 * y /\ x * y >= 0 /\ x * y \in Int
  <2>1. x \in {0, 1, 2, 3, 4, 5, 6, 7, 8, 9}
    OBVIOUS
  <2> QED  BY <2>1
<1> QED  BY <1>1

\* The product of two digits, and what MUL forms of them.
Product(w, x, y) == w.lo = x * y /\ w.hi = 0
Multiplied(signed, x, y, rep, w) == IsProduct(signed, 256, ProductOf(signed, 256, x, y, rep), w)

\* It fits the lower operand.
LEMMA SmallProduct ==
  ASSUME NEW x \in 0..9, NEW y \in 0..9, NEW signed \in BOOLEAN, ~signed, NEW rep, ~rep,
         NEW w, Multiplied(signed, x, y, rep, w)
  PROVE  Product(w, x, y)
<1>1. ProductOf(signed, 256, x, y, rep) = x * y
  BY DEF ProductOf, Factor
<1>2. PICK p : p = x * y
  OBVIOUS
<1>3. p \in 0..81
  BY <1>2, DigitsProduct
<1>4. /\ w.lo \in 0..256 - 1 /\ w.hi \in 0..256 - 1 /\ w.lo + 256 * w.hi = p % (256 * 256)
  BY <1>1, <1>2, Zenon DEF IsProduct, Multiplied
<1>5. p % (256 * 256) = p
  BY <1>3
<1>6. w.lo + 256 * w.hi = p
  BY <1>4, <1>5
<1>7. w.lo \in 0..256 - 1 /\ w.hi \in 0..256 - 1
  BY <1>4
<1>8. PICK lo, hi : lo = w.lo /\ hi = w.hi
  OBVIOUS
<1>9. lo \in 0..255 /\ hi \in 0..255 /\ lo + 256 * hi = p
  BY <1>6, <1>7, <1>8
<1>10. lo = p /\ hi = 0
  BY <1>3, <1>9
<1> QED  BY <1>2, <1>8, <1>10, Zenon DEF Product

\* An instruction on a product of digits leads to where the next one starts from.
LEMMA AsciiProductNext ==
  ASSUME AluTypes(alu), alu.task = "ascii_product", AsciiProductAt(alu), AluNext
  PROVE  AluTypes(alu') /\ alu'.task = alu.task /\ AsciiProductAt(alu')
<1>1. Code(alu.task, alu.given) = <<One("mul", "y0"), One("aam", "x0"), One("aad", "x0")>>
  BY DecimalCode
<1>2. alu.at \in 1..3
  <2>1. Len(Code(alu.task, alu.given)) = 3
    BY <1>1
  <2>2. alu.at \in 1..4
    BY Zenon DEF AsciiProductAt
  <2>3. alu.at \in 0..3
    BY <2>1, NotPast
  <2> QED  BY <2>2, <2>3
<1>3. /\ alu.at = 1 => Now(alu) = One("mul", "y0")
      /\ alu.at = 2 => Now(alu) = One("aam", "x0")
      /\ alu.at = 3 => Now(alu) = One("aad", "x0")
  BY <1>1, <1>2 DEF Now
<1>4. /\ alu.given.x0 \in 0..9 /\ alu.given.y0 \in 0..9 /\ alu.m = 256 /\ ~alu.rep
  BY Zenon DEF AsciiProductAt, ByteWide
<1>5. PICK p : p = alu.given.x0 * alu.given.y0
  OBVIOUS
<1>6. p \in 0..81
  BY <1>4, <1>5, DigitsProduct
<1>7. CASE alu.at = 1
  <2>1. PICK signed \in BOOLEAN : ~signed
    OBVIOUS
  <2>2. Now(alu) = One(IF signed THEN "imul" ELSE "mul", "y0")
    BY <1>3, <1>7, <2>1
  <2>3. PICK w : /\ IsProduct(signed, alu.m, ProductOf(signed, alu.m, alu.r.x0, alu.r.y0, alu.rep), w)
                 /\ AluTypes(alu') /\ Carries(alu, alu') /\ alu'.r.y0 = alu.r.y0
                 /\ alu'.trap = alu.trap /\ alu'.at = alu.at + 1
                 /\ alu'.r.x0 = w.lo /\ alu'.r.x1 = w.hi /\ alu'.f.c = w.c
    BY <2>2, MultipliesNext
  <2>4. alu.r.x0 = alu.given.x0 /\ alu.r.y0 = alu.given.y0
    BY <1>7 DEF AsciiProductAt
  <2>5. Multiplied(signed, alu.given.x0, alu.given.y0, alu.rep, w)
    BY <1>4, <2>3, <2>4, Zenon DEF Multiplied
  <2>6. w.lo = alu.given.x0 * alu.given.y0 /\ w.hi = 0
    <3>1. Product(w, alu.given.x0, alu.given.y0)
      <4>1. alu.given.x0 \in 0..9 /\ alu.given.y0 \in 0..9 /\ ~alu.rep
        BY <1>4
      <4> QED  BY <2>1, <2>5, <4>1, SmallProduct, Zenon
    <3> QED  BY <3>1, Zenon DEF Product
  <2>7. /\ alu'.task = alu.task /\ alu'.given = alu.given /\ alu'.rep = alu.rep /\ alu'.m = alu.m
    BY <2>3, Zenon DEF Carries
  <2>8. ByteWide(alu')
    BY <1>4, <2>7, Zenon DEF ByteWide
  <2>9. alu'.at = 2 /\ alu'.r.x0 = alu'.given.x0 * alu'.given.y0 /\ alu'.r.x1 = 0
    BY <1>7, <2>3, <2>6, <2>7
  <2> QED  BY <1>4, <2>3, <2>7, <2>8, <2>9 DEF AsciiProductAt
<1>8. CASE alu.at = 2
  <2>1. alu.r.x0 = p /\ alu.r.x1 = 0
    BY <1>5, <1>8, Zenon DEF AsciiProductAt
  <2>2. alu.r.x0 \in 0..99 /\ alu.r.x1 \in 0..9
    BY <1>6, <2>1
  <2>3. alu.m = 256 /\ Now(alu) = One("aam", "x0")
    BY <1>3, <1>4, <1>8, SMTT(30)
  <2>4. PICK q \in 0..255, r \in 0..255, f \in Flags : PutsTwo(alu, alu', q, r, f) /\ Unpacked(q, r, alu.r.x0)
    BY <2>2, <2>3, AamMoves, Zenon
  <2>5. q \in 0..alu.m - 1 /\ r \in 0..alu.m - 1
    BY <1>4
  <2>6. /\ AluTypes(alu') /\ Carries(alu, alu') /\ alu'.at = alu.at + 1
        /\ alu'.r.x0 = q /\ alu'.r.x1 = r
    BY <2>4, <2>5, PutsBoth
  <2>7. /\ alu'.task = alu.task /\ alu'.given = alu.given /\ alu'.rep = alu.rep /\ alu'.m = alu.m
    BY <2>6, Zenon DEF Carries
  <2>8. ByteWide(alu')
    BY <1>4, <2>7, Zenon DEF ByteWide
  <2>9. alu'.r.x0 = (alu'.given.x0 * alu'.given.y0) % 10 /\ alu'.r.x1 = (alu'.given.x0 * alu'.given.y0) \div 10
    BY <1>5, <2>1, <2>3, <2>4, <2>6, <2>7, ZenonT(60) DEF Unpacked
  <2>10. alu'.at = 3
    BY <1>8, <2>6
  <2> QED  BY <1>4, <2>6, <2>7, <2>8, <2>9, <2>10 DEF AsciiProductAt
<1>9. CASE alu.at = 3
  <2>1. alu.r.x0 = p % 10 /\ alu.r.x1 = p \div 10
    BY <1>5, <1>9, Zenon DEF AsciiProductAt
  <2>2. alu.r.x0 \in 0..99 /\ alu.r.x1 \in 0..9 /\ (alu.r.x0 + alu.r.x1 * 10) % 256 = p
    BY <1>6, <2>1
  <2>3. alu.m = 256 /\ Now(alu) = One("aad", "x0")
    BY <1>3, <1>4, <1>9
  <2>4. PICK q \in 0..255, r \in 0..255, f \in Flags : PutsTwo(alu, alu', q, r, f) /\ PackedFrom(q, r, alu.r.x0, alu.r.x1)
    BY <2>2, <2>3, AadMoves, Zenon
  <2>5. q \in 0..alu.m - 1 /\ r \in 0..alu.m - 1
    BY <1>4, SMTT(30)
  <2>6. /\ AluTypes(alu') /\ Carries(alu, alu') /\ alu'.at = alu.at + 1
        /\ alu'.r.x0 = q /\ alu'.r.x1 = r
    BY <2>4, <2>5, PutsBoth
  <2>7. /\ alu'.task = alu.task /\ alu'.given = alu.given /\ alu'.rep = alu.rep /\ alu'.m = alu.m
    BY <2>6, ZenonT(60) DEF Carries
  <2>8. ByteWide(alu')
    BY <1>4, <2>7, ZenonT(60) DEF ByteWide
  <2>9. alu'.r.x0 = alu'.given.x0 * alu'.given.y0 /\ alu'.r.x1 = 0
    BY <1>5, <2>2, <2>3, <2>4, <2>6, <2>7, ZenonT(60) DEF PackedFrom
  <2>10. alu'.at = 4
    BY <1>9, <2>6
  <2> QED  BY <1>4, <2>6, <2>7, <2>8, <2>9, <2>10 DEF AsciiProductAt
<1> QED  BY <1>2, <1>7, <1>8, <1>9

\* A product of digits that was unpacked and packed again is itself.
LEMMA AsciiProductDone ==
  ASSUME AluTypes(alu), alu.task = "ascii_product", AsciiProductAt(alu), Done, ~alu.trap
  PROVE  DecimalExact(alu.given, alu.r, alu.f)
<1>1. alu.at = 4
  <2>1. Len(Code(alu.task, alu.given)) = 3
    BY DecimalCode
  <2>2. alu.at \in 1..4
    BY Zenon DEF AsciiProductAt
  <2>3. alu.at \in Nat /\ alu.at > 3
    BY <2>1, RoutineDone, Zenon
  <2> QED  BY <2>2, <2>3
<1>2. alu.r.x0 = alu.given.x0 * alu.given.y0 /\ alu.r.x1 = 0
  BY <1>1, Zenon DEF AsciiProductAt
<1> QED  BY <1>2 DEF DecimalExact

\* The shifts and rotations, by their direction.
Lefts == {"rol", "rcl", "shl"}
Rights == {"ror", "rcr", "shr", "sar"}
Modes == Lefts \cup Rights

\* What one bit's worth of each of them does to a number.
OnceIs(mode, m, v, c, x, d) ==
  /\ x \in 0..m - 1 /\ d \in BOOLEAN
  /\ mode \in Lefts =>
       /\ d <=> v >= Half(m)
       /\ x = 2 * v - (IF d THEN m ELSE 0)
                + (IF (mode = "rol" /\ d) \/ (mode = "rcl" /\ c) THEN 1 ELSE 0)
  /\ mode \in Rights =>
       /\ d <=> v % 2 = 1
       /\ 2 * x + (IF d THEN 1 ELSE 0)
            = v + (IF \/ mode = "ror" /\ d
                      \/ mode = "rcr" /\ c
                      \/ mode = "sar" /\ v >= Half(m) THEN m ELSE 0)

\* Every kind of shift moves one bit so.
LEMMA OnceExact ==
  ASSUME NEW mode \in Modes, NEW m \in Nat \ {0}, m % 2 = 0, NEW v \in 0..m - 1, NEW c \in BOOLEAN,
         NEW w, w = ShiftOnce(mode, m, v, c)
  PROVE  OnceIs(mode, m, v, c, w.v, w.c)
<1>1. PICK h : h = Half(m)
  OBVIOUS
<1>2. h \in Int /\ m = 2 * h /\ h > 0
  BY <1>1 DEF Half
<1>3. PICK top \in BOOLEAN, low \in BOOLEAN : (top <=> v >= h) /\ (low <=> v % 2 = 1)
  OBVIOUS
<1>4. top = Sign(v, m) /\ low = (v % 2 = 1)
  BY <1>1, <1>3 DEF Sign
<1>5. Bit(top) = (IF top THEN 1 ELSE 0) /\ Bit(low) = (IF low THEN 1 ELSE 0) /\ Bit(c) = (IF c THEN 1 ELSE 0)
  BY DEF Bit
<1>6. PICK left, right : left = (2 * v) % m /\ right = v \div 2
  OBVIOUS
<1>7. left = (IF top THEN 2 * v - m ELSE 2 * v) /\ right \in 0..m - 1 /\ 2 * right + Bit(low) = v
  <2>1. right \in 0..m - 1 /\ 2 * right + Bit(low) = v
    BY <1>3, <1>5, <1>6
  <2>2. CASE top
    <3>1. 2 * v = 1 * m + (2 * v - m) /\ 2 * v - m \in 0..m - 1
      BY <1>2, <1>3, <2>2
    <3>2. (2 * v) % m = 2 * v - m
      BY <3>1, <1>2
    <3> QED  BY <1>6, <2>1, <2>2, <3>2
  <2>3. CASE ~top
    <3>1. 2 * v \in 0..m - 1
      BY <1>2, <1>3, <2>3
    <3>2. (2 * v) % m = 2 * v
      BY <3>1
    <3> QED  BY <1>6, <2>1, <2>3, <3>2
  <2> QED  BY <2>2, <2>3
<1>11. /\ Bit(top) * h = (IF top THEN h ELSE 0) /\ Bit(low) * h = (IF low THEN h ELSE 0)
       /\ Bit(c) * h = (IF c THEN h ELSE 0)
  BY <1>2, <1>5
<1>8. /\ mode = "rol" => w = [v |-> left + Bit(top), c |-> top]
      /\ mode = "ror" => w = [v |-> right + (IF low THEN h ELSE 0), c |-> low]
      /\ mode = "rcl" => w = [v |-> left + Bit(c), c |-> top]
      /\ mode = "rcr" => w = [v |-> right + (IF c THEN h ELSE 0), c |-> low]
      /\ mode = "shl" => w = [v |-> left, c |-> top]
      /\ mode = "shr" => w = [v |-> right, c |-> low]
      /\ mode = "sar" => w = [v |-> right + (IF top THEN h ELSE 0), c |-> low]
  BY <1>1, <1>4, <1>6, <1>11 DEF ShiftOnce
<1>9. mode \in Lefts => OnceIs(mode, m, v, c, w.v, w.c)
  <2>1. CASE mode = "rol"
    BY <1>1, <1>2, <1>3, <1>5, <1>7, <1>8, <2>1 DEF OnceIs, Lefts, Rights
  <2>2. CASE mode = "rcl"
    BY <1>1, <1>2, <1>3, <1>5, <1>7, <1>8, <2>2 DEF OnceIs, Lefts, Rights
  <2>3. CASE mode = "shl"
    BY <1>1, <1>2, <1>3, <1>5, <1>7, <1>8, <2>3 DEF OnceIs, Lefts, Rights
  <2> QED  BY <2>1, <2>2, <2>3 DEF Lefts
<1>10. mode \in Rights => OnceIs(mode, m, v, c, w.v, w.c)
  <2>1. CASE mode = "ror"
    BY <1>1, <1>2, <1>3, <1>5, <1>7, <1>8, <2>1 DEF OnceIs, Lefts, Rights
  <2>2. CASE mode = "rcr"
    BY <1>1, <1>2, <1>3, <1>5, <1>7, <1>8, <2>2 DEF OnceIs, Lefts, Rights
  <2>3. CASE mode = "shr"
    BY <1>1, <1>2, <1>3, <1>5, <1>7, <1>8, <2>3 DEF OnceIs, Lefts, Rights
  <2>4. CASE mode = "sar"
    <3>1. w.v = right + (IF top THEN h ELSE 0) /\ w.c = low
      BY <1>8, <2>4
    <3>2. w.v \in 0..m - 1 /\ 2 * w.v + (IF low THEN 1 ELSE 0) = v + (IF top THEN m ELSE 0)
      <4>1. CASE top
        BY <1>2, <1>3, <1>5, <1>7, <3>1, <4>1
      <4>2. CASE ~top
        BY <1>2, <1>3, <1>5, <1>7, <3>1, <4>2
      <4> QED  BY <4>1, <4>2
    <3>3. (w.c <=> v % 2 = 1) /\ (top <=> v >= Half(m))
      BY <1>1, <1>3, <3>1
    <3> QED  BY <2>4, <3>1, <3>2, <3>3 DEF OnceIs, Lefts, Rights
  <2> QED  BY <2>1, <2>2, <2>3, <2>4 DEF Rights
<1> QED  BY <1>9, <1>10 DEF Modes

\* The values on the way, of which the last is what Shift leaves.
Recursed(h, mode, m, v, count, c) ==
  h = [i \in 0..count |-> IF i = 0 THEN [v |-> v, c |-> c] ELSE ShiftOnce(mode, m, h[i - 1].v, h[i - 1].c)]

\* There are such values.
LEMMA Recurses ==
  ASSUME NEW mode, NEW m, NEW v, NEW count \in 0..5, NEW c
  PROVE  \E h : Recursed(h, mode, m, v, count, c)
<1>1. PICK s0 : s0 = [v |-> v, c |-> c]
  OBVIOUS
<1>2. PICK s1 : s1 = ShiftOnce(mode, m, s0.v, s0.c)
  OBVIOUS
<1>3. PICK s2 : s2 = ShiftOnce(mode, m, s1.v, s1.c)
  BY SMTT(30)
<1>4. PICK s3 : s3 = ShiftOnce(mode, m, s2.v, s2.c)
  BY SMTT(30)
<1>5. PICK s4 : s4 = ShiftOnce(mode, m, s3.v, s3.c)
  BY SMTT(30)
<1>6. PICK s5 : s5 = ShiftOnce(mode, m, s4.v, s4.c)
  BY SMTT(30)
<1>7. PICK h : h = [i \in 0..count |-> IF i = 0 THEN s0 ELSE IF i = 1 THEN s1 ELSE IF i = 2 THEN s2
                                      ELSE IF i = 3 THEN s3 ELSE IF i = 4 THEN s4 ELSE s5]
  BY Zenon
<1>8. ASSUME NEW i \in 0..count
      PROVE  h[i] = IF i = 0 THEN [v |-> v, c |-> c] ELSE ShiftOnce(mode, m, h[i - 1].v, h[i - 1].c)
  <2>1. i \in {0, 1, 2, 3, 4, 5}
    OBVIOUS
  <2>2. h[i] = IF i = 0 THEN s0 ELSE IF i = 1 THEN s1 ELSE IF i = 2 THEN s2
               ELSE IF i = 3 THEN s3 ELSE IF i = 4 THEN s4 ELSE s5
    BY <1>7
  <2>3. i # 0 => h[i - 1] = IF i = 1 THEN s0 ELSE IF i = 2 THEN s1 ELSE IF i = 3 THEN s2
                            ELSE IF i = 4 THEN s3 ELSE s4
    BY <1>7, <2>1
  <2> QED  BY <1>1, <1>2, <1>3, <1>4, <1>5, <1>6, <2>1, <2>2, <2>3, Zenon
<1>9. h = [i \in 0..count |-> IF i = 0 THEN [v |-> v, c |-> c] ELSE ShiftOnce(mode, m, h[i - 1].v, h[i - 1].c)]
  BY <1>7, <1>8, SMTT(30)
<1> QED  BY <1>9, Zenon DEF Recursed

\* The flags a shift sets, SF and ZF those of an arithmetic one only.
Flagged(g, f, c, o, b, s, z) ==
  g = [f EXCEPT !.c = c, !.o = o, !.s = IF b THEN s ELSE @, !.z = IF b THEN z ELSE @]

\* They are flags, and the carry is the one that is set.
LEMMA ShiftFlags ==
  ASSUME NEW f \in Flags, NEW c \in BOOLEAN, NEW o \in BOOLEAN, NEW s \in BOOLEAN, NEW z \in BOOLEAN,
         NEW b \in BOOLEAN,
         NEW g, Flagged(g, f, c, o, b, s, z)
  PROVE  g \in Flags /\ g.c = c /\ (b => g.s = s /\ g.z = z)
BY DEF Flags, Flagged

\* A shift or rotation by count has left w.
ShiftsTo(mode, m, v, count, f, w) ==
  /\ w.v \in 0..m - 1 /\ w.f \in Flags
  /\ \E h : Recursed(h, mode, m, v, count, f.c) /\ w.v = h[count].v /\ w.f.c = h[count].c
  /\ mode = "sar" /\ count # 0 => w.f.s = Sign(w.v, m) /\ w.f.z = (w.v = 0)

\* One of the values on the way and the one before.
Between(h, mode, m, i) ==
  h[i].v \in 0..m - 1 /\ h[i].c \in BOOLEAN /\ OnceIs(mode, m, h[i - 1].v, h[i - 1].c, h[i].v, h[i].c)

Walked(h, mode, m, v, c, count) ==
  /\ h[0].v = v /\ h[0].c = c
  /\ \A i \in 1..count : Between(h, mode, m, i)

\* All values on the way come from the one before by one bit.
LEMMA Walk ==
  ASSUME NEW mode \in Modes, NEW m \in Nat \ {0}, m % 2 = 0, NEW v \in 0..m - 1, NEW c \in BOOLEAN,
         NEW count \in 0..5, NEW h, Recursed(h, mode, m, v, count, c)
  PROVE  Walked(h, mode, m, v, c, count)
<1>1. h[0] = [v |-> v, c |-> c]
  BY DEF Recursed
<1>2. ASSUME NEW i \in 1..count
      PROVE  h[i] = ShiftOnce(mode, m, h[i - 1].v, h[i - 1].c)
  BY DEF Recursed
<1>3. ASSUME NEW i \in 1..count, h[i - 1].v \in 0..m - 1, h[i - 1].c \in BOOLEAN
      PROVE  Between(h, mode, m, i)
  <2>1. OnceIs(mode, m, h[i - 1].v, h[i - 1].c, h[i].v, h[i].c)
    BY <1>2, <1>3, OnceExact
  <2> QED  BY <2>1, Zenon DEF Between, OnceIs
<1>4. h[0].v \in 0..m - 1 /\ h[0].c \in BOOLEAN
  BY <1>1
<1>5. 1 <= count => Between(h, mode, m, 1)
  BY <1>3, <1>4
<1>6. 2 <= count => Between(h, mode, m, 2)
  BY <1>3, <1>5 DEF Between
<1>7. 3 <= count => Between(h, mode, m, 3)
  BY <1>3, <1>6 DEF Between
<1>8. 4 <= count => Between(h, mode, m, 4)
  BY <1>3, <1>7 DEF Between
<1>9. 5 <= count => Between(h, mode, m, 5)
  BY <1>3, <1>8 DEF Between
<1>10. ASSUME NEW i \in 1..count
       PROVE  Between(h, mode, m, i)
  <2>1. i \in {1, 2, 3, 4, 5}
    OBVIOUS
  <2> QED  BY <1>5, <1>6, <1>7, <1>8, <1>9, <2>1
<1> QED  BY <1>1, <1>10 DEF Walked

\* Shift goes that way to its end.
LEMMA ShiftExactly ==
  ASSUME NEW mode \in Modes, NEW m \in Nat \ {0}, m % 2 = 0, NEW v \in 0..m - 1, NEW count \in 0..5,
         NEW f \in Flags, NEW w, w = Shift(mode, m, v, count, f)
  PROVE  ShiftsTo(mode, m, v, count, f, w)
<1>0. f.c \in BOOLEAN /\ f.s \in BOOLEAN /\ f.z \in BOOLEAN
  BY DEF Flags
<1> DEFINE g == CHOOSE h : Recursed(h, mode, m, v, count, f.c)
<1>1. Recursed(g, mode, m, v, count, f.c)
  BY Recurses
<1>2. g = CHOOSE h : h = [i \in 0..count |-> IF i = 0 THEN [v |-> v, c |-> f.c]
                                               ELSE ShiftOnce(mode, m, h[i - 1].v, h[i - 1].c)]
  BY Zenon DEF Recursed
<1> HIDE DEF g
<1>3. /\ g[0].v = v /\ g[0].c = f.c
      /\ \A i \in 1..count : Between(g, mode, m, i)
  <2>1. Walked(g, mode, m, v, f.c, count)
    BY <1>0, <1>1, Walk
  <2> QED  BY <2>1 DEF Walked
<1>4. CASE count = 0
  <2>1. w.v = v /\ w.f = f
    BY <1>4 DEF Shift
  <2> QED  BY <1>1, <1>3, <1>4, <2>1 DEF ShiftsTo
<1>5. CASE count # 0
  <2>1. g[count].v \in 0..m - 1 /\ g[count].c \in BOOLEAN
    BY <1>3, <1>5 DEF Between
  <2> DEFINE r == g[count]
             top == Sign(r.v, m)
             next == (r.v % Half(m)) >= Half(m) \div 2
             overflow == CASE mode \in {"rol", "rcl", "shl"} -> r.c # top
                           [] mode \in {"ror", "rcr"} -> top # next
                           [] mode = "shr" -> count = 1 /\ Sign(v, m)
                           [] mode = "sar" -> FALSE
             zero == r.v = 0
             whole == mode \in {"shl", "shr", "sar"}
  <2>2. w.v = r.v /\ Flagged(w.f, f, r.c, overflow, whole, top, zero)
    BY <1>5, Zenon DEF Shift, g, Recursed, Flagged
  <2>3. overflow \in BOOLEAN
    BY DEF Modes, Lefts, Rights, Sign
  <2>4. top \in BOOLEAN /\ zero \in BOOLEAN /\ whole \in BOOLEAN
    BY DEF Sign
  <2>7. (mode = "sar" => whole) /\ top = Sign(r.v, m) /\ zero = (r.v = 0)
    OBVIOUS
  <2> HIDE DEF r, overflow, top, zero, whole
  <2>5. r.c \in BOOLEAN /\ r.v \in 0..m - 1 /\ r = g[count]
    BY <2>1 DEF r
  <2>6. w.f \in Flags /\ w.f.c = r.c /\ (whole => w.f.s = top /\ w.f.z = zero)
    <3>1. Flagged(w.f, f, r.c, overflow, whole, top, zero) /\ r.c \in BOOLEAN
      BY <2>2, <2>5
    <3>2. PICK c1 \in BOOLEAN, o1 \in BOOLEAN, b1 \in BOOLEAN, s1 \in BOOLEAN, z1 \in BOOLEAN :
            c1 = r.c /\ o1 = overflow /\ b1 = whole /\ s1 = top /\ z1 = zero
      BY <2>3, <2>4, <3>1
    <3>3. Flagged(w.f, f, c1, o1, b1, s1, z1)
      BY <3>1, <3>2, Zenon
    <3>4. w.f \in Flags /\ w.f.c = c1 /\ (b1 => w.f.s = s1 /\ w.f.z = z1)
      BY <3>3, ShiftFlags
    <3> QED  BY <3>2, <3>4
  <2> QED  BY <1>1, <2>2, <2>5, <2>6, <2>7, Zenon DEF ShiftsTo
<1> QED  BY <1>4, <1>5

\* The shifts that multiply or divide by powers of two.
Wholes == {"shl", "shr", "sar"}

\* x is v shifted by as many bits as P, a power of two, says.
ShiftedBy(mode, m, v, x, P) ==
  /\ x \in 0..m - 1
  /\ mode = "shl" => x = (v * P) % m
  /\ mode = "shr" => x = v \div P
  /\ mode = "sar" => Signed(x, m) = Signed(v, m) \div P

\* Twice a remainder is the remainder of twice the number.
LEMMA Doubles ==
  ASSUME NEW m \in Nat \ {0}, NEW a \in Int, NEW b \in Int, b = 2 * a, NEW x, x = a % m,
         NEW y \in 0..m - 1, y = 2 * x \/ y = 2 * x - m
  PROVE  y = b % m
<1>1. PICK q \in Int : a = m * q + x /\ x \in 0..m - 1
  BY Division
<1>2. PICK Q \in Int : b = m * Q + y
  <2>1. CASE y = 2 * x
    <3>1. b = m * (2 * q) + y /\ 2 * q \in Int
      BY <1>1, <2>1
    <3> QED  BY <3>1
  <2>2. CASE y = 2 * x - m
    <3>1. m * (2 * q + 1) = 2 * (m * q) + m
      BY <1>1
    <3>2. b = m * (2 * q + 1) + y /\ 2 * q + 1 \in Int
      BY <1>1, <2>2, <3>1
    <3> QED  BY <3>2
  <2> QED  BY <2>1, <2>2
<1>3. (m * Q + y) % m = y
  BY Unique
<1> QED  BY <1>2, <1>3

\* One bit more is one power of two more.
LEMMA OnceMore ==
  ASSUME NEW mode \in Wholes, NEW m \in Nat \ {0}, m % 2 = 0, NEW v \in 0..m - 1, NEW x,
         NEW P \in {1, 2, 4, 8, 16}, ShiftedBy(mode, m, v, x, P),
         NEW c \in BOOLEAN, NEW y, NEW d, OnceIs(mode, m, x, c, y, d)
  PROVE  ShiftedBy(mode, m, v, y, 2 * P)
<1>1. x \in 0..m - 1 /\ y \in 0..m - 1 /\ d \in BOOLEAN
  BY Zenon DEF ShiftedBy, OnceIs
<1>2. CASE mode = "shl"
  <2>1. x = (v * P) % m
    BY <1>2, Zenon DEF ShiftedBy
  <2>2. y = 2 * x - (IF d THEN m ELSE 0) + 0
    BY <1>1, <1>2 DEF OnceIs, Lefts, Rights
  <2>3. y = 2 * x \/ y = 2 * x - m
    BY <1>1, <2>2
  <2>4. PICK a, b : a = v * P /\ b = v * (2 * P)
    OBVIOUS
  <2>5. a \in Int /\ b \in Int /\ b = 2 * a
    BY <2>4
  <2>6. y = b % m
    BY <1>1, <2>1, <2>3, <2>4, <2>5, Doubles
  <2> QED  BY <1>1, <1>2, <2>4, <2>6 DEF ShiftedBy
<1>3. CASE mode = "shr"
  <2>1. x = v \div P
    BY <1>3, Zenon DEF ShiftedBy
  <2>2. 2 * y + (IF d THEN 1 ELSE 0) = x
    BY <1>1, <1>3 DEF OnceIs, Lefts, Rights
  <2>3. y = v \div (2 * P)
    <3>1. CASE P = 1
      BY <1>1, <2>1, <2>2, <3>1
    <3>2. CASE P = 2
      BY <1>1, <2>1, <2>2, <3>2
    <3>3. CASE P = 4
      BY <1>1, <2>1, <2>2, <3>3
    <3>4. CASE P = 8
      BY <1>1, <2>1, <2>2, <3>4
    <3>5. CASE P = 16
      BY <1>1, <2>1, <2>2, <3>5
    <3> QED  BY <3>1, <3>2, <3>3, <3>4, <3>5
  <2> QED  BY <1>1, <1>3, <2>3 DEF ShiftedBy
<1>4. CASE mode = "sar"
  <2>1. PICK s, t, u : s = Signed(v, m) /\ t = Signed(x, m) /\ u = Signed(y, m)
    OBVIOUS
  <2>2. t = s \div P
    BY <1>4, <2>1, Zenon DEF ShiftedBy
  <2>3. s \in Int /\ t \in Int /\ u \in Int
    BY <1>1, <2>1 DEF Signed
  <2>4. 2 * u + (IF d THEN 1 ELSE 0) = t
    <3>1. 2 * y + (IF d THEN 1 ELSE 0) = x + (IF x >= Half(m) THEN m ELSE 0)
      BY <1>1, <1>4 DEF OnceIs, Lefts, Rights
    <3>2. PICK h \in Int : m = 2 * h /\ Half(m) = h
      BY DEF Half
    <3>3. t = (IF x >= h THEN x - m ELSE x) /\ u = (IF y >= h THEN y - m ELSE y)
      BY <2>1, <3>2 DEF Signed, Sign
    <3>4. CASE x >= h
      BY <1>1, <3>1, <3>2, <3>3, <3>4
    <3>5. CASE ~(x >= h)
      BY <1>1, <3>1, <3>2, <3>3, <3>5
    <3> QED  BY <3>4, <3>5
  <2>5. u = s \div (2 * P)
    <3>1. CASE P = 1
      BY <1>1, <2>2, <2>3, <2>4, <3>1
    <3>2. CASE P = 2
      BY <1>1, <2>2, <2>3, <2>4, <3>2
    <3>3. CASE P = 4
      BY <1>1, <2>2, <2>3, <2>4, <3>3
    <3>4. CASE P = 8
      BY <1>1, <2>2, <2>3, <2>4, <3>4
    <3>5. CASE P = 16
      BY <1>1, <2>2, <2>3, <2>4, <3>5
    <3> QED  BY <3>1, <3>2, <3>3, <3>4, <3>5
  <2> QED  BY <1>1, <1>4, <2>1, <2>5 DEF ShiftedBy
<1> QED  BY <1>2, <1>3, <1>4 DEF Wholes

\* No bit is the power of zero.
LEMMA NotYet ==
  ASSUME NEW mode \in Wholes, NEW m \in Nat \ {0}, m % 2 = 0, NEW v \in 0..m - 1
  PROVE  ShiftedBy(mode, m, v, v, 1)
<1>1. v * 1 = v /\ v % m = v /\ v \div 1 = v
  OBVIOUS
<1>2. Signed(v, m) \in Int
  BY DEF Signed
<1>3. Signed(v, m) \div 1 = Signed(v, m)
  BY <1>2
<1> QED  BY <1>1, <1>3 DEF ShiftedBy

\* The powers of two, up to the largest count.
LEMMA PowersOfTwo ==
  /\ TwoTo(0) = 1 /\ TwoTo(1) = 2 /\ TwoTo(2) = 4 /\ TwoTo(3) = 8 /\ TwoTo(4) = 16 /\ TwoTo(5) = 32
BY DEF TwoTo

\* Shifted by count is shifted by its power of two.
LEMMA ShiftedThrough ==
  ASSUME NEW mode \in Wholes, NEW m \in Nat \ {0}, m % 2 = 0, NEW v \in 0..m - 1, NEW count \in 0..5,
         NEW f \in Flags, NEW w, ShiftsTo(mode, m, v, count, f, w)
  PROVE  ShiftedBy(mode, m, v, w.v, TwoTo(count))
<1>1. mode \in Modes /\ f.c \in BOOLEAN
  BY DEF Wholes, Modes, Lefts, Rights, Flags
<1>2. PICK h : Recursed(h, mode, m, v, count, f.c) /\ w.v = h[count].v
  BY Zenon DEF ShiftsTo
<1>3. /\ h[0].v = v /\ h[0].c \in BOOLEAN
      /\ \A i \in 1..count : Between(h, mode, m, i)
  <2>1. Walked(h, mode, m, v, f.c, count)
    BY <1>1, <1>2, Walk
  <2> QED  BY <1>1, <2>1 DEF Walked
<1>4. ASSUME NEW i \in 1..count, NEW P \in {1, 2, 4, 8, 16}, ShiftedBy(mode, m, v, h[i - 1].v, P),
             h[i - 1].c \in BOOLEAN
      PROVE  ShiftedBy(mode, m, v, h[i].v, 2 * P) /\ h[i].c \in BOOLEAN
  <2>1. OnceIs(mode, m, h[i - 1].v, h[i - 1].c, h[i].v, h[i].c) /\ h[i].c \in BOOLEAN
    BY <1>3 DEF Between
  <2> QED  BY <1>4, <2>1, OnceMore
<1>5. ShiftedBy(mode, m, v, h[0].v, 1)
  BY <1>3, NotYet
<1>6. 1 <= count => ShiftedBy(mode, m, v, h[1].v, 2) /\ h[1].c \in BOOLEAN
  <2>1. ASSUME 1 <= count  PROVE ShiftedBy(mode, m, v, h[1].v, 2 * 1) /\ h[1].c \in BOOLEAN
    <3>1. 1 \in 1..count /\ 1 \in {1, 2, 4, 8, 16}
      BY <2>1
    <3>2. ShiftedBy(mode, m, v, h[1 - 1].v, 1) /\ h[1 - 1].c \in BOOLEAN
      BY <1>3, <1>5, <2>1
    <3> QED  BY <1>4, <3>1, <3>2, Zenon
  <2> QED  BY <2>1
<1>7. 2 <= count => ShiftedBy(mode, m, v, h[2].v, 4) /\ h[2].c \in BOOLEAN
  <2>1. ASSUME 2 <= count  PROVE ShiftedBy(mode, m, v, h[2].v, 2 * 2) /\ h[2].c \in BOOLEAN
    <3>1. 2 \in 1..count /\ 2 \in {1, 2, 4, 8, 16}
      BY <2>1
    <3>2. ShiftedBy(mode, m, v, h[2 - 1].v, 2) /\ h[2 - 1].c \in BOOLEAN
      BY <1>6, <2>1
    <3> QED  BY <1>4, <3>1, <3>2, Zenon
  <2> QED  BY <2>1
<1>8. 3 <= count => ShiftedBy(mode, m, v, h[3].v, 8) /\ h[3].c \in BOOLEAN
  <2>1. ASSUME 3 <= count  PROVE ShiftedBy(mode, m, v, h[3].v, 2 * 4) /\ h[3].c \in BOOLEAN
    <3>1. 3 \in 1..count /\ 4 \in {1, 2, 4, 8, 16}
      BY <2>1
    <3>2. ShiftedBy(mode, m, v, h[3 - 1].v, 4) /\ h[3 - 1].c \in BOOLEAN
      BY <1>7, <2>1
    <3> QED  BY <1>4, <3>1, <3>2, Zenon
  <2> QED  BY <2>1
<1>9. 4 <= count => ShiftedBy(mode, m, v, h[4].v, 16) /\ h[4].c \in BOOLEAN
  <2>1. ASSUME 4 <= count  PROVE ShiftedBy(mode, m, v, h[4].v, 2 * 8) /\ h[4].c \in BOOLEAN
    <3>1. 4 \in 1..count /\ 8 \in {1, 2, 4, 8, 16}
      BY <2>1
    <3>2. ShiftedBy(mode, m, v, h[4 - 1].v, 8) /\ h[4 - 1].c \in BOOLEAN
      BY <1>8, <2>1
    <3> QED  BY <1>4, <3>1, <3>2, Zenon
  <2> QED  BY <2>1
<1>10. 5 <= count => ShiftedBy(mode, m, v, h[5].v, 32) /\ h[5].c \in BOOLEAN
  <2>1. ASSUME 5 <= count  PROVE ShiftedBy(mode, m, v, h[5].v, 2 * 16) /\ h[5].c \in BOOLEAN
    <3>1. 5 \in 1..count /\ 16 \in {1, 2, 4, 8, 16}
      BY <2>1
    <3>2. ShiftedBy(mode, m, v, h[5 - 1].v, 16) /\ h[5 - 1].c \in BOOLEAN
      BY <1>9, <2>1
    <3> QED  BY <1>4, <3>1, <3>2, Zenon
  <2> QED  BY <2>1
<1>11. ShiftedBy(mode, m, v, h[count].v, TwoTo(count))
  <2>1. count \in {0, 1, 2, 3, 4, 5}
    OBVIOUS
  <2> QED  BY <1>5, <1>6, <1>7, <1>8, <1>9, <1>10, <2>1, PowersOfTwo
<1> QED  BY <1>2, <1>11

\* A shift by the counter.
LEMMA ShiftTwoMoves ==
  ASSUME AluTypes(alu), AluNext, NEW op \in Modes, NEW dst \in {"x0", "x1", "y0"}, Now(alu) = Two(op, dst, "n"),
         alu.r.n \in 0..5
  PROVE  \E w : Moves(alu, alu', dst, w) /\ ShiftsTo(op, alu.m, alu.r[dst], alu.r.n, alu.f, w)
<1>1. dst \in Names /\ "n" \in Names
  BY DEF Names
<1>2. op \notin {"mul", "imul", "div", "idiv", "aaa", "aas", "aam", "aad"}
  BY DEF Modes, Lefts, Rights
<1>3. Moves(alu, alu', dst, Result(alu, Two(op, dst, "n"), alu.r[dst], alu.r["n"]))
  BY <1>1, <1>2, TwoMoves
<1>4. Result(alu, Two(op, dst, "n"), alu.r[dst], alu.r["n"]) = Shift(op, alu.m, alu.r[dst], alu.r["n"], alu.f)
  BY DEF Modes, Lefts, Rights, Result, Two
<1>5. PICK w : w = Shift(op, alu.m, alu.r[dst], alu.r.n, alu.f)
  OBVIOUS
<1>6. alu.m \in Nat \ {0} /\ alu.m % 2 = 0 /\ alu.r[dst] \in 0..alu.m - 1 /\ alu.f \in Flags
  BY WidthsSplit DEF AluTypes, Numbers
<1>7. ShiftsTo(op, alu.m, alu.r[dst], alu.r.n, alu.f, w)
  BY <1>5, <1>6, ShiftExactly
<1>8. Moves(alu, alu', dst, w)
  BY <1>3, <1>4, <1>5
<1> QED  BY <1>7, <1>8

\* A shift by one.
LEMMA ShiftOneMoves ==
  ASSUME AluTypes(alu), AluNext, NEW op \in Modes, NEW dst \in {"x0", "x1", "y0"}, Now(alu) = One(op, dst)
  PROVE  \E w : Moves(alu, alu', dst, w) /\ ShiftsTo(op, alu.m, alu.r[dst], 1, alu.f, w)
<1>1. dst \in Names
  BY DEF Names
<1>2. op \notin {"mul", "imul", "div", "idiv", "aaa", "aas", "aam", "aad"}
  BY DEF Modes, Lefts, Rights
<1>3. Moves(alu, alu', dst, Result(alu, One(op, dst), alu.r[dst], 1))
  BY <1>1, <1>2, OneMoves
<1>4. Result(alu, One(op, dst), alu.r[dst], 1) = Shift(op, alu.m, alu.r[dst], 1, alu.f)
  BY DEF Modes, Lefts, Rights, Result, One
<1>5. PICK w : w = Shift(op, alu.m, alu.r[dst], 1, alu.f)
  OBVIOUS
<1>6. alu.m \in Nat \ {0} /\ alu.m % 2 = 0 /\ alu.r[dst] \in 0..alu.m - 1 /\ alu.f \in Flags
  BY WidthsSplit DEF AluTypes, Numbers
<1>7. ShiftsTo(op, alu.m, alu.r[dst], 1, alu.f, w)
  BY <1>5, <1>6, ShiftExactly
<1>8. Moves(alu, alu', dst, w)
  BY <1>3, <1>4, <1>5
<1> QED  BY <1>7, <1>8

\* The programs that count.
LEMMA CountCode ==
  ASSUME NEW g
  PROVE  /\ Code("shifted", g) = <<Two("shl", "x0", "n"), Two("shr", "x1", "n"), Two("sar", "y0", "n")>>
         /\ Code("rotated", g) = <<Two("rol", "x0", "n"), Two("ror", "x0", "n")>>
         /\ Code("rotated_with_carry", g) = <<Two("rcr", "x0", "n"), Two("rcl", "x0", "n")>>
<1>1. Code("shifted", g) = <<Two("shl", "x0", "n"), Two("shr", "x1", "n"), Two("sar", "y0", "n")>>
  BY DEF Code
<1>2. Code("rotated", g) = <<Two("rol", "x0", "n"), Two("ror", "x0", "n")>>
  BY DEF Code
<1>3. Code("rotated_with_carry", g) = <<Two("rcr", "x0", "n"), Two("rcl", "x0", "n")>>
  BY DEF Code
<1> QED  BY <1>1, <1>2, <1>3

\* A shift of each kind, by the same count.
CountKept(s) == s.given.n \in 0..5 /\ s.r.n = s.given.n

\* SF and ZF are those of the last operand.
Tested(s) == s.f.s = Sign(s.r.y0, s.m) /\ s.f.z = (s.r.y0 = 0)

\* The three shifts that have come to the instruction s.at.
ShiftedAt(s) ==
  /\ s.at \in 1..4 /\ CountKept(s)
  /\ s.at = 1 => s.r.x0 = s.given.x0
  /\ s.at <= 2 => s.r.x1 = s.given.x1
  /\ s.at <= 3 => s.r.y0 = s.given.y0
  /\ s.at >= 2 => ShiftedBy("shl", s.m, s.given.x0, s.r.x0, TwoTo(s.given.n))
  /\ s.at >= 3 => ShiftedBy("shr", s.m, s.given.x1, s.r.x1, TwoTo(s.given.n))
  /\ s.at = 4 => /\ ShiftedBy("sar", s.m, s.given.y0, s.r.y0, TwoTo(s.given.n))
                 /\ s.given.n # 0 => Tested(s)

\* A step of a shift or of a rotation by the counter.
CountMoves(s, t, mode, dst, w) ==
  /\ ShiftsTo(mode, s.m, s.r[dst], s.given.n, s.f, w)
  /\ AluTypes(t) /\ CountKept(t) /\ Carries(s, t) /\ t.trap = s.trap /\ t.at = s.at + 1 /\ t.f = w.f
  /\ t.r[dst] = w.v
  /\ \A k \in {"x0", "x1", "y0", "y1"} \ {dst} : t.r[k] = s.r[k]

\* A shift by the counter moves its operand only.
LEMMA CountNext ==
  ASSUME AluTypes(alu), AluNext, CountKept(alu), NEW mode \in Modes, NEW dst \in {"x0", "x1", "y0"},
         Now(alu) = Two(mode, dst, "n")
  PROVE  \E w : CountMoves(alu, alu', mode, dst, w)
<1>1. alu.given.n \in 0..5 /\ alu.r.n = alu.given.n
  BY DEF CountKept
<1>2. PICK w : Moves(alu, alu', dst, w) /\ ShiftsTo(mode, alu.m, alu.r[dst], alu.r.n, alu.f, w)
  BY <1>1, ShiftTwoMoves
<1>3. w.v \in 0..alu.m - 1 /\ w.f \in Flags
  BY <1>2, Zenon DEF ShiftsTo
<1>4. /\ AluTypes(alu') /\ Carries(alu, alu') /\ alu'.trap = alu.trap /\ alu'.at = alu.at + 1 /\ alu'.f = w.f
      /\ alu'.r.x0 = (IF dst = "x0" THEN w.v ELSE alu.r.x0)
      /\ alu'.r.x1 = (IF dst = "x1" THEN w.v ELSE alu.r.x1)
      /\ alu'.r.y0 = (IF dst = "y0" THEN w.v ELSE alu.r.y0)
      /\ alu'.r.y1 = alu.r.y1
      /\ alu'.r.n = alu.r.n
  BY <1>2, <1>3, MovesTypes DEF Names, Carries
<1>5. CountKept(alu')
  BY <1>1, <1>4 DEF CountKept, Carries
<1>6. alu'.r[dst] = w.v
  BY <1>4
<1>7. \A k \in {"x0", "x1", "y0", "y1"} \ {dst} : alu'.r[k] = alu.r[k]
  BY <1>4
<1>8. ShiftsTo(mode, alu.m, alu.r[dst], alu.given.n, alu.f, w)
  BY <1>1, <1>2
<1> QED  BY <1>4, <1>5, <1>6, <1>7, <1>8, Zenon DEF CountMoves

\* One of the three shifts leads to where the next one starts from.
LEMMA ShiftedNext ==
  ASSUME AluTypes(alu), alu.task = "shifted", ShiftedAt(alu), AluNext
  PROVE  AluTypes(alu') /\ alu'.task = alu.task /\ ShiftedAt(alu')
<1>1. Code(alu.task, alu.given) = <<Two("shl", "x0", "n"), Two("shr", "x1", "n"), Two("sar", "y0", "n")>>
  BY CountCode
<1>2. alu.at \in 1..3
  <2>1. Len(Code(alu.task, alu.given)) = 3
    BY <1>1
  <2>2. alu.at \in 1..4
    BY Zenon DEF ShiftedAt
  <2>3. alu.at \in 0..3
    BY <2>1, NotPast
  <2> QED  BY <2>2, <2>3
<1>3. /\ alu.at = 1 => Now(alu) = Two("shl", "x0", "n")
      /\ alu.at = 2 => Now(alu) = Two("shr", "x1", "n")
      /\ alu.at = 3 => Now(alu) = Two("sar", "y0", "n")
  BY <1>1, <1>2 DEF Now
<1>4. /\ CountKept(alu) /\ alu.given.n \in 0..5 /\ alu.m \in Nat \ {0} /\ alu.m % 2 = 0 /\ alu.f \in Flags
      /\ alu.given.x0 \in 0..alu.m - 1 /\ alu.given.x1 \in 0..alu.m - 1 /\ alu.given.y0 \in 0..alu.m - 1
  BY WidthsSplit DEF AluTypes, Numbers, ShiftedAt, CountKept
<1>5. {"shl", "shr", "sar"} \subseteq Modes /\ Wholes = {"shl", "shr", "sar"}
  BY DEF Modes, Lefts, Rights, Wholes
<1>6. CASE alu.at = 1
  <2>1. PICK w : CountMoves(alu, alu', "shl", "x0", w)
    BY <1>3, <1>4, <1>5, <1>6, CountNext
  <2>2. /\ AluTypes(alu') /\ CountKept(alu') /\ Carries(alu, alu') /\ alu'.at = alu.at + 1
        /\ alu'.r["x0"] = w.v /\ ShiftsTo("shl", alu.m, alu.r["x0"], alu.given.n, alu.f, w)
    BY <2>1, Zenon DEF CountMoves
  <2>3. alu'.r.x1 = alu.r.x1 /\ alu'.r.y0 = alu.r.y0
    BY <2>1 DEF CountMoves
  <2>4. alu.r["x0"] = alu.given.x0 /\ alu.r.x1 = alu.given.x1 /\ alu.r.y0 = alu.given.y0
    BY <1>6 DEF ShiftedAt
  <2>5. ShiftedBy("shl", alu.m, alu.given.x0, w.v, TwoTo(alu.given.n))
    BY <1>4, <1>5, <2>2, <2>4, ShiftedThrough
  <2>6. alu'.task = alu.task /\ alu'.given = alu.given /\ alu'.m = alu.m
    BY <2>2, Zenon DEF Carries
  <2>7. alu'.at = 2
    BY <1>6, <2>2
  <2> QED  BY <2>2, <2>3, <2>4, <2>5, <2>6, <2>7 DEF ShiftedAt
<1>7. CASE alu.at = 2
  <2>1. PICK w : CountMoves(alu, alu', "shr", "x1", w)
    BY <1>3, <1>4, <1>5, <1>7, CountNext
  <2>2. /\ AluTypes(alu') /\ CountKept(alu') /\ Carries(alu, alu') /\ alu'.at = alu.at + 1
        /\ alu'.r["x1"] = w.v /\ ShiftsTo("shr", alu.m, alu.r["x1"], alu.given.n, alu.f, w)
    BY <2>1, Zenon DEF CountMoves
  <2>3. alu'.r.x0 = alu.r.x0 /\ alu'.r.y0 = alu.r.y0
    BY <2>1 DEF CountMoves
  <2>4. /\ alu.r["x1"] = alu.given.x1 /\ alu.r.y0 = alu.given.y0
        /\ ShiftedBy("shl", alu.m, alu.given.x0, alu.r.x0, TwoTo(alu.given.n))
    BY <1>7 DEF ShiftedAt
  <2>5. ShiftedBy("shr", alu.m, alu.given.x1, w.v, TwoTo(alu.given.n))
    BY <1>4, <1>5, <2>2, <2>4, ShiftedThrough
  <2>6. alu'.task = alu.task /\ alu'.given = alu.given /\ alu'.m = alu.m
    BY <2>2, Zenon DEF Carries
  <2>7. alu'.at = 3
    BY <1>7, <2>2
  <2> QED  BY <2>2, <2>3, <2>4, <2>5, <2>6, <2>7 DEF ShiftedAt
<1>8. CASE alu.at = 3
  <2>1. PICK w : CountMoves(alu, alu', "sar", "y0", w)
    BY <1>3, <1>4, <1>5, <1>8, CountNext
  <2>2. /\ AluTypes(alu') /\ CountKept(alu') /\ Carries(alu, alu') /\ alu'.at = alu.at + 1 /\ alu'.f = w.f
        /\ alu'.r["y0"] = w.v /\ ShiftsTo("sar", alu.m, alu.r["y0"], alu.given.n, alu.f, w)
    BY <2>1, Zenon DEF CountMoves
  <2>3. alu'.r.x0 = alu.r.x0 /\ alu'.r.x1 = alu.r.x1
    BY <2>1 DEF CountMoves
  <2>4. /\ alu.r["y0"] = alu.given.y0
        /\ ShiftedBy("shl", alu.m, alu.given.x0, alu.r.x0, TwoTo(alu.given.n))
        /\ ShiftedBy("shr", alu.m, alu.given.x1, alu.r.x1, TwoTo(alu.given.n))
    BY <1>8 DEF ShiftedAt
  <2>5. ShiftedBy("sar", alu.m, alu.given.y0, w.v, TwoTo(alu.given.n))
    BY <1>4, <1>5, <2>2, <2>4, ShiftedThrough
  <2>6. alu'.task = alu.task /\ alu'.given = alu.given /\ alu'.m = alu.m
    BY <2>2, Zenon DEF Carries
  <2>7. alu'.at = 4
    BY <1>8, <2>2
  <2>8. alu.given.n # 0 => w.f.s = Sign(w.v, alu.m) /\ w.f.z = (w.v = 0)
    BY <2>2, Zenon DEF ShiftsTo
  <2>9. alu'.given.n # 0 => Tested(alu')
    BY <2>2, <2>6, <2>8, Zenon DEF Tested
  <2> QED  BY <2>2, <2>3, <2>4, <2>5, <2>6, <2>7, <2>9 DEF ShiftedAt
<1> QED  BY <1>2, <1>6, <1>7, <1>8

\* The bits of a signed number are those it was read from.
LEMMA SignedBack ==
  ASSUME NEW m \in Nat \ {0}, m % 2 = 0, NEW x \in 0..m - 1
  PROVE  Signed(x, m) % m = x /\ (Sign(x, m) <=> Signed(x, m) < 0) /\ Signed(x, m) \in Int
<1>1. PICK h \in Int : m = 2 * h /\ Half(m) = h
  BY DEF Half
<1>2. CASE x >= h
  <2>1. Signed(x, m) = m * (-1) + x /\ Sign(x, m)
    BY <1>1, <1>2 DEF Signed, Sign
  <2>2. (m * (-1) + x) % m = x
    BY Unique
  <2>3. m * (-1) + x < 0 /\ m * (-1) + x \in Int
    OBVIOUS
  <2> QED  BY <2>1, <2>2, <2>3
<1>3. CASE ~(x >= h)
  <2>1. Signed(x, m) = x /\ ~Sign(x, m)
    BY <1>1, <1>3 DEF Signed, Sign
  <2> QED  BY <2>1
<1> QED  BY <1>1, <1>2, <1>3

\* What the three shifts have to come to, by the power of two.
ShiftedWell(m, g, r, f, P) ==
  /\ r.x0 = (g.x0 * P) % m /\ r.x1 = g.x1 \div P
  /\ r.y0 = (Signed(g.y0, m) \div P) % m
  /\ g.n > 0 => f.z = (r.y0 = 0) /\ f.s = (Signed(r.y0, m) < 0)

\* Then they are exact.
LEMMA ShiftedExact ==
  ASSUME alu.task = "shifted", NEW g, NEW r, NEW f, ShiftedWell(alu.m, g, r, f, TwoTo(g.n))
  PROVE  ShiftExact(g, r, f)
<1>1. alu.task \notin {"doubled", "halved", "signed_halved"}
  OBVIOUS
<1> QED  BY <1>1, Zenon DEF ShiftExact, ShiftedWell

\* The three shifts that are done are exact.
LEMMA ShiftedDone ==
  ASSUME AluTypes(alu), alu.task = "shifted", ShiftedAt(alu), Done, ~alu.trap
  PROVE  ShiftExact(alu.given, alu.r, alu.f)
<1>1. alu.at = 4
  <2>1. Len(Code(alu.task, alu.given)) = 3
    BY CountCode
  <2>2. alu.at \in 1..4
    BY Zenon DEF ShiftedAt
  <2>3. alu.at \in Nat /\ alu.at > 3
    BY <2>1, RoutineDone, Zenon
  <2> QED  BY <2>2, <2>3
<1>2. /\ ShiftedBy("shl", alu.m, alu.given.x0, alu.r.x0, TwoTo(alu.given.n))
      /\ ShiftedBy("shr", alu.m, alu.given.x1, alu.r.x1, TwoTo(alu.given.n))
      /\ ShiftedBy("sar", alu.m, alu.given.y0, alu.r.y0, TwoTo(alu.given.n))
      /\ alu.given.n # 0 => Tested(alu)
      /\ alu.given.n \in 0..5
  BY <1>1 DEF ShiftedAt, CountKept
<1>3. PICK P : P = TwoTo(alu.given.n)
  OBVIOUS
<1>4. alu.r.x0 = (alu.given.x0 * P) % alu.m /\ alu.r.x1 = alu.given.x1 \div P
  BY <1>2, <1>3, Zenon DEF ShiftedBy
<1>5. Signed(alu.r.y0, alu.m) = Signed(alu.given.y0, alu.m) \div P
  BY <1>2, <1>3, Zenon DEF ShiftedBy
<1>6. /\ Signed(alu.r.y0, alu.m) % alu.m = alu.r.y0
      /\ (Sign(alu.r.y0, alu.m) <=> Signed(alu.r.y0, alu.m) < 0)
  <2>1. alu.m \in Nat \ {0} /\ alu.m % 2 = 0 /\ alu.r.y0 \in 0..alu.m - 1
    BY WidthsSplit DEF AluTypes, Numbers
  <2> QED  BY <2>1, SignedBack
<1>7. alu.r.y0 = (Signed(alu.given.y0, alu.m) \div P) % alu.m
  BY <1>5, <1>6, Zenon
<1>8. alu.given.n > 0 => alu.f.z = (alu.r.y0 = 0) /\ alu.f.s = (Signed(alu.r.y0, alu.m) < 0)
  <2>1. alu.given.n > 0 => Tested(alu)
    BY <1>2
  <2>2. Sign(alu.r.y0, alu.m) \in BOOLEAN
    BY DEF Sign
  <2>3. Sign(alu.r.y0, alu.m) = (Signed(alu.r.y0, alu.m) < 0)
    BY <1>6, <2>2
  <2> QED  BY <2>1, <2>3, Zenon DEF Tested
<1>9. ShiftedWell(alu.m, alu.given, alu.r, alu.f, P)
  BY <1>4, <1>7, <1>8, Zenon DEF ShiftedWell
<1> QED  BY <1>3, <1>9, ShiftedExact, Zenon

\* A rotation through the carry or without it is undone by the opposite one.
Turning(through) == IF through THEN "rcr" ELSE "rol"
TurningBack(through) == IF through THEN "rcl" ELSE "ror"

\* The one and the other, and what the one leaves the other in the carry.
Opposites(through, first, second) == first = Turning(through) /\ second = TurningBack(through)

HandsOn(through, d, e) == through => (e <=> d)

\* The operand is as it was, and so is the carry it was rotated through.
UndoneBy(through, v, c, y, g) == y = v /\ (through => (g <=> c))

\* One bit rotated there and back is where it was.
LEMMA UndoesOnce ==
  ASSUME NEW through \in BOOLEAN, NEW m \in Nat \ {0}, m % 2 = 0, NEW v \in 0..m - 1, NEW c, NEW x, NEW d,
         NEW e, NEW y, NEW g, NEW first, NEW second, Opposites(through, first, second),
         OnceIs(first, m, v, c, x, d), HandsOn(through, d, e), OnceIs(second, m, x, e, y, g)
  PROVE  UndoneBy(through, v, c, y, g)
<1>0. x \in 0..m - 1 /\ y \in 0..m - 1 /\ d \in BOOLEAN /\ g \in BOOLEAN
  BY Zenon DEF OnceIs
<1>1. PICK h \in Int : m = 2 * h /\ Half(m) = h
  BY DEF Half
<1>2. CASE through
  <2>1. OnceIs("rcr", m, v, c, x, d) /\ OnceIs("rcl", m, x, e, y, g) /\ (e <=> d)
    BY <1>2, Zenon DEF Turning, TurningBack, Opposites, HandsOn
  <2>2. (d <=> v % 2 = 1) /\ 2 * x + (IF d THEN 1 ELSE 0) = v + (IF c THEN m ELSE 0)
    BY <1>0, <2>1 DEF OnceIs, Lefts, Rights
  <2>3. (g <=> x >= h) /\ y = 2 * x - (IF g THEN m ELSE 0) + (IF d THEN 1 ELSE 0)
    BY <1>0, <1>1, <2>1 DEF OnceIs, Lefts, Rights
  <2>4. g <=> c
    <3>1. CASE c
      BY <1>0, <1>1, <2>2, <2>3, <3>1
    <3>2. CASE ~c
      BY <1>0, <1>1, <2>2, <2>3, <3>2
    <3> QED  BY <3>1, <3>2
  <2>5. y = v
    <3>1. CASE c
      BY <1>0, <1>1, <2>2, <2>3, <2>4, <3>1
    <3>2. CASE ~c
      BY <1>0, <1>1, <2>2, <2>3, <2>4, <3>2
    <3> QED  BY <3>1, <3>2
  <2> QED  BY <2>4, <2>5 DEF UndoneBy
<1>3. CASE ~through
  <2>1. OnceIs("rol", m, v, c, x, d) /\ OnceIs("ror", m, x, e, y, g)
    BY <1>3, Zenon DEF Turning, TurningBack, Opposites
  <2>2. (d <=> v >= h) /\ x = 2 * v - (IF d THEN m ELSE 0) + (IF d THEN 1 ELSE 0)
    BY <1>0, <1>1, <2>1 DEF OnceIs, Lefts, Rights
  <2>3. (g <=> x % 2 = 1) /\ 2 * y + (IF g THEN 1 ELSE 0) = x + (IF g THEN m ELSE 0)
    BY <1>0, <2>1 DEF OnceIs, Lefts, Rights
  <2>4. g <=> d
    BY <1>0, <1>1, <2>2, <2>3
  <2>5. y = v
    BY <1>0, <1>1, <2>2, <2>3, <2>4
  <2> QED  BY <1>3, <2>5 DEF UndoneBy
<1> QED  BY <1>2, <1>3

\* Alike, as far as the rotation goes through the carry.
SameAs(through, a, b) == a.v = b.v /\ (through => (a.c <=> b.c))

\* What the one leaves, the other is given: no count is too large for it.
Reversed(through, m, v, n, f, e, h, k) ==
  /\ Recursed(h, Turning(through), m, v, n, f.c) /\ HandsOn(through, h[n].c, e.c)
  /\ Recursed(k, TurningBack(through), m, h[n].v, n, e.c)

\* Rotated by any count and back, an operand is what it was.
LEMMA Reverses ==
  ASSUME NEW through \in BOOLEAN, NEW m \in Nat \ {0}, m % 2 = 0, NEW v \in 0..m - 1, NEW f \in Flags, NEW e \in Flags,
         NEW n \in 0..5, NEW h, NEW k, Reversed(through, m, v, n, f, e, h, k)
  PROVE  k[n].v = v
<1>a. PICK first, second, u : first = Turning(through) /\ second = TurningBack(through) /\ u = h[n].v
  OBVIOUS
<1>b. /\ Recursed(h, first, m, v, n, f.c) /\ HandsOn(through, h[n].c, e.c)
      /\ Recursed(k, second, m, u, n, e.c) /\ Opposites(through, first, second)
  BY <1>a, Zenon DEF Reversed, Opposites
<1>c. u = h[n].v
  BY <1>a
<1> USE <1>b, <1>c
<1>1. first \in Modes
  BY DEF Turning, TurningBack, Opposites, Modes, Lefts, Rights
<1>21. second \in Modes
  BY DEF Turning, TurningBack, Opposites, Modes, Lefts, Rights
<1>0. f.c \in BOOLEAN
  BY DEF Flags
<1>20. e.c \in BOOLEAN
  BY DEF Flags
<1>2. /\ h[0].v = v /\ h[0].c = f.c
      /\ \A i \in 1..n : Between(h, first, m, i)
  <2>1. Walked(h, first, m, v, f.c, n)
    BY <1>0, <1>1, Walk
  <2> QED  BY <2>1 DEF Walked
<1>3. ASSUME NEW i \in 0..n
      PROVE  h[i].v \in 0..m - 1 /\ h[i].c \in BOOLEAN
  <2>1. CASE i = 0
    BY <1>0, <1>2, <2>1
  <2>2. CASE i # 0
    BY <1>2, <2>2 DEF Between
  <2> QED  BY <2>1, <2>2
<1>4. h[n].v \in 0..m - 1
  BY <1>3
<1>5. /\ k[0].v = h[n].v /\ k[0].c = e.c
      /\ \A i \in 1..n : Between(k, second, m, i)
  <2>1. u \in 0..m - 1
    BY <1>4
  <2>2. /\ k[0].v = u /\ k[0].c = e.c
        /\ \A i \in 1..n : Between(k, second, m, i)
    <3>1. Recursed(k, second, m, u, n, e.c)
      BY <1>b
    <3> HIDE <1>b, <1>c
    <3>2. Walked(k, second, m, u, e.c, n)
      BY <1>20, <1>21, <2>1, <3>1, Walk
    <3> QED  BY <3>2 DEF Walked
  <2> QED  BY <2>2
<1>6. ASSUME NEW i \in 0..n
      PROVE  k[i].v \in 0..m - 1 /\ k[i].c \in BOOLEAN
  <2>1. CASE i = 0
    BY <1>20, <1>4, <1>5, <2>1
  <2>2. CASE i # 0
    BY <1>5, <2>2 DEF Between
  <2> QED  BY <2>1, <2>2
<1>7. ASSUME NEW i \in 0..4, i + 1 <= n, SameAs(through, k[i], h[n - i])
      PROVE  SameAs(through, k[i + 1], h[n - (i + 1)])
  <2>1. PICK j : j = n - i
    OBVIOUS
  <2>2. j \in 1..n /\ j - 1 \in 0..n /\ j - 1 = n - (i + 1) /\ i \in 0..n /\ i + 1 \in 1..n
    BY <1>7, <2>1
  <2>3. OnceIs(first, m, h[j - 1].v, h[j - 1].c, h[j].v, h[j].c)
    BY <1>2, <2>2 DEF Between
  <2>4. OnceIs(second, m, k[i].v, k[i].c, k[i + 1].v, k[i + 1].c)
    <3>1. Between(k, second, m, i + 1) /\ (i + 1) - 1 = i
      BY <1>5, <2>2
    <3> QED  BY <3>1 DEF Between
  <2>5. k[i].v = h[j].v /\ (through => (k[i].c <=> h[j].c))
    BY <1>7, <2>1, Zenon DEF SameAs
  <2>6. h[j - 1].v \in 0..m - 1
    BY <1>3, <2>2
  <2>8. OnceIs(second, m, h[j].v, k[i].c, k[i + 1].v, k[i + 1].c) /\ HandsOn(through, h[j].c, k[i].c)
    BY <2>4, <2>5, Zenon DEF HandsOn
  <2>9. UndoneBy(through, h[j - 1].v, h[j - 1].c, k[i + 1].v, k[i + 1].c)
    BY <2>3, <2>6, <2>8, UndoesOnce
  <2>10. k[i + 1].v = h[j - 1].v /\ (through => (k[i + 1].c <=> h[j - 1].c))
    BY <2>9, Zenon DEF UndoneBy
  <2>11. SameAs(through, k[i + 1], h[j - 1])
    BY <2>10, Zenon DEF SameAs
  <2> QED  BY <2>2, <2>11
<1>8. SameAs(through, k[0], h[n])
  BY <1>5, Zenon DEF SameAs, HandsOn
<1>9. 1 <= n => SameAs(through, k[1], h[n - 1])
  <2>1. ASSUME 1 <= n  PROVE SameAs(through, k[0 + 1], h[n - (0 + 1)])
    BY <1>7, <1>8, <2>1
  <2> QED  BY <2>1
<1>10. 2 <= n => SameAs(through, k[2], h[n - 2])
  <2>1. ASSUME 2 <= n  PROVE SameAs(through, k[1 + 1], h[n - (1 + 1)])
    BY <1>7, <1>9, <2>1
  <2> QED  BY <2>1
<1>11. 3 <= n => SameAs(through, k[3], h[n - 3])
  <2>1. ASSUME 3 <= n  PROVE SameAs(through, k[2 + 1], h[n - (2 + 1)])
    BY <1>7, <1>10, <2>1
  <2> QED  BY <2>1
<1>12. 4 <= n => SameAs(through, k[4], h[n - 4])
  <2>1. ASSUME 4 <= n  PROVE SameAs(through, k[3 + 1], h[n - (3 + 1)])
    BY <1>7, <1>11, <2>1
  <2> QED  BY <2>1
<1>13. 5 <= n => SameAs(through, k[5], h[n - 5])
  <2>1. ASSUME 5 <= n  PROVE SameAs(through, k[4 + 1], h[n - (4 + 1)])
    BY <1>7, <1>12, <2>1
  <2> QED  BY <2>1
<1>14. SameAs(through, k[n], h[0])
  <2>1. n \in {0, 1, 2, 3, 4, 5}
    OBVIOUS
  <2> QED  BY <1>8, <1>9, <1>10, <1>11, <1>12, <1>13, <2>1
<1> QED  BY <1>2, <1>14, Zenon DEF SameAs

\* A rotation there and back that has come to the instruction s.at.
RotatedAt(s, through) ==
  /\ s.at \in 1..3 /\ CountKept(s)
  /\ s.r.x1 = s.given.x1 /\ s.r.y0 = s.given.y0 /\ s.r.y1 = s.given.y1
  /\ s.at \in {1, 3} => s.r.x0 = s.given.x0
  /\ s.at = 2 => \E f \in Flags : \E h :
                   /\ Recursed(h, Turning(through), s.m, s.given.x0, s.given.n, f.c)
                   /\ s.r.x0 = h[s.given.n].v /\ s.f.c = h[s.given.n].c

\* The rotation back starts from the carry the one before left.
LEMMA RotatedNext ==
  ASSUME AluTypes(alu), NEW through \in BOOLEAN,
         alu.task = (IF through THEN "rotated_with_carry" ELSE "rotated"),
         RotatedAt(alu, through), AluNext
  PROVE  AluTypes(alu') /\ alu'.task = alu.task /\ RotatedAt(alu', through)
<1>1. Code(alu.task, alu.given) = <<Two(Turning(through), "x0", "n"), Two(TurningBack(through), "x0", "n")>>
  <2>1. CASE through
    BY <2>1, CountCode DEF Turning, TurningBack
  <2>2. CASE ~through
    BY <2>2, CountCode DEF Turning, TurningBack
  <2> QED  BY <2>1, <2>2
<1>2. alu.at \in 1..2
  <2>1. Len(Code(alu.task, alu.given)) = 2
    BY <1>1
  <2>2. alu.at \in 1..3
    BY Zenon DEF RotatedAt
  <2>3. alu.at \in 0..2
    BY <2>1, NotPast
  <2> QED  BY <2>2, <2>3
<1>3. /\ alu.at = 1 => Now(alu) = Two(Turning(through), "x0", "n")
      /\ alu.at = 2 => Now(alu) = Two(TurningBack(through), "x0", "n")
  BY <1>1, <1>2 DEF Now
<1>4. /\ CountKept(alu) /\ alu.given.n \in 0..5 /\ alu.m \in Nat \ {0} /\ alu.m % 2 = 0
      /\ alu.f \in Flags /\ alu.given.x0 \in 0..alu.m - 1
      /\ alu.r.x1 = alu.given.x1 /\ alu.r.y0 = alu.given.y0 /\ alu.r.y1 = alu.given.y1
  BY WidthsSplit DEF AluTypes, Numbers, RotatedAt, CountKept
<1>5. Turning(through) \in Modes /\ TurningBack(through) \in Modes
  BY DEF Turning, TurningBack, Modes, Lefts, Rights
<1>6. ASSUME NEW mode \in Modes, Now(alu) = Two(mode, "x0", "n")
      PROVE  \E w : /\ ShiftsTo(mode, alu.m, alu.r.x0, alu.given.n, alu.f, w)
                    /\ AluTypes(alu') /\ CountKept(alu') /\ alu'.task = alu.task /\ alu'.given = alu.given /\ alu'.m = alu.m
                    /\ alu'.at = alu.at + 1 /\ alu'.f = w.f /\ alu'.r.x0 = w.v
                    /\ alu'.r.x1 = alu.r.x1 /\ alu'.r.y0 = alu.r.y0 /\ alu'.r.y1 = alu.r.y1
  <2>1. PICK w : CountMoves(alu, alu', mode, "x0", w)
    BY <1>4, <1>6, CountNext
  <2>2. /\ AluTypes(alu') /\ CountKept(alu') /\ Carries(alu, alu') /\ alu'.at = alu.at + 1 /\ alu'.f = w.f
        /\ alu'.r["x0"] = w.v /\ ShiftsTo(mode, alu.m, alu.r["x0"], alu.given.n, alu.f, w)
    BY <2>1, Zenon DEF CountMoves
  <2>3. alu'.r.x1 = alu.r.x1 /\ alu'.r.y0 = alu.r.y0 /\ alu'.r.y1 = alu.r.y1
    BY <2>1 DEF CountMoves
  <2>4. alu'.task = alu.task /\ alu'.given = alu.given /\ alu'.m = alu.m
    BY <2>2, Zenon DEF Carries
  <2> QED  BY <2>2, <2>3, <2>4
<1>7. CASE alu.at = 1
  <2>1. PICK w : /\ ShiftsTo(Turning(through), alu.m, alu.r.x0, alu.given.n, alu.f, w)
                 /\ AluTypes(alu') /\ CountKept(alu') /\ alu'.task = alu.task /\ alu'.given = alu.given /\ alu'.m = alu.m
                 /\ alu'.at = alu.at + 1 /\ alu'.f = w.f /\ alu'.r.x0 = w.v
                 /\ alu'.r.x1 = alu.r.x1 /\ alu'.r.y0 = alu.r.y0 /\ alu'.r.y1 = alu.r.y1
    BY <1>3, <1>5, <1>6, <1>7
  <2>2. alu.r.x0 = alu.given.x0
    BY <1>7 DEF RotatedAt
  <2>3. PICK h : /\ Recursed(h, Turning(through), alu.m, alu.given.x0, alu.given.n, alu.f.c)
                 /\ w.v = h[alu.given.n].v /\ w.f.c = h[alu.given.n].c
    BY <2>1, <2>2, Zenon DEF ShiftsTo
  <2>4. \E f \in Flags : \E g :
          /\ Recursed(g, Turning(through), alu'.m, alu'.given.x0, alu'.given.n, f.c)
          /\ alu'.r.x0 = g[alu'.given.n].v /\ alu'.f.c = g[alu'.given.n].c
    BY <1>4, <2>1, <2>3, Zenon
  <2>5. alu'.at = 2
    BY <1>7, <2>1
  <2> QED  BY <1>4, <2>1, <2>4, <2>5 DEF RotatedAt
<1>8. CASE alu.at = 2
  <2>1. PICK w : /\ ShiftsTo(TurningBack(through), alu.m, alu.r.x0, alu.given.n, alu.f, w)
                 /\ AluTypes(alu') /\ CountKept(alu') /\ alu'.task = alu.task /\ alu'.given = alu.given /\ alu'.m = alu.m
                 /\ alu'.at = alu.at + 1 /\ alu'.f = w.f /\ alu'.r.x0 = w.v
                 /\ alu'.r.x1 = alu.r.x1 /\ alu'.r.y0 = alu.r.y0 /\ alu'.r.y1 = alu.r.y1
    BY <1>3, <1>5, <1>6, <1>8
  <2>4. PICK f \in Flags :
          \E h : /\ Recursed(h, Turning(through), alu.m, alu.given.x0, alu.given.n, f.c)
                 /\ alu.r.x0 = h[alu.given.n].v /\ alu.f.c = h[alu.given.n].c
    BY <1>8 DEF RotatedAt
  <2>2. PICK h : /\ Recursed(h, Turning(through), alu.m, alu.given.x0, alu.given.n, f.c)
                 /\ alu.r.x0 = h[alu.given.n].v /\ alu.f.c = h[alu.given.n].c
    BY <2>4
  <2>3. PICK k : /\ Recursed(k, TurningBack(through), alu.m, h[alu.given.n].v, alu.given.n, alu.f.c)
                 /\ w.v = k[alu.given.n].v
    BY <2>1, <2>2, Zenon DEF ShiftsTo
  <2>5. Reversed(through, alu.m, alu.given.x0, alu.given.n, f, alu.f, h, k)
    BY <2>2, <2>3, Zenon DEF Reversed, HandsOn
  <2>6. k[alu.given.n].v = alu.given.x0
    <3>1. alu.given.n \in 0..5 /\ alu.m \in Nat \ {0} /\ alu.m % 2 = 0 /\ alu.given.x0 \in 0..alu.m - 1 /\ alu.f \in Flags
      BY <1>4
    <3>2. f \in Flags
      BY <2>4
    <3> QED  BY <2>5, <3>1, <3>2, Reverses
  <2>7. alu'.at = 3 /\ alu'.r.x0 = alu'.given.x0
    BY <1>8, <2>1, <2>3, <2>6
  <2> QED  BY <1>4, <2>1, <2>7 DEF RotatedAt
<1> QED  BY <1>2, <1>7, <1>8

\* A rotation there and back is exact.
LEMMA RotatedDone ==
  ASSUME AluTypes(alu), NEW through \in BOOLEAN,
         alu.task = (IF through THEN "rotated_with_carry" ELSE "rotated"),
         RotatedAt(alu, through), Done, ~alu.trap
  PROVE  ShiftExact(alu.given, alu.r, alu.f)
<1>1. alu.at = 3
  <2>1. Len(Code(alu.task, alu.given)) = 2
    <3>1. CASE through
      BY <3>1, CountCode
    <3>2. CASE ~through
      BY <3>2, CountCode
    <3> QED  BY <3>1, <3>2
  <2>2. alu.at \in 1..3
    BY Zenon DEF RotatedAt
  <2>3. alu.at \in Nat /\ alu.at > 2
    BY <2>1, RoutineDone, Zenon
  <2> QED  BY <2>2, <2>3
<1>2. /\ alu.r.x0 = alu.given.x0 /\ alu.r.x1 = alu.given.x1 /\ alu.r.y0 = alu.given.y0
      /\ alu.r.y1 = alu.given.y1 /\ alu.r.n = alu.given.n
  BY <1>1 DEF RotatedAt, CountKept
<1>3. alu.r \in Numbers(alu.m) /\ alu.given \in Numbers(alu.m)
  BY DEF AluTypes
<1>4. alu.r = alu.given
  BY <1>2, <1>3 DEF Numbers
<1>5. alu.task \notin {"doubled", "halved", "signed_halved", "shifted"}
  OBVIOUS
<1> QED  BY <1>4, <1>5, Zenon DEF ShiftExact

\* One bit's worth, and a number of two operands shifted by two of them.
LEMMA OneShift ==
  ASSUME NEW mode \in Modes, NEW m \in Nat \ {0}, m % 2 = 0, NEW v \in 0..m - 1,
         NEW f \in Flags, NEW w, ShiftsTo(mode, m, v, 1, f, w)
  PROVE  OnceIs(mode, m, v, f.c, w.v, w.f.c)
<1>1. PICK h : Recursed(h, mode, m, v, 1, f.c) /\ w.v = h[1].v /\ w.f.c = h[1].c
  BY Zenon DEF ShiftsTo
<1>2. f.c \in BOOLEAN
  BY DEF Flags
<1>3. /\ h[0].v = v /\ h[0].c = f.c
      /\ \A i \in 1..1 : Between(h, mode, m, i)
  <2>1. Walked(h, mode, m, v, f.c, 1)
    BY <1>1, <1>2, Walk
  <2> QED  BY <2>1 DEF Walked
<1>4. OnceIs(mode, m, h[0].v, h[0].c, h[1].v, h[1].c)
  <2>1. Between(h, mode, m, 1)
    BY <1>3
  <2> QED  BY <2>1 DEF Between
<1> QED  BY <1>1, <1>3, <1>4, Zenon

\* The number of a lower and an upper operand.
Joined(m, lo, hi) == lo + m * hi

\* SHL of the lower and RCL of the upper operand are SHL of the whole.
LEMMA LeftPair ==
  ASSUME NEW m \in Nat \ {0}, m % 2 = 0, NEW a \in 0..m - 1, NEW b \in 0..m - 1,
         NEW d, NEW x0, NEW x1, NEW c1, NEW c2,
         OnceIs("shl", m, a, d, x0, c1), OnceIs("rcl", m, b, c1, x1, c2)
  PROVE  OnceIs("shl", m * m, Joined(m, a, b), d, Joined(m, x0, x1), c2)
<1>1. /\ x0 \in 0..m - 1 /\ c1 \in BOOLEAN
      /\ x0 = 2 * a - (IF c1 THEN m ELSE 0)
  BY DEF OnceIs, Lefts, Rights
<1>2. /\ x1 \in 0..m - 1 /\ c2 \in BOOLEAN
      /\ c2 <=> b >= Half(m)
      /\ x1 = 2 * b - (IF c2 THEN m ELSE 0) + (IF c1 THEN 1 ELSE 0)
  BY DEF OnceIs, Lefts, Rights
<1>3. /\ a + m * b \in 0..m * m - 1 /\ x0 + m * x1 \in 0..m * m - 1 /\ m * m \in Nat \ {0}
      /\ c2 <=> a + m * b >= Half(m * m)
  <2>1. IsWide(m, a, b) /\ IsWide(m, x0, x1)
    BY <1>1, <1>2, WideNumbers
  <2>2. /\ a + m * b \in 0..m * m - 1 /\ x0 + m * x1 \in 0..m * m - 1 /\ m * m \in Nat \ {0}
        /\ Sign(a + m * b, m * m) <=> Sign(b, m)
    BY <2>1, Zenon DEF IsWide
  <2> QED  BY <1>2, <2>2 DEF Sign
<1>4. x0 + m * x1 = 2 * (a + m * b) - (IF c2 THEN m * m ELSE 0)
  <2>1. m * b \in Int /\ m * x1 \in Int /\ m * m \in Int
    BY <1>2
  <2>2. m * x1 = 2 * (m * b) - (IF c2 THEN m * m ELSE 0) + (IF c1 THEN m ELSE 0)
    <3>1. CASE c1 /\ c2
      <4>1. x1 = 2 * b - m + 1
        BY <1>2, <3>1
      <4>2. m * (2 * b - m + 1) = 2 * (m * b) - m * m + m
        OBVIOUS
      <4> QED  BY <3>1, <4>1, <4>2
    <3>2. CASE c1 /\ ~c2
      <4>1. x1 = 2 * b + 1
        BY <1>2, <3>2
      <4>2. m * (2 * b + 1) = 2 * (m * b) + m
        OBVIOUS
      <4> QED  BY <2>1, <3>2, <4>1, <4>2
    <3>3. CASE ~c1 /\ c2
      <4>1. x1 = 2 * b - m
        BY <1>2, <3>3
      <4>2. m * (2 * b - m) = 2 * (m * b) - m * m
        OBVIOUS
      <4> QED  BY <2>1, <3>3, <4>1, <4>2
    <3>4. CASE ~c1 /\ ~c2
      <4>1. x1 = 2 * b
        BY <1>2, <3>4
      <4>2. m * (2 * b) = 2 * (m * b)
        OBVIOUS
      <4> QED  BY <2>1, <3>4, <4>1, <4>2
    <3> QED  BY <3>1, <3>2, <3>3, <3>4, <1>1, <1>2
  <2>3. PICK p, q, r : p = m * b /\ q = m * x1 /\ r = m * m
    OBVIOUS
  <2>4. p \in Int /\ q \in Int /\ r \in Int /\ q = 2 * p - (IF c2 THEN r ELSE 0) + (IF c1 THEN m ELSE 0)
    BY <2>1, <2>2, <2>3
  <2>5. x0 + q = 2 * (a + p) - (IF c2 THEN r ELSE 0)
    <3>1. CASE c1
      BY <1>1, <2>4, <3>1
    <3>2. CASE ~c1
      BY <1>1, <2>4, <3>2
    <3> QED  BY <3>1, <3>2
  <2> QED  BY <2>3, <2>5
<1>5. PICK W, X, Y : W = m * m /\ X = a + m * b /\ Y = x0 + m * x1
  OBVIOUS
<1>6. OnceIs("shl", W, X, d, Y, c2)
  <2>1. Y \in 0..W - 1 /\ c2 \in BOOLEAN /\ (c2 <=> X >= Half(W)) /\ Y = 2 * X - (IF c2 THEN W ELSE 0) /\ Y \in Int
    BY <1>2, <1>3, <1>4, <1>5
  <2>2. X \in Int /\ W \in Int
    BY <1>3, <1>5
  <2>3. Y = 2 * X - (IF c2 THEN W ELSE 0) + 0
    BY <2>1, <2>2
  <2> QED  BY <2>1, <2>3 DEF OnceIs, Lefts, Rights
<1> QED  BY <1>5, <1>6, Zenon DEF Joined

\* SHR or SAR of the upper and RCR of the lower operand are SHR or SAR of the whole.
LEMMA RightPair ==
  ASSUME NEW m \in Nat \ {0}, m % 2 = 0, NEW a \in 0..m - 1, NEW b \in 0..m - 1, NEW mode \in {"shr", "sar"},
         NEW d, NEW x0, NEW x1, NEW c1, NEW c2,
         OnceIs(mode, m, b, d, x1, c1), OnceIs("rcr", m, a, c1, x0, c2)
  PROVE  OnceIs(mode, m * m, Joined(m, a, b), d, Joined(m, x0, x1), c2)
<1>0. PICK top \in BOOLEAN : top <=> mode = "sar" /\ b >= Half(m)
  OBVIOUS
<1>1. /\ x1 \in 0..m - 1 /\ c1 \in BOOLEAN
      /\ 2 * x1 + (IF c1 THEN 1 ELSE 0) = b + (IF top THEN m ELSE 0)
  BY <1>0 DEF OnceIs, Lefts, Rights
<1>2. /\ x0 \in 0..m - 1 /\ c2 \in BOOLEAN
      /\ c2 <=> a % 2 = 1
      /\ 2 * x0 + (IF c2 THEN 1 ELSE 0) = a + (IF c1 THEN m ELSE 0)
  BY DEF OnceIs, Lefts, Rights
<1>3. /\ a + m * b \in 0..m * m - 1 /\ x0 + m * x1 \in 0..m * m - 1 /\ m * m \in Nat \ {0}
      /\ top <=> mode = "sar" /\ a + m * b >= Half(m * m)
  <2>1. IsWide(m, a, b) /\ IsWide(m, x0, x1)
    BY <1>1, <1>2, WideNumbers
  <2>2. /\ a + m * b \in 0..m * m - 1 /\ x0 + m * x1 \in 0..m * m - 1 /\ m * m \in Nat \ {0}
        /\ Sign(a + m * b, m * m) <=> Sign(b, m)
    BY <2>1, Zenon DEF IsWide
  <2> QED  BY <1>0, <2>2 DEF Sign
<1>4. 2 * (x0 + m * x1) + (IF c2 THEN 1 ELSE 0) = a + m * b + (IF top THEN m * m ELSE 0)
  <2>1. m * b \in Int /\ m * x1 \in Int /\ m * m \in Int
    BY <1>1
  <2>2. 2 * (m * x1) + (IF c1 THEN m ELSE 0) = m * b + (IF top THEN m * m ELSE 0)
    <3>1. PICK u, e : u = 2 * x1 + (IF c1 THEN 1 ELSE 0) /\ e = b + (IF top THEN m ELSE 0)
      OBVIOUS
    <3>2. u = e
      BY <1>1, <3>1
    <3>3. m * u = 2 * (m * x1) + (IF c1 THEN m ELSE 0)
      <4>1. m * (2 * x1 + 1) = 2 * (m * x1) + m /\ m * (2 * x1 + 0) = 2 * (m * x1)
        BY <1>1
      <4> QED  BY <1>1, <2>1, <3>1, <4>1
    <3>4. m * e = m * b + (IF top THEN m * m ELSE 0)
      <4>1. m * (b + m) = m * b + m * m /\ m * (b + 0) = m * b
        OBVIOUS
      <4> QED  BY <2>1, <3>1, <4>1
    <3>5. m * u = m * e
      BY <3>2, Zenon
    <3> QED  BY <3>3, <3>4, <3>5, Zenon
  <2>3. PICK p, q, r : p = m * b /\ q = m * x1 /\ r = m * m
    OBVIOUS
  <2>4. p \in Int /\ q \in Int /\ r \in Int /\ 2 * q + (IF c1 THEN m ELSE 0) = p + (IF top THEN r ELSE 0)
    BY <2>1, <2>2, <2>3
  <2>5. 2 * (x0 + q) + (IF c2 THEN 1 ELSE 0) = a + p + (IF top THEN r ELSE 0)
    <3>1. CASE c1
      BY <1>2, <2>4, <3>1
    <3>2. CASE ~c1
      BY <1>2, <2>4, <3>2
    <3> QED  BY <3>1, <3>2
  <2> QED  BY <2>3, <2>5
<1>5. PICK W, X, Y : W = m * m /\ X = a + m * b /\ Y = x0 + m * x1
  OBVIOUS
<1>6. OnceIs(mode, W, X, d, Y, c2)
  <2>1. /\ Y \in 0..W - 1 /\ c2 \in BOOLEAN /\ W \in Nat \ {0} /\ X \in Int
        /\ 2 * Y + (IF c2 THEN 1 ELSE 0) = X + (IF top THEN W ELSE 0)
        /\ (top <=> mode = "sar" /\ X >= Half(W))
    BY <1>2, <1>3, <1>4, <1>5
  <2>2. c2 <=> X % 2 = 1
    <3>1. PICK h \in Int : m = 2 * h
      OBVIOUS
    <3>2. m * b = 2 * (h * b) /\ h * b \in Int
      BY <3>1
    <3>3. PICK p \in Int : X = a + 2 * p
      BY <1>5, <3>2
    <3> QED  BY <1>2, <3>3
  <2> QED  BY <2>1, <2>2 DEF OnceIs, Lefts, Rights
<1> QED  BY <1>5, <1>6, Zenon DEF Joined

\* A number of two operands shifted k times by pairs of instructions: what
\* the first of a pair and the second of it are, and how far a pair is.
TaskOf(mode) == CASE mode = "shl" -> "doubled" [] mode = "shr" -> "halved" [] mode = "sar" -> "signed_halved"
Leading(mode) == IF mode = "shl" THEN One("shl", "x0") ELSE One(mode, "x1")
Trailing(mode) == IF mode = "shl" THEN One("rcl", "x1") ELSE One("rcr", "x0")

\* The programs of them alternate both instructions.
LEMMA HalvesCode ==
  ASSUME NEW mode \in Wholes, NEW g, g.n \in 0..5
  PROVE  /\ Len(Code(TaskOf(mode), g)) = 2 * g.n
         /\ \A k \in 1..2 * g.n : Code(TaskOf(mode), g)[k] = IF k % 2 = 1 THEN Leading(mode) ELSE Trailing(mode)
<1>1. Code("doubled", g) = Halves(One("shl", "x0"), One("rcl", "x1"), g)
  BY DEF Code
<1>2. Code("halved", g) = Halves(One("shr", "x1"), One("rcr", "x0"), g)
  BY DEF Code
<1>3. Code("signed_halved", g) = Halves(One("sar", "x1"), One("rcr", "x0"), g)
  BY DEF Code
<1>4. Code(TaskOf(mode), g) = Halves(Leading(mode), Trailing(mode), g)
  <2>1. CASE mode = "shl"
    BY <1>1, <2>1 DEF TaskOf, Leading, Trailing
  <2>2. CASE mode = "shr"
    BY <1>2, <2>2 DEF TaskOf, Leading, Trailing
  <2>3. CASE mode = "sar"
    BY <1>3, <2>3 DEF TaskOf, Leading, Trailing
  <2> QED  BY <2>1, <2>2, <2>3 DEF Wholes
<1>5. PICK low, upper, q, N : low = Leading(mode) /\ upper = Trailing(mode) /\ N = 2 * g.n
                             /\ q = Halves(low, upper, g)
  OBVIOUS
<1>6. N \in Nat
  BY <1>5
<1>7. q = [k \in 1..N |-> IF k % 2 = 1 THEN low ELSE upper]
  BY <1>5 DEF Halves
<1>8. q \in [1..N -> {low, upper}] /\ DOMAIN q = 1..N
  BY <1>7
<1>9. q \in Seq({low, upper})
  BY <1>6, <1>8, SeqDef
<1>10. Len(q) = N
  <2>1. Len(q) \in Nat /\ DOMAIN q = 1..Len(q)
    BY <1>9, LenProperties
  <2>2. PICK n \in Nat : n = Len(q) /\ 1..n = 1..N
    BY <1>8, <2>1
  <2>3. (n > 0 => n \in 1..N) /\ (N > 0 => N \in 1..n)
    BY <1>6, <2>2
  <2> QED  BY <1>6, <2>2, <2>3
<1> QED  BY <1>4, <1>5, <1>7, <1>10

\* One bit's worth of a shift or a rotation of x0 or of x1.
BitMoves(s, t, mode, dst) ==
  /\ AluTypes(t) /\ CountKept(t) /\ Carries(s, t) /\ t.trap = s.trap /\ t.at = s.at + 1
  /\ OnceIs(mode, s.m, s.r[dst], s.f.c, t.r[dst], t.f.c)
  /\ \A k \in {"x0", "x1"} \ {dst} : t.r[k] = s.r[k]

\* An instruction that shifts or rotates one operand by one bit.
LEMMA BitNext ==
  ASSUME AluTypes(alu), AluNext, CountKept(alu), NEW mode \in Modes, NEW dst \in {"x0", "x1"},
         Now(alu) = One(mode, dst)
  PROVE  BitMoves(alu, alu', mode, dst)
<1>1. PICK w : Moves(alu, alu', dst, w) /\ ShiftsTo(mode, alu.m, alu.r[dst], 1, alu.f, w)
  BY ShiftOneMoves
<1>2. w.v \in 0..alu.m - 1 /\ w.f \in Flags
  BY <1>1, Zenon DEF ShiftsTo
<1>3. /\ AluTypes(alu') /\ Carries(alu, alu') /\ alu'.trap = alu.trap /\ alu'.at = alu.at + 1 /\ alu'.f = w.f
      /\ alu'.r.x0 = (IF dst = "x0" THEN w.v ELSE alu.r.x0)
      /\ alu'.r.x1 = (IF dst = "x1" THEN w.v ELSE alu.r.x1)
      /\ alu'.r.n = alu.r.n
  BY <1>1, <1>2, MovesTypes DEF Names, Carries
<1>4. CountKept(alu')
  BY <1>3 DEF CountKept, Carries
<1>5. alu'.r[dst] = w.v /\ \A k \in {"x0", "x1"} \ {dst} : alu'.r[k] = alu.r[k]
  BY <1>3
<1>6. alu.m \in Nat \ {0} /\ alu.m % 2 = 0 /\ alu.r[dst] \in 0..alu.m - 1 /\ alu.f \in Flags
  BY WidthsSplit DEF AluTypes, Numbers
<1>7. OnceIs(mode, alu.m, alu.r[dst], alu.f.c, w.v, w.f.c)
  BY <1>1, <1>6, OneShift
<1>8. OnceIs(mode, alu.m, alu.r[dst], alu.f.c, alu'.r[dst], alu'.f.c)
  BY <1>3, <1>5, <1>7, Zenon
<1> QED  BY <1>3, <1>4, <1>5, <1>8, Zenon DEF BitMoves

\* The carry that has left the number with the last of the bits.
CarryIs(mode, m, v, c, Q) ==
  /\ mode = "shl" => (c <=> Sign((v * Q) % m, m))
  /\ mode = "shr" => (c <=> (v \div Q) % 2 = 1)

\* The carry of one bit more is the bit that number had there.
LEMMA CarryOut ==
  ASSUME NEW mode \in Wholes, NEW m, NEW v, NEW x, NEW Q, ShiftedBy(mode, m, v, x, Q),
         NEW d, NEW y, NEW c, OnceIs(mode, m, x, d, y, c)
  PROVE  CarryIs(mode, m, v, c, Q)
<1>1. CASE mode = "shl"
  <2>1. x = (v * Q) % m /\ (c <=> x >= Half(m))
    BY <1>1 DEF ShiftedBy, OnceIs, Lefts
  <2>2. c <=> Sign((v * Q) % m, m)
    BY <2>1, Zenon DEF Sign
  <2> QED  BY <1>1, <2>2 DEF CarryIs
<1>2. CASE mode = "shr"
  <2>1. x = v \div Q /\ (c <=> x % 2 = 1)
    BY <1>2 DEF ShiftedBy, OnceIs, Rights
  <2>2. c <=> (v \div Q) % 2 = 1
    BY <2>1, Zenon
  <2> QED  BY <1>2, <2>2 DEF CarryIs
<1>3. CASE mode = "sar"
  BY <1>3 DEF CarryIs
<1> QED  BY <1>1, <1>2, <1>3 DEF Wholes

\* The number that is shifted, and what it was.
Number(s) == Joined(s.m, s.r.x0, s.r.x1)
GivenNumber(s) == Joined(s.m, s.given.x0, s.given.x1)

\* Shifted k times, and shifted k times with the first half of another.
WholeAt(s, mode, k) ==
  /\ ShiftedBy(mode, s.m * s.m, GivenNumber(s), Number(s), TwoTo(k))
  /\ k # 0 => CarryIs(mode, s.m * s.m, GivenNumber(s), s.f.c, TwoTo(k - 1))

\* From a and b, the first half has come to x0 and b or to a and x1.
HalfFrom(mode, m, a, b, d, x0, x1, c) ==
  IF mode = "shl" THEN OnceIs("shl", m, a, d, x0, c) /\ x1 = b
  ELSE OnceIs(mode, m, b, d, x1, c) /\ x0 = a

\* Shifted k times, and the first of the next pair done.
HalfAt(s, mode, k) ==
  \E a, b \in 0..s.m - 1, d \in BOOLEAN :
    /\ ShiftedBy(mode, s.m * s.m, GivenNumber(s), Joined(s.m, a, b), TwoTo(k))
    /\ HalfFrom(mode, s.m, a, b, d, s.r.x0, s.r.x1, s.f.c)

\* The first of a pair shifts its half of the number.
LEMMA LeadingNext ==
  ASSUME AluTypes(alu), AluNext, CountKept(alu), NEW mode \in Wholes, NEW k, WholeAt(alu, mode, k),
         Now(alu) = Leading(mode)
  PROVE  /\ AluTypes(alu') /\ CountKept(alu') /\ Carries(alu, alu') /\ alu'.at = alu.at + 1
         /\ HalfAt(alu', mode, k)
<1>1. PICK dst \in {"x0", "x1"} : (mode = "shl" <=> dst = "x0")
  OBVIOUS
<1>2. mode \in Modes /\ Now(alu) = One(mode, dst)
  BY <1>1 DEF Wholes, Modes, Lefts, Rights, Leading
<1>3. BitMoves(alu, alu', mode, dst)
  BY <1>2, BitNext
<1>4. /\ AluTypes(alu') /\ CountKept(alu') /\ Carries(alu, alu') /\ alu'.at = alu.at + 1
      /\ OnceIs(mode, alu.m, alu.r[dst], alu.f.c, alu'.r[dst], alu'.f.c)
      /\ \A n \in {"x0", "x1"} \ {dst} : alu'.r[n] = alu.r[n]
  BY <1>3, Zenon DEF BitMoves
<1>5. alu'.m = alu.m /\ alu'.given = alu.given
  BY <1>4, Zenon DEF Carries
<1>6. alu.r.x0 \in 0..alu.m - 1 /\ alu.r.x1 \in 0..alu.m - 1 /\ alu.f.c \in BOOLEAN
  BY DEF AluTypes, Numbers, Flags
<1>7. HalfFrom(mode, alu.m, alu.r.x0, alu.r.x1, alu.f.c, alu'.r.x0, alu'.r.x1, alu'.f.c)
  <2>1. CASE mode = "shl"
    <3>1. dst = "x0" /\ alu'.r.x1 = alu.r.x1
      BY <1>1, <1>4, <2>1
    <3> QED  BY <1>4, <2>1, <3>1, Zenon DEF HalfFrom
  <2>2. CASE mode # "shl"
    <3>1. dst = "x1" /\ alu'.r.x0 = alu.r.x0
      BY <1>1, <1>4, <2>2
    <3> QED  BY <1>4, <2>2, <3>1, Zenon DEF HalfFrom
  <2> QED  BY <2>1, <2>2
<1>8. ShiftedBy(mode, alu.m * alu.m, GivenNumber(alu), Joined(alu.m, alu.r.x0, alu.r.x1), TwoTo(k))
  BY Zenon DEF WholeAt, Number
<1>9. GivenNumber(alu') = GivenNumber(alu)
  BY <1>5, Zenon DEF GivenNumber
<1>10. HalfAt(alu', mode, k)
  BY <1>5, <1>6, <1>7, <1>8, <1>9, Zenon DEF HalfAt
<1> QED  BY <1>4, <1>10

\* The pair of them shifts the whole number.
LEMMA PairShifts ==
  ASSUME NEW m \in Nat \ {0}, m % 2 = 0, NEW mode \in Wholes, NEW a \in 0..m - 1, NEW b \in 0..m - 1,
         NEW d, NEW x0, NEW x1, NEW c, HalfFrom(mode, m, a, b, d, x0, x1, c),
         NEW y0, NEW y1, NEW e,
         mode = "shl" => OnceIs("rcl", m, x1, c, y1, e) /\ y0 = x0,
         mode # "shl" => OnceIs("rcr", m, x0, c, y0, e) /\ y1 = x1
  PROVE  OnceIs(mode, m * m, Joined(m, a, b), d, Joined(m, y0, y1), e)
<1>1. CASE mode = "shl"
  <2>1. OnceIs("shl", m, a, d, y0, c) /\ OnceIs("rcl", m, b, c, y1, e)
    BY <1>1, Zenon DEF HalfFrom
  <2>2. OnceIs("shl", m * m, Joined(m, a, b), d, Joined(m, y0, y1), e)
    BY <2>1, LeftPair
  <2> QED  BY <1>1, <2>2
<1>2. CASE mode # "shl"
  <2>1. OnceIs(mode, m, b, d, y1, c) /\ OnceIs("rcr", m, a, c, y0, e)
    BY <1>2, Zenon DEF HalfFrom
  <2>2. mode \in {"shr", "sar"}
    BY <1>2 DEF Wholes
  <2> QED  BY <2>1, <2>2, RightPair
<1> QED  BY <1>1, <1>2

\* The whole number's modulus is even.
LEMMA WideEven ==
  ASSUME NEW m \in Nat \ {0}, m % 2 = 0
  PROVE  m * m \in Nat \ {0} /\ (m * m) % 2 = 0
<1>1. PICK h \in Nat : m = 2 * h /\ h > 0
  OBVIOUS
<1>2. m * m = 2 * (h * m) /\ h * m \in Nat /\ h * m > 0
  BY <1>1
<1>3. PICK p : p = h * m
  OBVIOUS
<1>4. m * m = 2 * p /\ p \in Nat /\ p > 0
  BY <1>2, <1>3
<1> QED  BY <1>4

\* Twice a power is the next one.
LEMMA NextPower ==
  ASSUME NEW k \in 0..4
  PROVE  TwoTo(k) \in {1, 2, 4, 8, 16} /\ TwoTo(k + 1) = 2 * TwoTo(k)
<1>1. k \in {0, 1, 2, 3, 4}
  OBVIOUS
<1> QED  BY <1>1, PowersOfTwo

\* The second of a pair completes one bit of the whole number.
LEMMA TrailingNext ==
  ASSUME AluTypes(alu), AluNext, CountKept(alu), NEW mode \in Wholes, NEW k \in 0..4, HalfAt(alu, mode, k),
         Now(alu) = Trailing(mode)
  PROVE  /\ AluTypes(alu') /\ CountKept(alu') /\ Carries(alu, alu') /\ alu'.at = alu.at + 1
         /\ WholeAt(alu', mode, k + 1)
<1>1. PICK dst \in {"x0", "x1"}, op \in {"rcl", "rcr"} :
        (mode = "shl" <=> dst = "x1") /\ (mode = "shl" <=> op = "rcl")
  OBVIOUS
<1>2. op \in Modes /\ Now(alu) = One(op, dst)
  BY <1>1 DEF Wholes, Modes, Lefts, Rights, Trailing
<1>3. BitMoves(alu, alu', op, dst)
  BY <1>2, BitNext
<1>4. /\ AluTypes(alu') /\ CountKept(alu') /\ Carries(alu, alu') /\ alu'.at = alu.at + 1
      /\ OnceIs(op, alu.m, alu.r[dst], alu.f.c, alu'.r[dst], alu'.f.c)
      /\ \A n \in {"x0", "x1"} \ {dst} : alu'.r[n] = alu.r[n]
  BY <1>3, Zenon DEF BitMoves
<1>5. alu'.m = alu.m /\ alu'.given = alu.given
  BY <1>4, Zenon DEF Carries
<1>6. alu.m \in Nat \ {0} /\ alu.m % 2 = 0 /\ alu.given.x0 \in 0..alu.m - 1 /\ alu.given.x1 \in 0..alu.m - 1
  BY WidthsSplit DEF AluTypes, Numbers
<1>7. PICK a \in 0..alu.m - 1, b \in 0..alu.m - 1, d \in BOOLEAN :
        /\ ShiftedBy(mode, alu.m * alu.m, GivenNumber(alu), Joined(alu.m, a, b), TwoTo(k))
        /\ HalfFrom(mode, alu.m, a, b, d, alu.r.x0, alu.r.x1, alu.f.c)
  BY Zenon DEF HalfAt
<1>8. mode = "shl" => OnceIs("rcl", alu.m, alu.r.x1, alu.f.c, alu'.r.x1, alu'.f.c) /\ alu'.r.x0 = alu.r.x0
  <2> HAVE mode = "shl"
  <2>1. dst = "x1" /\ op = "rcl" /\ alu'.r.x0 = alu.r.x0
    BY <1>1, <1>4
  <2> QED  BY <1>4, <2>1, Zenon
<1>9. mode # "shl" => OnceIs("rcr", alu.m, alu.r.x0, alu.f.c, alu'.r.x0, alu'.f.c) /\ alu'.r.x1 = alu.r.x1
  <2> HAVE mode # "shl"
  <2>1. dst = "x0" /\ op = "rcr" /\ alu'.r.x1 = alu.r.x1
    BY <1>1, <1>4
  <2> QED  BY <1>4, <2>1, Zenon
<1>10. PICK X, Z, Y, W, e : /\ X = GivenNumber(alu) /\ Z = Joined(alu.m, a, b) /\ W = alu.m * alu.m
                            /\ Y = Joined(alu.m, alu'.r.x0, alu'.r.x1) /\ e = alu'.f.c
  OBVIOUS
<1>11. OnceIs(mode, W, Z, d, Y, e)
  <2>1. OnceIs(mode, alu.m * alu.m, Joined(alu.m, a, b), d, Joined(alu.m, alu'.r.x0, alu'.r.x1), alu'.f.c)
    BY <1>6, <1>7, <1>8, <1>9, PairShifts
  <2> QED  BY <1>10, <2>1, Zenon
<1>12. ShiftedBy(mode, W, X, Z, TwoTo(k))
  BY <1>7, <1>10, Zenon
<1>13. W \in Nat \ {0} /\ W % 2 = 0 /\ X \in 0..W - 1
  <2>1. W \in Nat \ {0} /\ W % 2 = 0
    BY <1>6, <1>10, WideEven
  <2>2. IsWide(alu.m, alu.given.x0, alu.given.x1)
    BY <1>6, WideNumbers
  <2>3. X \in 0..W - 1
    BY <1>10, <2>2, Zenon DEF IsWide, Joined, GivenNumber
  <2> QED  BY <2>1, <2>3
<1>14. ShiftedBy(mode, W, X, Y, 2 * TwoTo(k))
  <2>1. PICK P \in {1, 2, 4, 8, 16} : P = TwoTo(k)
    BY NextPower
  <2>2. ShiftedBy(mode, W, X, Z, P)
    BY <1>12, <2>1
  <2>3. ShiftedBy(mode, W, X, Y, 2 * P)
    BY <1>11, <1>13, <2>2, OnceMore
  <2> QED  BY <2>1, <2>3
<1>15. CarryIs(mode, W, X, e, TwoTo(k))
  BY <1>11, <1>12, CarryOut
<1>16. TwoTo(k + 1) = 2 * TwoTo(k) /\ (k + 1) - 1 = k
  BY NextPower
<1>17. GivenNumber(alu') = X /\ Number(alu') = Y /\ alu'.m * alu'.m = W /\ alu'.f.c = e
  BY <1>5, <1>10, Zenon DEF GivenNumber, Number
<1>18. WholeAt(alu', mode, k + 1)
  BY <1>14, <1>15, <1>16, <1>17, Zenon DEF WholeAt
<1> QED  BY <1>4, <1>18

\* Shifted as many times as there were pairs, the number is what it is to be.
HalvesAt(s, mode) ==
  /\ CountKept(s)
  /\ \E k \in 0..s.given.n : \/ s.at = 2 * k + 1 /\ WholeAt(s, mode, k)
                             \/ k < s.given.n /\ s.at = 2 * k + 2 /\ HalfAt(s, mode, k)

\* An instruction of a pair leads to where the next one starts from.
LEMMA HalvesNext ==
  ASSUME AluTypes(alu), NEW mode \in Wholes, alu.task = TaskOf(mode), HalvesAt(alu, mode), AluNext
  PROVE  AluTypes(alu') /\ alu'.task = alu.task /\ HalvesAt(alu', mode)
<1>1. CountKept(alu) /\ alu.given.n \in 0..5
  BY Zenon DEF HalvesAt, CountKept
<1>2. PICK n \in 0..5 : n = alu.given.n
  BY <1>1
<1>3. /\ Len(Code(alu.task, alu.given)) = 2 * n
      /\ \A k \in 1..2 * n : Code(alu.task, alu.given)[k] = IF k % 2 = 1 THEN Leading(mode) ELSE Trailing(mode)
  BY <1>1, <1>2, HalvesCode
<1>4. alu.at \in 0..2 * n
  BY <1>3, NotPast
<1>5. PICK k \in 0..n : \/ alu.at = 2 * k + 1 /\ WholeAt(alu, mode, k)
                        \/ k < n /\ alu.at = 2 * k + 2 /\ HalfAt(alu, mode, k)
  BY <1>2, Zenon DEF HalvesAt
<1>6. k < n /\ k \in 0..4
  BY <1>4, <1>5
<1>7. CASE alu.at = 2 * k + 1 /\ WholeAt(alu, mode, k)
  <2>1. alu.at \in 1..2 * n /\ alu.at % 2 = 1
    BY <1>6, <1>7
  <2>2. Now(alu) = Leading(mode)
    BY <1>3, <2>1 DEF Now
  <2>3. /\ AluTypes(alu') /\ CountKept(alu') /\ Carries(alu, alu') /\ alu'.at = alu.at + 1
        /\ HalfAt(alu', mode, k)
    BY <1>1, <1>7, <2>2, LeadingNext
  <2>4. alu'.task = alu.task /\ alu'.given.n = n
    BY <1>2, <2>3, Zenon DEF Carries
  <2>5. alu'.at = 2 * k + 2
    BY <1>6, <1>7, <2>3
  <2>6. HalvesAt(alu', mode)
    BY <1>6, <2>3, <2>4, <2>5, Zenon DEF HalvesAt
  <2> QED  BY <2>3, <2>4, <2>6
<1>8. CASE alu.at = 2 * k + 2 /\ HalfAt(alu, mode, k)
  <2>1. alu.at \in 1..2 * n /\ alu.at % 2 = 0
    BY <1>6, <1>8
  <2>2. Now(alu) = Trailing(mode)
    BY <1>3, <2>1 DEF Now
  <2>3. /\ AluTypes(alu') /\ CountKept(alu') /\ Carries(alu, alu') /\ alu'.at = alu.at + 1
        /\ WholeAt(alu', mode, k + 1)
    BY <1>1, <1>6, <1>8, <2>2, TrailingNext
  <2>4. alu'.task = alu.task /\ alu'.given.n = n
    BY <1>2, <2>3, Zenon DEF Carries
  <2>5. alu'.at = 2 * (k + 1) + 1 /\ k + 1 \in 0..n
    BY <1>6, <1>8, <2>3
  <2>6. HalvesAt(alu', mode)
    BY <2>3, <2>4, <2>5, Zenon DEF HalvesAt
  <2> QED  BY <2>3, <2>4, <2>6
<1> QED  BY <1>5, <1>7, <1>8

\* The power below the last one, from which the carry comes.
LEMMA PowerBelow ==
  ASSUME NEW n \in 1..5
  PROVE  TwoTo(n) \div 2 = TwoTo(n - 1)
<1>1. n \in {1, 2, 3, 4, 5}
  OBVIOUS
<1> QED  BY <1>1, PowersOfTwo

\* When it is done, all pairs are.
LEMMA HalvesShifted ==
  ASSUME AluTypes(alu), NEW mode \in Wholes, alu.task = TaskOf(mode), HalvesAt(alu, mode), Done, ~alu.trap
  PROVE  WholeAt(alu, mode, alu.given.n) /\ alu.given.n \in 0..5
<1>1. alu.given.n \in 0..5
  BY Zenon DEF HalvesAt, CountKept
<1>2. PICK n \in 0..5 : n = alu.given.n
  BY <1>1
<1>3. Len(Code(alu.task, alu.given)) = 2 * n
  BY <1>1, <1>2, HalvesCode
<1>4. alu.at \in Nat /\ alu.at > 2 * n
  BY <1>3, RoutineDone
<1>5. PICK k \in 0..n : \/ alu.at = 2 * k + 1 /\ WholeAt(alu, mode, k)
                        \/ k < n /\ alu.at = 2 * k + 2 /\ HalfAt(alu, mode, k)
  BY <1>2, Zenon DEF HalvesAt
<1>6. k = n /\ WholeAt(alu, mode, k)
  BY <1>4, <1>5
<1> QED  BY <1>1, <1>2, <1>6

\* A number of two operands shifted by pairs is exact, with the carry that has left it.
LEMMA HalvesDone ==
  ASSUME AluTypes(alu), NEW mode \in Wholes, alu.task = TaskOf(mode), HalvesAt(alu, mode), Done, ~alu.trap
  PROVE  ShiftExact(alu.given, alu.r, alu.f)
<1>1. PICK X, Z, W, n, c, P : /\ X = XOf(alu.given) /\ Z = XOf(alu.r) /\ W = Wide /\ n = alu.given.n
                           /\ c = alu.f.c /\ P = TwoTo(n)
  OBVIOUS
<1>2. X = GivenNumber(alu) /\ Z = Number(alu) /\ W = alu.m * alu.m
  BY <1>1, Zenon DEF XOf, Wide, GivenNumber, Number, Joined
<1>3. WholeAt(alu, mode, n) /\ n \in 0..5
  BY <1>1, HalvesShifted
<1>4. ShiftedBy(mode, W, X, Z, P) /\ (n # 0 => CarryIs(mode, W, X, c, TwoTo(n - 1)))
  BY <1>1, <1>2, <1>3, Zenon DEF WholeAt
<1>5. ShiftedBy(mode, W, X, Z, P) /\ (n > 0 => CarryIs(mode, W, X, c, P \div 2))
  <2>1. n > 0 => P \div 2 = TwoTo(n - 1) /\ n # 0
    BY <1>1, <1>3, PowerBelow
  <2> QED  BY <1>4, <2>1, Zenon
<1>6. c \in BOOLEAN
  BY <1>1 DEF AluTypes, Flags
<1>7. CASE mode = "shl"
  <2>1. alu.task = "doubled"
    BY <1>7 DEF TaskOf
  <2>2. Z = (X * P) % W
    BY <1>5, <1>7, Zenon DEF ShiftedBy
  <2>3. n > 0 => c = Sign((X * (P \div 2)) % W, W)
    <3>1. n > 0 => (c <=> Sign((X * (P \div 2)) % W, W))
      BY <1>5, <1>7, Zenon DEF CarryIs
    <3>2. Sign((X * (P \div 2)) % W, W) \in BOOLEAN
      BY DEF Sign
    <3> QED  BY <1>6, <3>1, <3>2
  <2> QED  BY <1>1, <2>1, <2>2, <2>3, Zenon DEF ShiftExact
<1>8. CASE mode = "shr"
  <2>1. alu.task = "halved" /\ alu.task # "doubled"
    BY <1>8 DEF TaskOf
  <2>2. Z = X \div P
    BY <1>5, <1>8, Zenon DEF ShiftedBy
  <2>3. n > 0 => c = ((X \div (P \div 2)) % 2 = 1)
    <3>1. n > 0 => (c <=> (X \div (P \div 2)) % 2 = 1)
      BY <1>5, <1>8, Zenon DEF CarryIs
    <3> QED  BY <1>6, <3>1
  <2> QED  BY <1>1, <2>1, <2>2, <2>3, Zenon DEF ShiftExact
<1>9. CASE mode = "sar"
  <2>1. alu.task = "signed_halved" /\ alu.task # "doubled" /\ alu.task # "halved"
    BY <1>9 DEF TaskOf
  <2>2. Signed(Z, W) = Signed(X, W) \div P /\ Z \in 0..W - 1
    BY <1>5, <1>9, Zenon DEF ShiftedBy
  <2>3. W \in Nat \ {0} /\ W % 2 = 0
    <3>1. alu.m \in Nat \ {0} /\ alu.m % 2 = 0
      BY WidthsSplit
    <3> QED  BY <1>2, <3>1, WideEven
  <2>4. Signed(Z, W) % W = Z
    BY <2>2, <2>3, SignedBack
  <2>5. Z = (Signed(X, W) \div P) % W
    BY <2>2, <2>4, Zenon
  <2> QED  BY <1>1, <2>1, <2>5, Zenon DEF ShiftExact
<1> QED  BY <1>7, <1>8, <1>9 DEF Wholes

\* What is known of a program of every kind, wherever it has come to.
AluAt(s) ==
  /\ s.task \in {"sum", "cleared_sum"} => SumAt(s, SumPlace(s))
  /\ s.task = "difference" => DifferenceAt(s)
  /\ s.task = "negation" => NegationAt(s)
  /\ s.task = "complement" => ComplementAt(s)
  /\ s.task = "comparison" => ComparisonAt(s)
  /\ \A mode \in Wholes : s.task = TaskOf(mode) => HalvesAt(s, mode)
  /\ s.task = "shifted" => ShiftedAt(s)
  /\ \A through \in BOOLEAN : s.task = (IF through THEN "rotated_with_carry" ELSE "rotated") => RotatedAt(s, through)
  /\ \A signed \in BOOLEAN : s.task = (IF signed THEN "signed_product" ELSE "product") => ProductAt(s, signed)
  /\ \A signed \in BOOLEAN : s.task = (IF signed THEN "signed_quotient" ELSE "quotient") => QuotientAt(s, signed)
  /\ \A add \in BOOLEAN : s.task = (IF add THEN "decimal_sum" ELSE "decimal_difference") => DecimalAt(s, add)
  /\ \A add \in BOOLEAN : s.task = (IF add THEN "ascii_sum" ELSE "ascii_difference") => AsciiAt(s, add)
  /\ s.task = "ascii_product" => AsciiProductAt(s)

\* Only a program that divides is ever trapped.
Untrapped(s) ==
  /\ s.given.n \in 0..5 /\ s.at >= 1
  /\ s.trap => s.task \in ProductTasks \cup QuotientTasks

\* The inductive invariant.
AluInv(s) == AluTypes(s) /\ Untrapped(s) /\ AluAt(s)

\* What is known of a program is known after each instruction of it.
LEMMA AluAtNext ==
  ASSUME AluTypes(alu), AluAt(alu), AluNext
  PROVE  AluTypes(alu') /\ alu'.task = alu.task /\ AluAt(alu')
<1>1. alu.task \in Tasks
  BY DEF AluTypes
<1>2. CASE alu.task \in {"sum", "cleared_sum"}
  <2>1. AluTypes(alu') /\ alu'.task = alu.task /\ SumAt(alu', SumPlace(alu'))
    BY <1>2, SumNext DEF AluAt
  <2> QED  BY <1>2, <2>1 DEF AluAt, Wholes, TaskOf
<1>3. CASE alu.task = "difference"
  <2>1. AluTypes(alu') /\ alu'.task = alu.task /\ DifferenceAt(alu')
    BY <1>3, DifferenceNext DEF AluAt
  <2> QED  BY <1>3, <2>1 DEF AluAt, Wholes, TaskOf
<1>4. CASE alu.task = "negation"
  <2>1. AluTypes(alu') /\ alu'.task = alu.task /\ NegationAt(alu')
    BY <1>4, NegationNext DEF AluAt
  <2> QED  BY <1>4, <2>1 DEF AluAt, Wholes, TaskOf
<1>5. CASE alu.task = "complement"
  <2>1. AluTypes(alu') /\ alu'.task = alu.task /\ ComplementAt(alu')
    BY <1>5, ComplementNext DEF AluAt
  <2> QED  BY <1>5, <2>1 DEF AluAt, Wholes, TaskOf
<1>6. CASE alu.task = "comparison"
  <2>1. AluTypes(alu') /\ alu'.task = alu.task /\ ComparisonAt(alu')
    BY <1>6, ComparisonNext DEF AluAt
  <2> QED  BY <1>6, <2>1 DEF AluAt, Wholes, TaskOf
<1>7. CASE \E mode \in Wholes : alu.task = TaskOf(mode)
  <2>1. PICK mode \in Wholes : alu.task = TaskOf(mode)
    BY <1>7
  <2>2. AluTypes(alu') /\ alu'.task = alu.task /\ HalvesAt(alu', mode)
    BY <2>1, HalvesNext, Zenon DEF AluAt
  <2>3. \A m2 \in Wholes : TaskOf(m2) = TaskOf(mode) => m2 = mode
    BY <2>1 DEF Wholes, TaskOf
  <2>4. \A m2 \in Wholes : alu'.task = TaskOf(m2) => HalvesAt(alu', m2)
    BY <2>1, <2>2, <2>3
  <2>5. alu'.task \in {"doubled", "halved", "signed_halved"}
    BY <2>1, <2>2 DEF Wholes, TaskOf
  <2> QED  BY <2>2, <2>4, <2>5 DEF AluAt
<1>8. CASE alu.task = "shifted"
  <2>1. AluTypes(alu') /\ alu'.task = alu.task /\ ShiftedAt(alu')
    BY <1>8, ShiftedNext DEF AluAt
  <2> QED  BY <1>8, <2>1 DEF AluAt, Wholes, TaskOf
<1>9. CASE \E through \in BOOLEAN : alu.task = IF through THEN "rotated_with_carry" ELSE "rotated"
  <2>1. PICK through \in BOOLEAN : alu.task = IF through THEN "rotated_with_carry" ELSE "rotated"
    BY <1>9
  <2>2. AluTypes(alu') /\ alu'.task = alu.task /\ RotatedAt(alu', through)
    BY <2>1, RotatedNext, Zenon DEF AluAt
  <2>3. \A t2 \in BOOLEAN : alu'.task = (IF t2 THEN "rotated_with_carry" ELSE "rotated") => RotatedAt(alu', t2)
    BY <2>1, <2>2
  <2>4. alu'.task \in {"rotated_with_carry", "rotated"}
    BY <2>1, <2>2
  <2> QED  BY <2>2, <2>3, <2>4 DEF AluAt, Wholes, TaskOf
<1>10. CASE \E signed \in BOOLEAN : alu.task = IF signed THEN "signed_product" ELSE "product"
  <2>1. PICK signed \in BOOLEAN : alu.task = IF signed THEN "signed_product" ELSE "product"
    BY <1>10
  <2>2. AluTypes(alu') /\ alu'.task = alu.task /\ ProductAt(alu', signed)
    BY <2>1, ProductNext, Zenon DEF AluAt
  <2>3. \A t2 \in BOOLEAN : alu'.task = (IF t2 THEN "signed_product" ELSE "product") => ProductAt(alu', t2)
    BY <2>1, <2>2
  <2>4. alu'.task \in {"signed_product", "product"}
    BY <2>1, <2>2
  <2> QED  BY <2>2, <2>3, <2>4 DEF AluAt, Wholes, TaskOf
<1>11. CASE \E signed \in BOOLEAN : alu.task = IF signed THEN "signed_quotient" ELSE "quotient"
  <2>1. PICK signed \in BOOLEAN : alu.task = IF signed THEN "signed_quotient" ELSE "quotient"
    BY <1>11
  <2>2. AluTypes(alu') /\ alu'.task = alu.task /\ QuotientAt(alu', signed)
    BY <2>1, QuotientNext, Zenon DEF AluAt
  <2>3. \A t2 \in BOOLEAN : alu'.task = (IF t2 THEN "signed_quotient" ELSE "quotient") => QuotientAt(alu', t2)
    BY <2>1, <2>2
  <2>4. alu'.task \in {"signed_quotient", "quotient"}
    BY <2>1, <2>2
  <2> QED  BY <2>2, <2>3, <2>4 DEF AluAt, Wholes, TaskOf
<1>12. CASE \E add \in BOOLEAN : alu.task = IF add THEN "decimal_sum" ELSE "decimal_difference"
  <2>1. PICK add \in BOOLEAN : alu.task = IF add THEN "decimal_sum" ELSE "decimal_difference"
    BY <1>12
  <2>2. AluTypes(alu') /\ alu'.task = alu.task /\ DecimalAt(alu', add)
    BY <2>1, DecimalNext, Zenon DEF AluAt
  <2>3. \A t2 \in BOOLEAN : alu'.task = (IF t2 THEN "decimal_sum" ELSE "decimal_difference") => DecimalAt(alu', t2)
    BY <2>1, <2>2
  <2>4. alu'.task \in {"decimal_sum", "decimal_difference"}
    BY <2>1, <2>2
  <2> QED  BY <2>2, <2>3, <2>4 DEF AluAt, Wholes, TaskOf
<1>13. CASE \E add \in BOOLEAN : alu.task = IF add THEN "ascii_sum" ELSE "ascii_difference"
  <2>1. PICK add \in BOOLEAN : alu.task = IF add THEN "ascii_sum" ELSE "ascii_difference"
    BY <1>13
  <2>2. AluTypes(alu') /\ alu'.task = alu.task /\ AsciiAt(alu', add)
    BY <2>1, AsciiNext, Zenon DEF AluAt
  <2>3. \A t2 \in BOOLEAN : alu'.task = (IF t2 THEN "ascii_sum" ELSE "ascii_difference") => AsciiAt(alu', t2)
    BY <2>1, <2>2
  <2>4. alu'.task \in {"ascii_sum", "ascii_difference"}
    BY <2>1, <2>2
  <2> QED  BY <2>2, <2>3, <2>4 DEF AluAt, Wholes, TaskOf
<1>14. CASE alu.task = "ascii_product"
  <2>1. AluTypes(alu') /\ alu'.task = alu.task /\ AsciiProductAt(alu')
    BY <1>14, AsciiProductNext DEF AluAt
  <2> QED  BY <1>14, <2>1 DEF AluAt, Wholes, TaskOf
<1>15. \/ alu.task \in {"sum", "cleared_sum", "difference", "negation", "complement", "comparison"}
       \/ alu.task \in {"doubled", "halved", "signed_halved", "shifted", "rotated", "rotated_with_carry"}
       \/ alu.task \in {"product", "signed_product", "quotient", "signed_quotient"}
       \/ alu.task \in {"decimal_sum", "decimal_difference", "ascii_sum", "ascii_difference", "ascii_product"}
  BY <1>1 DEF Tasks, SumTasks, CountTasks, ProductTasks, QuotientTasks, DecimalTasks, AsciiTasks
<1>16. /\ TaskOf("shl") = "doubled" /\ TaskOf("shr") = "halved" /\ TaskOf("sar") = "signed_halved"
       /\ "shl" \in Wholes /\ "shr" \in Wholes /\ "sar" \in Wholes
  BY DEF TaskOf, Wholes
<1>17. CASE alu.task \in {"sum", "cleared_sum", "difference", "negation", "complement", "comparison", "shifted",
                          "ascii_product"}
  BY <1>2, <1>3, <1>4, <1>5, <1>6, <1>8, <1>14, <1>17
<1>18. CASE alu.task \in {"doubled", "halved", "signed_halved"}
  BY <1>7, <1>16, <1>18
<1>19. CASE alu.task \in {"rotated", "rotated_with_carry", "product", "signed_product", "quotient",
                          "signed_quotient", "decimal_sum", "decimal_difference", "ascii_sum", "ascii_difference"}
  BY <1>9, <1>10, <1>11, <1>12, <1>13, <1>19
<1> QED  BY <1>15, <1>17, <1>18, <1>19

\* No other program divides.
LEMMA Undivided ==
  ASSUME NEW task \in Tasks \ (ProductTasks \cup QuotientTasks), NEW g, g.n \in 0..5,
         NEW k \in Nat, k >= 1, k <= Len(Code(task, g))
  PROVE  Code(task, g)[k].op \notin {"div", "idiv"}
<1>1. CASE task \in SumTasks \cup {"comparison"}
  <2>1. task \in {"sum", "cleared_sum", "difference", "negation", "complement", "comparison"}
    BY <1>1 DEF SumTasks
  <2>2. CASE task = "sum"
    BY <2>2, SumCode DEF Two, One
  <2>3. CASE task = "cleared_sum"
    BY <2>3, SumCode DEF Two, One
  <2>4. CASE task = "difference"
    BY <2>4, SumCode DEF Two, One
  <2>5. CASE task = "negation"
    BY <2>5, SumCode DEF Two, One
  <2>6. CASE task = "complement"
    BY <2>6, SumCode DEF Two, One
  <2>7. CASE task = "comparison"
    BY <2>7, SumCode DEF Two, One
  <2> QED  BY <2>1, <2>2, <2>3, <2>4, <2>5, <2>6, <2>7
<1>2. CASE task \in {"shifted", "rotated", "rotated_with_carry"}
  <2>1. CASE task = "shifted"
    BY <2>1, CountCode DEF Two, One
  <2>2. CASE task = "rotated"
    BY <2>2, CountCode DEF Two, One
  <2>3. CASE task = "rotated_with_carry"
    BY <2>3, CountCode DEF Two, One
  <2> QED  BY <1>2, <2>1, <2>2, <2>3
<1>3. CASE task \in {"doubled", "halved", "signed_halved"}
  <2>1. PICK mode \in Wholes : task = TaskOf(mode)
    BY <1>3 DEF Wholes, TaskOf
  <2>2. PICK n \in Nat : n = 2 * g.n
    OBVIOUS
  <2>3. k \in 1..2 * g.n
    <3>1. Len(Code(task, g)) = 2 * g.n
      BY <2>1, HalvesCode
    <3> QED  BY <3>1
  <2>4. Code(task, g)[k] = Leading(mode) \/ Code(task, g)[k] = Trailing(mode)
    BY <2>1, <2>3, HalvesCode
  <2>5. Leading(mode).op \notin {"div", "idiv"} /\ Trailing(mode).op \notin {"div", "idiv"}
    BY DEF Wholes, Leading, Trailing, One
  <2> QED  BY <2>4, <2>5
<1>4. CASE task \in DecimalTasks \cup AsciiTasks
  <2>1. task \in {"decimal_sum", "decimal_difference", "ascii_sum", "ascii_difference", "ascii_product"}
    BY <1>4 DEF DecimalTasks, AsciiTasks
  <2>2. CASE task = "decimal_sum"
    BY <2>2, DecimalCode DEF Two, One
  <2>3. CASE task = "decimal_difference"
    BY <2>3, DecimalCode DEF Two, One
  <2>4. CASE task = "ascii_sum"
    BY <2>4, DecimalCode DEF Two, One
  <2>5. CASE task = "ascii_difference"
    BY <2>5, DecimalCode DEF Two, One
  <2>6. CASE task = "ascii_product"
    BY <2>6, DecimalCode DEF Two, One
  <2> QED  BY <2>1, <2>2, <2>3, <2>4, <2>5, <2>6
<1> QED  BY <1>1, <1>2, <1>3, <1>4 DEF Tasks, CountTasks

\* Every instruction goes on with the program, unless it is a division that traps.
LEMMA StepsOn ==
  ASSUME AluTypes(alu), AluNext
  PROVE  /\ alu'.given = alu.given
         /\ alu'.at = alu.at \/ alu'.at = alu.at + 1
         /\ alu'.trap = alu.trap \/ Now(alu).op \in {"div", "idiv"}
<1>1. CASE Calculate
  <2>1. PICK v, f : alu' = After(alu, v, f)
    BY <1>1, Zenon DEF Calculate
  <2>2. alu' = [alu EXCEPT !.r = [alu.r EXCEPT ![Now(alu).dst] = v], !.f = f, !.at = alu.at + 1]
    BY <2>1 DEF After, AluTypes
  <2> QED  BY <2>2 DEF AluTypes
<1>2. CASE MultiplyStep
  <2>1. PICK p : alu' = [alu EXCEPT !.r.x0 = p.lo, !.r.x1 = p.hi, !.f.c = p.c, !.f.o = p.c, !.at = @ + 1]
    BY <1>2, Zenon DEF MultiplyStep
  <2> QED  BY <2>1 DEF AluTypes
<1>3. CASE DivideStep
  <2>1. PICK d : alu' = IF d.trap THEN [alu EXCEPT !.trap = TRUE]
                        ELSE [alu EXCEPT !.r.x0 = d.q, !.r.x1 = d.r, !.at = @ + 1]
    BY <1>3, Zenon DEF DivideStep
  <2>2. Now(alu).op \in {"div", "idiv"}
    BY <1>3, Zenon DEF DivideStep
  <2> QED  BY <2>1, <2>2 DEF AluTypes
<1>4. CASE AsciiStep
  <2>1. CASE \E x : alu' = [alu EXCEPT !.r.x0 = x.al, !.r.x1 = x.ah, !.f = x.f, !.at = @ + 1]
    BY <2>1 DEF AluTypes
  <2>2. CASE \E x : alu' = [alu EXCEPT !.r.x0 = x.al, !.r.x1 = x.ah, !.f.c = FALSE, !.at = @ + 1]
    BY <2>2 DEF AluTypes
  <2>3. CASE alu' = [alu EXCEPT !.r.x0 = AsciiDivide(@, alu.r.x1, 10), !.r.x1 = 0, !.at = @ + 1]
    BY <2>3 DEF AluTypes
  <2> QED  BY <1>4, <2>1, <2>2, <2>3, Zenon DEF AsciiStep
<1> QED  BY <1>1, <1>2, <1>3, <1>4 DEF AluNext

\* Every step keeps the invariant.
LEMMA AluInvNext ==
  ASSUME AluInv(alu), AluNext
  PROVE  AluInv(alu')
<1>1. AluTypes(alu) /\ AluAt(alu) /\ Untrapped(alu)
  BY Zenon DEF AluInv
<1>2. AluTypes(alu') /\ alu'.task = alu.task /\ AluAt(alu')
  BY <1>1, AluAtNext
<1>3. /\ alu'.given = alu.given
      /\ alu'.at = alu.at \/ alu'.at = alu.at + 1
      /\ alu'.trap = alu.trap \/ Now(alu).op \in {"div", "idiv"}
  BY <1>1, StepsOn
<1>4. alu.given.n \in 0..5 /\ alu.at >= 1 /\ alu.at \in Nat /\ alu.task \in Tasks
  BY <1>1 DEF Untrapped, AluTypes
<1>5. ~(alu.at > Len(Code(alu.task, alu.given))) /\ ~alu.trap
  BY NextGoesOn, Zenon DEF Done
<1>6. ASSUME alu.task \notin ProductTasks \cup QuotientTasks
      PROVE  ~alu'.trap
  <2>1. alu.task \in {"doubled", "halved", "signed_halved"} => Len(Code(alu.task, alu.given)) \in Nat
    <3> HAVE alu.task \in {"doubled", "halved", "signed_halved"}
    <3>1. PICK mode \in Wholes : alu.task = TaskOf(mode)
      BY DEF Wholes, TaskOf
    <3> QED  BY <1>4, <3>1, HalvesCode
  <2>2. alu.task \notin {"doubled", "halved", "signed_halved"} => Len(Code(alu.task, alu.given)) \in Nat
    BY <1>4, <1>6, SumCode, CountCode, DecimalCode DEF Tasks, SumTasks, CountTasks, DecimalTasks, AsciiTasks
  <2>3. alu.at <= Len(Code(alu.task, alu.given))
    BY <1>4, <1>5, <2>1, <2>2
  <2>4. Now(alu).op \notin {"div", "idiv"}
    BY <1>4, <1>6, <2>3, Undivided, Zenon DEF Now
  <2> QED  BY <1>3, <1>5, <2>4
<1>7. Untrapped(alu')
  <2>1. alu'.at >= 1
    BY <1>3, <1>4
  <2> QED  BY <1>2, <1>3, <1>4, <1>6, <2>1, Zenon DEF Untrapped
<1> QED  BY <1>2, <1>7, Zenon DEF AluInv

\* Operands of a width, one by one.
LEMMA Fits ==
  ASSUME NEW m, NEW g, g = [x0 |-> g.x0, x1 |-> g.x1, y0 |-> g.y0, y1 |-> g.y1, n |-> g.n],
         g.x0 \in 0..m - 1, g.x1 \in 0..m - 1, g.y0 \in 0..m - 1, g.y1 \in 0..m - 1, g.n \in Nat
  PROVE  g \in Numbers(m)
BY DEF Numbers

\* What a program is given fits its operands.
LEMMA GivenFits ==
  ASSUME NEW task \in Tasks, NEW g \in Given(task), NEW m,
         m = IF task \in DecimalTasks \cup AsciiTasks THEN 256 ELSE Modulus
  PROVE  /\ g \in Numbers(m) /\ g.n \in 0..5
         /\ task \in SumTasks => g.n = 0
         /\ task \in DecimalTasks =>
              g.x0 \in Packed /\ g.x1 \in Packed /\ g.y0 \in Packed /\ g.y1 \in Packed
         /\ task \in AsciiTasks => g.x0 \in 0..9 /\ g.y0 \in 0..9 /\ g.x1 \in {0, 5}
<1>1. /\ Digits \subseteq 0..Modulus - 1 /\ Decimals \subseteq Packed
      /\ 0 \in 0..Modulus - 1 /\ Packed \subseteq 0..256 - 1
      /\ \A d \in {0, 5} \cup 0..9 : d \in 0..256 - 1
  BY AluAssumption DEF AluAssumption, Packed
<1>2. CASE task \in DecimalTasks
  <2>1. /\ task \notin AsciiTasks /\ task \notin CountTasks /\ task \notin ProductTasks
        /\ task \notin QuotientTasks /\ task # "comparison" /\ task \notin SumTasks
    BY <1>2 DEF DecimalTasks, AsciiTasks, CountTasks, ProductTasks, QuotientTasks, SumTasks
  <2>2. Given(task) = [x0 : Decimals, x1 : Decimals, y0 : Decimals, y1 : Decimals, n : {0}]
    BY <1>2, <2>1, Zenon DEF Given
  <2>3. /\ g = [x0 |-> g.x0, x1 |-> g.x1, y0 |-> g.y0, y1 |-> g.y1, n |-> g.n]
        /\ g.x0 \in Decimals /\ g.x1 \in Decimals /\ g.y0 \in Decimals /\ g.y1 \in Decimals /\ g.n \in {0}
    BY <2>2
  <2>4. m = 256
    BY <1>2, <2>1
  <2>5. g \in Numbers(m)
    BY <1>1, <2>3, <2>4, Fits
  <2> QED  BY <1>1, <1>2, <2>1, <2>3, <2>5
<1>3. CASE task \in AsciiTasks
  <2>1. /\ task \notin DecimalTasks /\ task \notin CountTasks /\ task \notin ProductTasks
        /\ task \notin QuotientTasks /\ task # "comparison" /\ task \notin SumTasks
    BY <1>3 DEF DecimalTasks, AsciiTasks, CountTasks, ProductTasks, QuotientTasks, SumTasks
  <2>2. Given(task) = [x0 : 0..9, x1 : {0, 5}, y0 : 0..9, y1 : {0}, n : {0}]
    BY <1>3, <2>1, Zenon DEF Given
  <2>3. /\ g = [x0 |-> g.x0, x1 |-> g.x1, y0 |-> g.y0, y1 |-> g.y1, n |-> g.n]
        /\ g.x0 \in 0..9 /\ g.x1 \in {0, 5} /\ g.y0 \in 0..9 /\ g.y1 \in {0} /\ g.n \in {0}
    BY <2>2
  <2>4. m = 256
    BY <1>3, <2>1
  <2>5. g \in Numbers(m)
    BY <1>1, <2>3, <2>4, Fits
  <2> QED  BY <1>1, <1>3, <2>1, <2>3, <2>5
<1>4. CASE task \in CountTasks
  <2>1. /\ task \notin DecimalTasks /\ task \notin AsciiTasks /\ task \notin ProductTasks
        /\ task \notin QuotientTasks /\ task # "comparison" /\ task \notin SumTasks
    BY <1>4 DEF DecimalTasks, AsciiTasks, CountTasks, ProductTasks, QuotientTasks, SumTasks
  <2>2. Given(task) = [x0 : Digits, x1 : Digits, y0 : Digits, y1 : {0}, n : 0..5]
    BY <1>4, <2>1, Zenon DEF Given
  <2>3. /\ g = [x0 |-> g.x0, x1 |-> g.x1, y0 |-> g.y0, y1 |-> g.y1, n |-> g.n]
        /\ g.x0 \in Digits /\ g.x1 \in Digits /\ g.y0 \in Digits /\ g.y1 \in {0} /\ g.n \in 0..5
    BY <2>2
  <2>4. m = Modulus
    BY <1>4, <2>1
  <2>5. g \in Numbers(m)
    BY <1>1, <2>3, <2>4, Fits
  <2> QED  BY <1>1, <1>4, <2>1, <2>3, <2>5
<1>5. CASE task \in ProductTasks
  <2>1. /\ task \notin DecimalTasks /\ task \notin AsciiTasks /\ task \notin CountTasks
        /\ task \notin QuotientTasks /\ task # "comparison" /\ task \notin SumTasks
    BY <1>5 DEF DecimalTasks, AsciiTasks, CountTasks, ProductTasks, QuotientTasks, SumTasks
  <2>2. Given(task) = [x0 : 0..Modulus - 1, x1 : {0}, y0 : 0..Modulus - 1, y1 : {0}, n : {0}]
    BY <1>5, <2>1, Zenon DEF Given
  <2>3. /\ g = [x0 |-> g.x0, x1 |-> g.x1, y0 |-> g.y0, y1 |-> g.y1, n |-> g.n]
        /\ g.x0 \in 0..Modulus - 1 /\ g.x1 \in {0} /\ g.y0 \in 0..Modulus - 1 /\ g.y1 \in {0} /\ g.n \in {0}
    BY <2>2
  <2>4. m = Modulus
    BY <1>5, <2>1
  <2>5. g \in Numbers(m)
    BY <1>1, <2>3, <2>4, Fits
  <2> QED  BY <1>1, <1>5, <2>1, <2>3, <2>5
<1>6. CASE task \in QuotientTasks
  <2>1. /\ task \notin DecimalTasks /\ task \notin AsciiTasks /\ task \notin CountTasks
        /\ task \notin ProductTasks /\ task # "comparison" /\ task \notin SumTasks
    BY <1>6 DEF DecimalTasks, AsciiTasks, CountTasks, ProductTasks, QuotientTasks, SumTasks
  <2>2. Given(task) = [x0 : 0..Modulus - 1, x1 : 0..Modulus - 1, y0 : Digits, y1 : {0}, n : {0}]
    BY <1>6, <2>1, Zenon DEF Given
  <2>3. /\ g = [x0 |-> g.x0, x1 |-> g.x1, y0 |-> g.y0, y1 |-> g.y1, n |-> g.n]
        /\ g.x0 \in 0..Modulus - 1 /\ g.x1 \in 0..Modulus - 1 /\ g.y0 \in Digits /\ g.y1 \in {0} /\ g.n \in {0}
    BY <2>2
  <2>4. m = Modulus
    BY <1>6, <2>1
  <2>5. g \in Numbers(m)
    BY <1>1, <2>3, <2>4, Fits
  <2> QED  BY <1>1, <1>6, <2>1, <2>3, <2>5
<1>7. CASE task = "comparison"
  <2>1. /\ task \notin DecimalTasks /\ task \notin AsciiTasks /\ task \notin CountTasks
        /\ task \notin ProductTasks /\ task \notin QuotientTasks /\ task \notin SumTasks
    BY <1>7 DEF DecimalTasks, AsciiTasks, CountTasks, ProductTasks, QuotientTasks, SumTasks
  <2>2. Given(task) = [x0 : 0..Modulus - 1, x1 : {0}, y0 : 0..Modulus - 1, y1 : {0}, n : {0}]
    BY <1>7, <2>1, Zenon DEF Given
  <2>3. /\ g = [x0 |-> g.x0, x1 |-> g.x1, y0 |-> g.y0, y1 |-> g.y1, n |-> g.n]
        /\ g.x0 \in 0..Modulus - 1 /\ g.x1 \in {0} /\ g.y0 \in 0..Modulus - 1 /\ g.y1 \in {0} /\ g.n \in {0}
    BY <2>2, SMTT(30)
  <2>4. m = Modulus
    BY <1>7, <2>1
  <2>5. g \in Numbers(m)
    BY <1>1, <2>3, <2>4, Fits, SMTT(30)
  <2> QED  BY <1>1, <1>7, <2>1, <2>3, <2>5
<1>8. CASE task \in SumTasks
  <2>1. /\ task \notin DecimalTasks /\ task \notin AsciiTasks /\ task \notin CountTasks
        /\ task \notin ProductTasks /\ task \notin QuotientTasks /\ task # "comparison"
    BY <1>8 DEF DecimalTasks, AsciiTasks, CountTasks, ProductTasks, QuotientTasks, SumTasks
  <2>2. Given(task) = [x0 : Digits, x1 : Digits, y0 : Digits, y1 : Digits, n : {0}]
    BY <1>8, <2>1, Zenon DEF Given
  <2>3. /\ g = [x0 |-> g.x0, x1 |-> g.x1, y0 |-> g.y0, y1 |-> g.y1, n |-> g.n]
        /\ g.x0 \in Digits /\ g.x1 \in Digits /\ g.y0 \in Digits /\ g.y1 \in Digits /\ g.n \in {0}
    BY <2>2, SMTT(30)
  <2>4. m = Modulus
    BY <1>8, <2>1
  <2>5. g \in Numbers(m)
    BY <1>1, <2>3, <2>4, Fits
  <2> QED  BY <1>1, <1>8, <2>1, <2>3, <2>5
<1> QED  BY <1>2, <1>3, <1>4, <1>5, <1>6, <1>7, <1>8 DEF Tasks

\* A program before its first instruction.
Fresh(s) ==
  /\ s.r = s.given /\ s.at = 1 /\ ~s.trap
  /\ s.given.n \in 0..5
  /\ s.task \in SumTasks => s.given.n = 0
  /\ s.task \in DecimalTasks =>
       s.given.x0 \in Packed /\ s.given.x1 \in Packed /\ s.given.y0 \in Packed /\ s.given.y1 \in Packed
  /\ s.task \in AsciiTasks => s.given.x0 \in 0..9 /\ s.given.y0 \in 0..9 /\ s.given.x1 \in {0, 5}
  /\ s.task \in DecimalTasks \cup AsciiTasks => ByteWide(s)

\* All programs start so.
LEMMA AluInitFresh ==
  ASSUME AluInit
  PROVE  AluTypes(alu) /\ Fresh(alu)
<1>0. PICK task \in Tasks, encoding \in Encodings, rep \in BOOLEAN, carry \in BOOLEAN :
        \E r \in Given(task) : (rep => task \in ProductTasks) /\ alu = Started(task, r, encoding, rep, carry)
  BY Zenon DEF AluInit
<1>1. PICK g \in Given(task) : (rep => task \in ProductTasks) /\ alu = Started(task, g, encoding, rep, carry)
  BY <1>0, Zenon
<1>2. PICK m : m = IF task \in DecimalTasks \cup AsciiTasks THEN 256 ELSE Modulus
  OBVIOUS
<1>3. alu = [task |-> task, given |-> g, r |-> g, encoding |-> encoding, rep |-> rep, m |-> m,
             f |-> [o |-> FALSE, c |-> carry, s |-> FALSE, z |-> FALSE, a |-> FALSE],
             at |-> 1, trap |-> FALSE]
  BY <1>1, <1>2, Zenon DEF Started
<1>4. /\ g \in Numbers(m) /\ g.n \in 0..5
      /\ task \in SumTasks => g.n = 0
      /\ task \in DecimalTasks =>
           g.x0 \in Packed /\ g.x1 \in Packed /\ g.y0 \in Packed /\ g.y1 \in Packed
      /\ task \in AsciiTasks => g.x0 \in 0..9 /\ g.y0 \in 0..9 /\ g.x1 \in {0, 5}
  BY <1>2, GivenFits
<1>5. m \in {Modulus, 256}
  BY <1>2
<1>6. [o |-> FALSE, c |-> carry, s |-> FALSE, z |-> FALSE, a |-> FALSE] \in Flags
  BY DEF Flags
<1>7. AluTypes(alu)
  BY <1>3, <1>4, <1>5, <1>6 DEF AluTypes
<1>8. task \in DecimalTasks \cup AsciiTasks => m = 256 /\ ~rep
  BY <1>1, <1>2 DEF DecimalTasks, AsciiTasks, ProductTasks
<1>9. alu.task = task /\ alu.given = g /\ alu.r = g /\ alu.at = 1 /\ ~alu.trap /\ alu.m = m /\ alu.rep = rep
  BY <1>3
<1>10. Fresh(alu)
  BY <1>4, <1>8, <1>9, Zenon DEF Fresh, ByteWide
<1> QED  BY <1>7, <1>10

\* Of a program that has not begun, what AluAt says is known.
LEMMA FreshAt ==
  ASSUME NEW s, AluTypes(s), Fresh(s)
  PROVE  AluAt(s)
<1>1. s.at = 1 /\ s.r = s.given /\ ~s.trap /\ s.given.n \in 0..5
  BY Zenon DEF Fresh
<1>2. s.task \in {"sum", "cleared_sum"} => SumAt(s, SumPlace(s))
  <2> HAVE s.task \in {"sum", "cleared_sum"}
  <2>1. s.given.n = 0
    BY DEF Fresh, SumTasks
  <2>2. SumPlace(s) = IF s.task = "sum" THEN 1 ELSE 0
    BY <1>1 DEF SumPlace
  <2>3. CASE s.task = "sum"
    <3>1. SumPlace(s) = 1
      BY <2>2, <2>3
    <3>2. SumAt(s, 1)
      BY <1>1, <2>1, <2>3 DEF SumAt
    <3> QED  BY <3>1, <3>2
  <2>4. CASE s.task = "cleared_sum"
    <3>1. SumPlace(s) = 0
      BY <2>2, <2>4
    <3>2. SumAt(s, 0)
      BY <1>1, <2>1, <2>4 DEF SumAt
    <3> QED  BY <3>1, <3>2
  <2> QED  BY <2>3, <2>4
<1>3. s.task = "difference" => DifferenceAt(s)
  <2> HAVE s.task = "difference"
  <2>1. s.given.n = 0
    BY DEF Fresh, SumTasks
  <2> QED  BY <1>1, <2>1 DEF DifferenceAt
<1>4. s.task = "negation" => NegationAt(s)
  BY <1>1 DEF NegationAt
<1>5. s.task = "complement" => ComplementAt(s)
  BY <1>1 DEF ComplementAt
<1>6. s.task = "comparison" => ComparisonAt(s)
  BY <1>1 DEF ComparisonAt
<1>7. \A mode \in Wholes : s.task = TaskOf(mode) => HalvesAt(s, mode)
  <2> TAKE mode \in Wholes
  <2>1. s.m \in Nat \ {0} /\ s.m % 2 = 0 /\ s.given.x0 \in 0..s.m - 1 /\ s.given.x1 \in 0..s.m - 1
    BY WidthsSplit DEF AluTypes, Numbers
  <2>2. PICK W, X : W = s.m * s.m /\ X = GivenNumber(s)
    OBVIOUS
  <2>3. W \in Nat \ {0} /\ W % 2 = 0
    BY <2>1, <2>2, WideEven
  <2>4. X \in 0..W - 1
    <3>1. IsWide(s.m, s.given.x0, s.given.x1)
      BY <2>1, WideNumbers
    <3> QED  BY <2>2, <3>1, Zenon DEF IsWide, GivenNumber, Joined
  <2>5. ShiftedBy(mode, W, X, X, 1)
    BY <2>3, <2>4, NotYet
  <2>6. Number(s) = X
    BY <1>1, <2>2, Zenon DEF Number, GivenNumber
  <2>7. WholeAt(s, mode, 0)
    BY <2>2, <2>5, <2>6, PowersOfTwo, Zenon DEF WholeAt
  <2>8. CountKept(s)
    BY <1>1, Zenon DEF CountKept
  <2>9. 0 \in 0..s.given.n /\ s.at = 2 * 0 + 1
    BY <1>1
  <2> QED  BY <2>7, <2>8, <2>9, Zenon DEF HalvesAt
<1>8. s.task = "shifted" => ShiftedAt(s)
  BY <1>1 DEF ShiftedAt, CountKept
<1>9. \A through \in BOOLEAN : s.task = (IF through THEN "rotated_with_carry" ELSE "rotated") => RotatedAt(s, through)
  BY <1>1 DEF RotatedAt, CountKept
<1>10. \A signed \in BOOLEAN : s.task = (IF signed THEN "signed_product" ELSE "product") => ProductAt(s, signed)
  BY <1>1 DEF ProductAt
<1>11. \A signed \in BOOLEAN : s.task = (IF signed THEN "signed_quotient" ELSE "quotient") => QuotientAt(s, signed)
  BY <1>1 DEF QuotientAt
<1>12. \A add \in BOOLEAN : s.task = (IF add THEN "decimal_sum" ELSE "decimal_difference") => DecimalAt(s, add)
  <2> TAKE add \in BOOLEAN
  <2> HAVE s.task = IF add THEN "decimal_sum" ELSE "decimal_difference"
  <2>1. s.task \in DecimalTasks
    BY DEF DecimalTasks
  <2>2. /\ s.given.x0 \in Packed /\ s.given.x1 \in Packed /\ s.given.y0 \in Packed /\ s.given.y1 \in Packed
        /\ ByteWide(s)
    BY <2>1 DEF Fresh
  <2> QED  BY <1>1, <2>2 DEF DecimalAt
<1>13. \A add \in BOOLEAN : s.task = (IF add THEN "ascii_sum" ELSE "ascii_difference") => AsciiAt(s, add)
  <2> TAKE add \in BOOLEAN
  <2> HAVE s.task = IF add THEN "ascii_sum" ELSE "ascii_difference"
  <2>1. s.task \in AsciiTasks
    BY DEF AsciiTasks
  <2>2. s.given.x0 \in 0..9 /\ s.given.y0 \in 0..9 /\ s.given.x1 \in {0, 5} /\ ByteWide(s)
    BY <2>1 DEF Fresh
  <2> QED  BY <1>1, <2>2 DEF AsciiAt
<1>14. s.task = "ascii_product" => AsciiProductAt(s)
  <2> HAVE s.task = "ascii_product"
  <2>1. s.task \in AsciiTasks
    BY DEF AsciiTasks
  <2>2. s.given.x0 \in 0..9 /\ s.given.y0 \in 0..9 /\ s.given.x1 \in {0, 5} /\ ByteWide(s)
    BY <2>1 DEF Fresh
  <2> QED  BY <1>1, <2>2 DEF AsciiProductAt
<1> QED  BY <1>2, <1>3, <1>4, <1>5, <1>6, <1>7, <1>8, <1>9, <1>10, <1>11, <1>12, <1>13, <1>14, Zenon DEF AluAt

\* The invariant holds of every program, encoding and prefix.
LEMMA AluInvHolds == AluSpec => []AluInv(alu)
<1>1. AluInit => AluInv(alu)
  <2> HAVE AluInit
  <2>1. AluTypes(alu) /\ Fresh(alu)
    BY AluInitFresh
  <2>2. AluAt(alu)
    BY <2>1, FreshAt
  <2>3. Untrapped(alu)
    BY <2>1 DEF Fresh, Untrapped
  <2> QED  BY <2>1, <2>2, <2>3 DEF AluInv
<1>2. AluInv(alu) /\ [AluNext]_alu => AluInv(alu')
  <2> HAVE AluInv(alu) /\ [AluNext]_alu
  <2>1. CASE AluNext
    BY <2>1, AluInvNext
  <2>2. CASE UNCHANGED alu
    BY <2>2, Zenon
  <2> QED  BY <2>1, <2>2
<1>3. AluInv(alu') <=> AluInv(alu)'
  OBVIOUS
<1>4. AluInv(alu) /\ [AluNext]_alu => AluInv(alu)'
  BY <1>2, <1>3
<1> QED  BY <1>1, <1>4, PTL DEF AluSpec

\* The invariant says what each program must come to when it is done, and when it may trap.
LEMMA AluInvExact ==
  ASSUME AluInv(alu)
  PROVE  AluExact
<1>1. AluTypes(alu) /\ Untrapped(alu) /\ AluAt(alu)
  BY Zenon DEF AluInv
<1>2. alu.task \in Tasks
  BY <1>1 DEF AluTypes
<1>3. CASE alu.task \in ProductTasks
  <2>1. PICK signed \in BOOLEAN : alu.task = IF signed THEN "signed_product" ELSE "product"
    BY <1>3 DEF ProductTasks
  <2>2. (alu.at = 1 /\ ~alu.trap) \/ ProductExact(alu.given, alu.r)
    BY <1>1, <2>1, ProductDone, Zenon DEF AluAt
  <2> QED  BY <1>3, <2>2, Zenon DEF AluExact
<1>4. CASE alu.task \notin ProductTasks /\ ~Done
  BY <1>4, Zenon DEF AluExact
<1>5. CASE alu.task \in QuotientTasks /\ Done
  <2>1. PICK signed \in BOOLEAN : alu.task = IF signed THEN "signed_quotient" ELSE "quotient"
    BY <1>5 DEF QuotientTasks
  <2>2. QuotientExact(alu.given, alu.r)
    BY <1>1, <1>5, <2>1, QuotientDone, Zenon DEF AluAt
  <2>3. /\ alu.task \notin ProductTasks /\ alu.task \notin CountTasks
        /\ alu.task \notin {"sum", "cleared_sum"} /\ alu.task # "difference" /\ alu.task # "negation"
        /\ alu.task # "complement" /\ alu.task # "comparison"
    BY <1>5 DEF QuotientTasks, ProductTasks, CountTasks
  <2> QED  BY <1>5, <2>2, <2>3, Zenon DEF AluExact
<1>6. CASE alu.task \notin ProductTasks /\ alu.task \notin QuotientTasks /\ Done
  <2>1. ~alu.trap
    BY <1>1, <1>6 DEF Untrapped
  <2>2. CASE alu.task \in {"sum", "cleared_sum"}
    <3>1. SumExact(XOf(alu.given), YOf(alu.given), XOf(alu.r), alu.f)
      BY <1>1, <1>6, <2>1, <2>2, SumDone, Zenon DEF AluAt
    <3>2. alu.task # "difference" /\ alu.task # "negation" /\ alu.task # "complement" /\ alu.task # "comparison"
          /\ alu.task \notin CountTasks
      BY <2>2 DEF CountTasks
    <3> QED  BY <1>6, <2>2, <3>1, <3>2, Zenon DEF AluExact
  <2>3. CASE alu.task = "difference"
    <3>1. DifferenceExact(XOf(alu.given), YOf(alu.given), XOf(alu.r), alu.f)
      BY <1>1, <1>6, <2>1, <2>3, DifferenceDone, Zenon DEF AluAt
    <3>2. alu.task \notin {"sum", "cleared_sum"} /\ alu.task # "negation" /\ alu.task # "complement"
          /\ alu.task # "comparison" /\ alu.task \notin CountTasks
      BY <2>3 DEF CountTasks
    <3> QED  BY <1>6, <2>3, <3>1, <3>2, Zenon DEF AluExact
  <2>4. CASE alu.task = "negation"
    <3>1. XOf(alu.r) = (-XOf(alu.given)) % Wide
      BY <1>1, <1>6, <2>1, <2>4, NegationDone, Zenon DEF AluAt
    <3>2. alu.task \notin {"sum", "cleared_sum"} /\ alu.task # "difference" /\ alu.task # "complement"
          /\ alu.task # "comparison" /\ alu.task \notin CountTasks
      BY <2>4 DEF CountTasks
    <3> QED  BY <1>6, <2>4, <3>1, <3>2, Zenon DEF AluExact
  <2>5. CASE alu.task = "complement"
    <3>1. alu.r.x0 = Wrap(-alu.given.x0, alu.m) /\ alu.r.x1 + alu.given.x1 = alu.m - 1
      BY <1>1, <1>6, <2>1, <2>5, ComplementDone, Zenon DEF AluAt
    <3>2. alu.task \notin {"sum", "cleared_sum"} /\ alu.task # "difference" /\ alu.task # "negation"
          /\ alu.task # "comparison" /\ alu.task \notin CountTasks
      BY <2>5 DEF CountTasks
    <3> QED  BY <1>6, <2>5, <3>1, <3>2, Zenon DEF AluExact
  <2>6. CASE alu.task = "comparison"
    <3>1. alu.r = alu.given /\ JumpsDecide(alu.given.x0, alu.given.y0, alu.m, alu.f)
      BY <1>1, <1>6, <2>1, <2>6, ComparisonDone, Zenon DEF AluAt
    <3>2. alu.task \notin {"sum", "cleared_sum"} /\ alu.task # "difference" /\ alu.task # "negation"
          /\ alu.task # "complement" /\ alu.task \notin CountTasks
      BY <2>6 DEF CountTasks
    <3> QED  BY <1>6, <2>6, <3>1, <3>2, Zenon DEF AluExact
  <2>7. CASE alu.task \in CountTasks
    <3>1. ShiftExact(alu.given, alu.r, alu.f)
      <4>1. CASE alu.task \in {"doubled", "halved", "signed_halved"}
        <5>1. PICK mode \in Wholes : alu.task = TaskOf(mode)
          BY <4>1 DEF Wholes, TaskOf
        <5> QED  BY <1>1, <1>6, <2>1, <5>1, HalvesDone, Zenon DEF AluAt
      <4>2. CASE alu.task = "shifted"
        BY <1>1, <1>6, <2>1, <4>2, ShiftedDone, Zenon DEF AluAt
      <4>3. CASE alu.task \in {"rotated", "rotated_with_carry"}
        <5>1. PICK through \in BOOLEAN : alu.task = IF through THEN "rotated_with_carry" ELSE "rotated"
          BY <4>3
        <5> QED  BY <1>1, <1>6, <2>1, <5>1, RotatedDone, Zenon DEF AluAt
      <4> QED  BY <2>7, <4>1, <4>2, <4>3 DEF CountTasks
    <3>2. alu.task \notin {"sum", "cleared_sum"} /\ alu.task # "difference" /\ alu.task # "negation"
          /\ alu.task # "complement" /\ alu.task # "comparison"
      BY <2>7 DEF CountTasks
    <3> QED  BY <1>6, <2>7, <3>1, <3>2, Zenon DEF AluExact
  <2>8. CASE alu.task \in DecimalTasks \cup AsciiTasks
    <3>1. DecimalExact(alu.given, alu.r, alu.f)
      <4>1. CASE alu.task \in DecimalTasks
        <5>1. PICK add \in BOOLEAN : alu.task = IF add THEN "decimal_sum" ELSE "decimal_difference"
          BY <4>1 DEF DecimalTasks
        <5> QED  BY <1>1, <1>6, <2>1, <5>1, DecimalDone, Zenon DEF AluAt
      <4>2. CASE alu.task \in {"ascii_sum", "ascii_difference"}
        <5>1. PICK add \in BOOLEAN : alu.task = IF add THEN "ascii_sum" ELSE "ascii_difference"
          BY <4>2
        <5> QED  BY <1>1, <1>6, <2>1, <5>1, AsciiDone, Zenon DEF AluAt
      <4>3. CASE alu.task = "ascii_product"
        BY <1>1, <1>6, <2>1, <4>3, AsciiProductDone, Zenon DEF AluAt
      <4> QED  BY <2>8, <4>1, <4>2, <4>3 DEF AsciiTasks
    <3>2. alu.task \notin {"sum", "cleared_sum"} /\ alu.task # "difference" /\ alu.task # "negation"
          /\ alu.task # "complement" /\ alu.task # "comparison" /\ alu.task \notin CountTasks
      BY <2>8 DEF CountTasks, DecimalTasks, AsciiTasks
    <3> QED  BY <1>6, <2>8, <3>1, <3>2, Zenon DEF AluExact
  <2> QED  BY <1>2, <1>6, <2>2, <2>3, <2>4, <2>5, <2>6, <2>7, <2>8 DEF Tasks, SumTasks
<1> QED  BY <1>3, <1>4, <1>5, <1>6

\* Every program of Alu.tla comes to the number it must come to, through every
\* encoding and for every modulus that four divides: sums, differences and
\* negations chained by carries, comparisons with all ten jumps, shifts and
\* rotations, products divided again, quotients, which trap exactly where none
\* fits, decimal and ASCII adjustments (i8088.py:288-313, 926-1068, 1318-1545,
\* 1727-1874, 2432-2543).
THEOREM AluIsExact == AluSpec => []AluExact
<1>1. AluInv(alu) => AluExact
  BY AluInvExact
<1> QED  BY <1>1, AluInvHolds, PTL
=============================================================================
