-------------------------------- MODULE Cpu ---------------------------------
(***************************************************************************)
(* i8088.Tick from one instruction boundary to the next: prefixes and what *)
(* the processor remembers of them, the repeated string instructions,      *)
(* interrupts and traps between their repetitions, HLT, and the shadow     *)
(* after STI and MOV SS in which none is taken.  The state is a record and *)
(* the methods are operators on it, composed as Tick calls them.           *)
(*                                                                         *)
(* Of the other instructions only NOP stands for them all.  Code is not    *)
(* changed; a handler saves the registers it uses.  The debugger's writes  *)
(* to registers, and REP before what is not a string instruction, whose    *)
(* effect no manual defines, are left out.                                 *)
(***************************************************************************)
EXTENDS Instructions

CONSTANTS
  Programs,       \* what may be executed
  Machines,       \* registers, flags and memory it may start with
  MaxIrqs         \* bound: requests of devices

\* What a program may expect something of: it ends with a jump to itself, which
\* has no prefix, leaves the return from interrupts to handlers, repeats string
\* instructions only, and sets the stack's pointer right after its segment.
ASSUME CpuAssumption ==
  /\ \A code \in Programs :
       /\ code \in Seq(STRING) /\ code # <<>> /\ code[Len(code)] = "end"
       /\ \A k \in 1..Len(code) :
            /\ code[k] \notin {"save", "restore", "iret"}
            /\ code[k] \in Repeats => code[OpcodeAt(code, k)] \in Strings
            /\ code[k] \in PrefixBytes => code[OpcodeAt(code, k)] # "end"
            /\ code[k] = "mov ss" => code[OpcodeAt(code, k + 1)] = "mov sp"
  /\ \A m \in Machines :
       {m.if, m.tf, m.down} \subseteq BOOLEAN /\ m.cx \in Nat

VARIABLES cpu, request, requests    \* the processor, a pending request, those so far

cpuVars == <<cpu, request, requests>>

Handlers == [irq |-> <<"save", "sti", "lods", "restore", "iret">>,
             trap |-> <<"iret">>, int |-> <<"nop", "iret">>]
CodeOf(s) == IF s.cs = "main" THEN s.code ELSE Handlers[s.cs]

\* After Reset, and the program was loaded.
PowerOn(m, program) ==
  [code |-> program, cs |-> "main", ip |-> 1,
   rep |-> FALSE, repAddr |-> 1, repMode |-> "none", doNothing |-> FALSE,
   override |-> "none", overrideSet |-> FALSE,
   inhibit |-> FALSE, halted |-> FALSE, backFromTrace |-> FALSE,
   if |-> m.if, tf |-> m.tf, zf |-> FALSE, down |-> m.down,
   cx |-> m.cx, si |-> 0, di |-> 0, al |-> m.al, mem |-> m.mem,
   stack |-> <<>>, halfStack |-> FALSE, torn |-> FALSE]

CpuInit ==
  /\ \E program \in Programs, m \in Machines : cpu = PowerOn(m, program)
  /\ request = FALSE /\ requests = 0

-----------------------------------------------------------------------------
Push(s, item) == [s EXCEPT !.stack = Append(@, item), !.torn = @ \/ s.halfStack]
Top(s) == s.stack[Len(s.stack)]
Popped(s) == SubSeq(s.stack, 1, Len(s.stack) - 1)
Frame(s, ip) == [cs |-> s.cs, ip |-> ip, if |-> s.if, tf |-> s.tf, zf |-> s.zf]
StringRegisters(s) == [cx |-> s.cx, si |-> s.si, di |-> s.di, al |-> s.al]

\* The handler of a vector begins.
Enter(s, vector) == [s EXCEPT !.cs = vector, !.ip = 1, !.if = FALSE, !.tf = FALSE]

\* Mutant: it comes back behind the instruction that was repeated.
InvokeInterruptPastRep(s, vector) ==
  LET at == IF s.rep THEN OpcodeAt(CodeOf(s), s.repAddr) + 1 ELSE s.ip
  IN Enter([Push(s, Frame(s, at)) EXCEPT !.rep = FALSE, !.overrideSet = FALSE], vector)

\* InvokeInterrupt
InvokeInterrupt(s, vector) ==
  Enter([Push(s, Frame(s, IF s.rep THEN s.repAddr ELSE s.ip))
           EXCEPT !.rep = FALSE, !.overrideSet = FALSE], vector)

-----------------------------------------------------------------------------
\* Mutant: the repetition begins at its own prefix.
DecodeFromRep(s) ==
  LET code == CodeOf(s)
      at == OpcodeAt(code, s.ip)
      repeat == LastPrefix(code, s.ip, Repeats)
      override == LastPrefix(code, s.ip, Overrides)
      t == [s EXCEPT !.ip = at + 1,
              !.overrideSet = @ \/ override # "none",
              !.override = IF override = "none" THEN @ ELSE override]
  IN IF repeat = "none" THEN t
     ELSE [t EXCEPT !.rep = TRUE, !.doNothing = (s.cx = 0),
             !.repAddr = Min({k \in s.ip..at : code[k] \in Repeats}),
             !.repMode = IF code[at] \in Compares THEN repeat ELSE "always"]

\* The prefixes: an override is remembered, and of a repetition its condition,
\* where the instruction began and whether there is anything to repeat.
Decode(s) ==
  LET code == CodeOf(s)
      at == OpcodeAt(code, s.ip)
      repeat == LastPrefix(code, s.ip, Repeats)
      override == LastPrefix(code, s.ip, Overrides)
      t == [s EXCEPT !.ip = at + 1,
              !.overrideSet = @ \/ override # "none",
              !.override = IF override = "none" THEN @ ELSE override]
  IN IF repeat = "none" THEN t
     ELSE [t EXCEPT !.rep = TRUE, !.repAddr = s.ip, !.doNothing = (s.cx = 0),
             !.repMode = IF code[at] \in Compares THEN repeat ELSE "always"]

\* PrefixMustRun: whether the instruction is to be executed once, and the
\* count and the repetition after that.
MustRun(s) == ~(s.rep /\ s.doNothing)
AfterPrefix(s) ==
  [s EXCEPT !.doNothing = FALSE,
     !.cx = IF s.rep /\ ~s.doNothing THEN @ - 1 ELSE @,
     !.rep = @ /\ ~s.doNothing /\ s.cx # 1]

\* PrefixEnd
PrefixEnd(s, op) ==
  LET goesOn == /\ s.rep /\ op \in Strings
                /\ s.repMode = "rep" => s.zf
                /\ s.repMode = "repne" => ~s.zf
  IN [s EXCEPT !.rep = goesOn, !.overrideSet = @ /\ goesOn,
               !.ip = IF goesOn THEN s.repAddr ELSE @]

\* IRET pops IP, CS and the flags; a trap flag it sets counts from the next
\* instruction on.
Iret(s) ==
  [s EXCEPT !.stack = Popped(s), !.cs = Top(s).cs, !.ip = Top(s).ip,
     !.if = Top(s).if, !.tf = Top(s).tf, !.zf = Top(s).zf,
     !.backFromTrace = Top(s).tf /\ ~s.tf]

\* Op_INT, without hooks
SoftwareInt(s) == Enter(Push(s, Frame(s, IF s.rep THEN s.repAddr ELSE s.ip)), "int")

\* Mutant: MOV SS, like MOV SP, leaves interrupts alone.
ShadowsOfSti == {"sti"}

\* MOV SS, POP SS, the other loads of segment registers, and STI inhibit
\* interrupts and traps for one instruction more.
Shadows == {"mov ss", "sti"}

\* The instruction after its prefixes.
Execute(s, op) ==
  CASE op \in Strings ->
         LET t == AfterPrefix(s)
         IN IF MustRun(s) THEN Once(t, op, IF s.overrideSet THEN s.override ELSE "ds") ELSE t
    [] op = "mov ss" -> [s EXCEPT !.halfStack = TRUE]
    [] op = "mov sp" -> [s EXCEPT !.halfStack = FALSE]
    [] op = "sti" -> [s EXCEPT !.if = TRUE]
    [] op = "cli" -> [s EXCEPT !.if = FALSE]
    [] op = "hlt" -> [s EXCEPT !.halted = TRUE]
    [] op = "int" -> SoftwareInt(s)
    [] op = "iret" -> Iret(s)
    [] op = "save" -> Push(s, StringRegisters(s))
    [] op = "restore" -> [s EXCEPT !.stack = Popped(s), !.cx = Top(s).cx, !.si = Top(s).si,
                                   !.di = Top(s).di, !.al = Top(s).al]
    [] op = "end" -> [s EXCEPT !.ip = @ - 1]
    [] OTHER -> s

\* The trap flag interrupts after every instruction that is not in a shadow.
Trapped(s) ==
  LET t == [s EXCEPT !.backFromTrace = FALSE]
  IN IF s.tf /\ ~s.backFromTrace /\ ~s.inhibit THEN InvokeInterrupt(t, "trap") ELSE t

-----------------------------------------------------------------------------
Accepts == cpu.if /\ ~cpu.inhibit /\ request

\* Tick takes a request of the interrupt controller,
TakeInterrupt ==
  /\ Accepts
  /\ cpu' = InvokeInterrupt([cpu EXCEPT !.halted = FALSE], "irq")
  /\ request' = FALSE
  /\ UNCHANGED requests

\* lets time pass for the devices,
TickHalt ==
  /\ ~Accepts /\ cpu.halted
  /\ cpu' = [cpu EXCEPT !.inhibit = FALSE]
  /\ UNCHANGED <<request, requests>>

\* or executes an instruction, once if it is repeated.
Instruction ==
  LET s == Decode([cpu EXCEPT !.inhibit = FALSE])
      op == CodeOf(cpu)[OpcodeAt(CodeOf(cpu), cpu.ip)]
  IN /\ ~Accepts /\ ~cpu.halted
     /\ cpu' = Trapped(PrefixEnd([Execute(s, op) EXCEPT !.inhibit = op \in Shadows], op))
     /\ UNCHANGED <<request, requests>>

RaiseIrq ==
  /\ requests < MaxIrqs /\ ~request
  /\ request' = TRUE /\ requests' = requests + 1
  /\ UNCHANGED cpu

CpuNext == TakeInterrupt \/ TickHalt \/ Instruction \/ RaiseIrq
CpuSpec == CpuInit /\ [][CpuNext]_cpuVars

-----------------------------------------------------------------------------
\* The program under whatever handlers run: where the outermost of them
\* returns to, with the flags it pushed and the registers it saved.
Interrupted(s) == s.cs # "main"
Outermost(s) == s.stack[1]
Saved(s) == {k \in DOMAIN s.stack : "cx" \in DOMAIN s.stack[k]}
Own(s) == IF Saved(s) = {} THEN StringRegisters(s) ELSE s.stack[Min(Saved(s))]

ProgramOf(s) ==
  [code |-> s.code, down |-> s.down, mem |-> s.mem, torn |-> s.torn,
   pc |-> IF Interrupted(s) THEN Outermost(s).ip ELSE s.ip,
   if |-> IF Interrupted(s) THEN Outermost(s).if ELSE s.if,
   zf |-> IF Interrupted(s) THEN Outermost(s).zf ELSE s.zf,
   cx |-> Own(s).cx, si |-> Own(s).si, di |-> Own(s).di, al |-> Own(s).al]

ProgramState == ProgramOf(cpu)

Abstract == INSTANCE StringProgram WITH pgm <- ProgramState

\* Interrupts and traps between and during a program's instructions, in any
\* number and nesting, leave it the effect its code has without them
\* (i8088.py:605-627, 632-680): a repetition goes on where it was, its prefixes
\* are of no other instruction, and nothing is pushed between MOV SS and MOV
\* SP, where the stack is in neither place (i8088.py:1625-1640).
ImplementsProgram == Abstract!ProgramSpec
=============================================================================
