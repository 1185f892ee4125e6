--------------------------- MODULE StringProgram ----------------------------
(***************************************************************************)
(* What a program is promised of the processor: its instructions take      *)
(* effect one after the other, a repeated string instruction as often as   *)
(* its count and its condition say, whatever interrupts come in between;   *)
(* none is taken while its stack's segment is set and the pointer is not   *)
(* (torn stays FALSE).                                                     *)
(***************************************************************************)
EXTENDS Instructions

VARIABLE pgm      \* the code, where it is, its registers, flags and memory

\* The end of a program is a jump to itself.
Effect(p, op) ==
  CASE op = "sti" -> [p EXCEPT !.if = TRUE]
    [] op = "cli" -> [p EXCEPT !.if = FALSE]
    [] OTHER -> p

\* An instruction leads from p to q.
Steps(p, q) ==
  LET at == OpcodeAt(p.code, p.pc)
      op == p.code[at]
      repeat == LastPrefix(p.code, p.pc, Repeats)
      override == LastPrefix(p.code, p.pc, Overrides)
      once == Once(p, op, IF override = "none" THEN "ds" ELSE override)
      left == p.cx - 1
  IN \/ /\ op \notin Strings \cup {"end"}
        /\ q = [Effect(p, op) EXCEPT !.pc = at + 1]
     \/ /\ op \in Strings /\ repeat = "none"
        /\ q = [once EXCEPT !.pc = at + 1]
     \/ /\ op \in Strings /\ repeat # "none" /\ p.cx = 0
        /\ q = [p EXCEPT !.pc = at + 1]
     \/ /\ op \in Strings /\ repeat # "none" /\ p.cx # 0
        /\ q = [once EXCEPT !.cx = left,
                     !.pc = IF \/ left = 0
                               \/ op \in Compares /\ once.zf # (repeat = "rep")
                            THEN at + 1 ELSE @]

StepProgram == Steps(pgm, pgm')

ProgramStart == pgm.pc = 1 /\ ~pgm.torn
ProgramSpec == ProgramStart /\ [][StepProgram]_pgm
=============================================================================
