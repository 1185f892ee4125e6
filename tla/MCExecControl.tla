--------------------------- MODULE MCExecControl ----------------------------
(* The instance of ExecControl that TLC checks: one instruction address, one *)
(* watched byte and one vector, so that every breakpoint is in the way.      *)
EXTENDS ExecControl

Bp(kind, at, once, cond, s, every) ==
  [kind |-> kind, at |-> at, once |-> once, cond |-> cond, skip |-> s, every |-> every]

MCCode == {"here"}
MCData == {"byte"}
MCVectors == {"int"}

MCParams ==
  {Bp("execution", "here", FALSE, "always", 0, 1),
   Bp("memory_write", "byte", FALSE, "always", 1, 2),
   Bp("memory_access", "byte", TRUE, "always", 0, 1),
   Bp("interrupt", "int", FALSE, "always", 0, 1)}

MCPredicates ==
  {Bp("execution", "here", TRUE, "always", 1, 1),
   Bp("memory_read", "byte", TRUE, "always", 0, 1),
   Bp("interrupt", "int", TRUE, "zero", 0, 1)}
=============================================================================
