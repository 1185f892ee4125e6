---------------------------- MODULE Instructions ----------------------------
(***************************************************************************)
(* i8088.py: what a string instruction does once, and where in the code an *)
(* instruction's prefixes end.  Code is a sequence of bytes by their names. *)
(* Offsets wrap at MemSize; a byte and a word are one cell.  A machine is   *)
(* a record with at least the registers, the flag zf and the memory.        *)
(***************************************************************************)
EXTENDS Integers, Sequences, FiniteSetsExt

CONSTANT MemSize      \* cells of a segment: 65536 bytes in the code

ASSUME InstructionsAssumption == MemSize \in Nat \ {0}

Repeats == {"rep", "repne"}            \* 0xf3, 0xf2
Overrides == {"es", "ds"}              \* 0x26, 0x3e
PrefixBytes == Repeats \cup Overrides
Compares == {"cmps", "scas"}
Strings == {"movs", "stos", "lods"} \cup Compares

\* Where the opcode after the prefixes from ip on is.
OpcodeAt(code, ip) == Min({k \in ip..Len(code) : code[k] \notin PrefixBytes})

\* The last of some prefixes of the instruction at ip, or "none".
LastPrefix(code, ip, some) ==
  LET found == {k \in ip..OpcodeAt(code, ip) - 1 : code[k] \in some}
  IN IF found = {} THEN "none" ELSE code[Max(found)]

Along(s, offset) == (offset + (IF s.down THEN MemSize - 1 ELSE 1)) % MemSize

\* One execution of MOVS, STOS, LODS, CMPS or SCAS, its source in a segment.
Once(s, op, source) ==
  LET next(t) == [t EXCEPT !.si = IF op \in {"movs", "lods", "cmps"} THEN Along(s, @) ELSE @,
                           !.di = IF op = "lods" THEN @ ELSE Along(s, @)]
  IN next(CASE op = "movs" -> [s EXCEPT !.mem["es"][s.di] = s.mem[source][s.si]]
            [] op = "stos" -> [s EXCEPT !.mem["es"][s.di] = s.al]
            [] op = "lods" -> [s EXCEPT !.al = s.mem[source][s.si]]
            [] op = "cmps" -> [s EXCEPT !.zf = (s.mem[source][s.si] = s.mem["es"][s.di])]
            [] op = "scas" -> [s EXCEPT !.zf = (s.al = s.mem["es"][s.di])])
=============================================================================
