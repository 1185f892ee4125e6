----------------------------- MODULE Breakpoints ----------------------------
(***************************************************************************)
(* debugbreakpoints.py: the table of breakpoints and the decision which of *)
(* them an instruction boundary, a memory access or an INT selects.        *)
(*                                                                         *)
(* The table is a function on the ids it holds.  Ids are handed out in     *)
(* ascending order and never again, so the order of the ids is the order   *)
(* of creation, in which the dictionary is scanned.  A hit count only      *)
(* decides how many matches are still passed over, so `due` counts those   *)
(* down instead of counting hits up: selected_hit's skip before the first  *)
(* selected match, every - 1 after each selected one.                      *)
(***************************************************************************)
EXTENDS Naturals, FiniteSets

ExecutionKind == "execution"
MemoryKinds == {"memory_read", "memory_write", "memory_access"}
InterruptKind == "interrupt"
Conditions == {"always", "zero", "one"}

NoHit == 0     \* no breakpoint has this id

\* What a client asks for; a condition compares a register with one value.
NewBreakpoint(private, p) ==
  [private |-> private, kind |-> p.kind, at |-> p.at,
   once |-> p.once, cond |-> p.cond, due |-> p.skip, every |-> p.every]

\* The breakpoints that can be made at the given addresses and vectors.
BreakpointsAt(places) ==
  [private : BOOLEAN, kind : MemoryKinds \cup {ExecutionKind, InterruptKind},
   at : places, once : BOOLEAN, cond : Conditions, due : Nat, every : Nat \ {0}]

EmptyTable == [id \in {} |-> NoHit]

With(table, id, b) ==
  [i \in DOMAIN table \cup {id} |-> IF i = id THEN b ELSE table[i]]

Contains(table, id) == id \in DOMAIN table

Without(table, id) == [i \in DOMAIN table \ {id} |-> table[i]]

OnlyPrivate(table) == [i \in {j \in DOMAIN table : table[j].private} |-> table[i]]

HasExecution(table) == \E i \in DOMAIN table : table[i].kind = ExecutionKind
HasMemoryAccess(table) == \E i \in DOMAIN table : table[i].kind \in MemoryKinds
HasInterrupt(table) == \E i \in DOMAIN table : table[i].kind = InterruptKind

\* The matching breakpoints that are scanned.
Candidates(table, kinds, at, skip, ax) ==
  {i \in DOMAIN table :
     /\ table[i].kind \in kinds
     /\ table[i].at = at
     /\ i # skip
     /\ table[i].cond \in {"always", ax}}

\* The first match whose hit is selected ends the scan.
Selected(table, matches) ==
  LET ready == {i \in matches : table[i].due = 0}
  IN IF ready = {} THEN NoHit
     ELSE CHOOSE i \in ready : \A j \in ready : i <= j

\* Every match scanned before the selected one counts a hit that is passed over.
Counted(table, matches) ==
  LET s == Selected(table, matches)
  IN [i \in DOMAIN table |->
        IF i = s THEN [table[i] EXCEPT !.due = table[i].every - 1]
        ELSE IF i \in matches /\ (s = NoHit \/ i < s)
             THEN [table[i] EXCEPT !.due = @ - 1]
        ELSE table[i]]

\* The selected breakpoint is removed if it is one-shot.
Scanned(table, matches) ==
  LET s == Selected(table, matches)
  IN IF s # NoHit /\ table[s].once
     THEN Without(Counted(table, matches), s)
     ELSE Counted(table, matches)
=============================================================================
