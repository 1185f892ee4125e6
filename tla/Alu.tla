-------------------------------- MODULE Alu ---------------------------------
(***************************************************************************)
(* The arithmetic of i8088.py at an operand's modulus m (256 or 65536 in   *)
(* the code), and short programs that put it to use: sums, differences and *)
(* shifts of numbers of two operands, which live on the carry between two  *)
(* instructions, comparisons and the jumps after them, products divided    *)
(* again, and decimal arithmetic with its adjustments.                     *)
(*                                                                         *)
(* Left out are parity, what DAA, DAS and the ASCII adjustments leave in   *)
(* the flags that are undefined after them, and where operands come from.  *)
(***************************************************************************)
EXTENDS Integers, Sequences

CONSTANTS
  Modulus,        \* of an operand: 256 or 65536, here smaller and even
  Digits,         \* operands that sums and differences are tried with
  Decimals        \* packed decimal operands, of one byte

ASSUME AluAssumption ==
  /\ Modulus \in Nat \ {0} /\ Modulus % 4 = 0
  /\ Digits \subseteq 0..Modulus - 1
  /\ Decimals \subseteq {d \in 0..255 : d % 16 < 10 /\ d \div 16 < 10}

VARIABLE alu      \* a program: what it is given, where it is, flags, results

Half(m) == m \div 2
Bit(b) == IF b THEN 1 ELSE 0
Sign(x, m) == x >= Half(m)
Signed(x, m) == IF Sign(x, m) THEN x - m ELSE x       \* ToSigned8, ToSigned16
Nibble(x) == x % 16

\* `& 0xff` or `& 0xffff` of a result that is off by one modulus at most.
Wrap(x, m) == IF x < 0 THEN x + m ELSE IF x >= m THEN x - m ELSE x

-----------------------------------------------------------------------------
\* Mutant: the borrow is left out of the overflow.
SetAddSubFlagsMixedUp(m, r1, r2, result, issub, carry) ==
  LET before == Sign(r1, m)
      value == Sign(r2, m)
      after == Sign(Wrap(result, m), m)
  IN [o |-> after # before /\ before = value,
      c |-> result < 0 \/ result >= m,
      s |-> after, z |-> Wrap(result, m) = 0,
      a |-> IF issub THEN Nibble(r1) - Nibble(r2) - Bit(carry) < 0
            ELSE Nibble(r1) + Nibble(r2) + Bit(carry) > 15]

\* SetAddSubFlags
SetAddSubFlags(m, r1, r2, result, issub, carry) ==
  LET before == Sign(r1, m)
      value == Sign(r2, m)
      after == Sign(Wrap(result, m), m)
  IN [o |-> after # before /\ (before # value) = issub,
      c |-> result < 0 \/ result >= m,
      s |-> after, z |-> Wrap(result, m) = 0,
      a |-> IF issub THEN Nibble(r1) - Nibble(r2) - Bit(carry) < 0
            ELSE Nibble(r1) + Nibble(r2) + Bit(carry) > 15]

\* SetLogicFuncFlags
SetLogicFuncFlags(m, result) ==
  [o |-> FALSE, c |-> FALSE, s |-> Sign(result, m), z |-> result = 0, a |-> FALSE]

\* OR, AND or TEST of an operand with itself, and XOR, that clears it.
LogicSelf(op, m, v) ==
  LET w == IF op = "xor" THEN 0 ELSE v
  IN [v |-> w, f |-> SetLogicFuncFlags(m, w)]

\* The accumulator's ADD and ADC,
Add(m, r1, r2, carry) ==
  LET result == r1 + r2 + Bit(carry)
  IN [v |-> Wrap(result, m), f |-> SetAddSubFlags(m, r1, r2, result, FALSE, carry)]

\* its SUB and SBB,
Subtract(m, r1, r2, borrow) ==
  LET result == r1 - r2 - Bit(borrow)
  IN [v |-> Wrap(result, m), f |-> SetAddSubFlags(m, r1, r2, result, TRUE, borrow)]

\* and its CMP.
Compare(m, r1, r2) == [v |-> r1, f |-> SetAddSubFlags(m, r1, r2, r1 - r2, TRUE, FALSE)]

\* The same of two operands of which either may be a register,
ModRm(op, direction, m, rm, reg, f) ==
  LET left == IF direction THEN reg ELSE rm
      right == IF direction THEN rm ELSE reg
  IN CASE op = "add" -> Add(m, left, right, FALSE)
       [] op = "adc" -> Add(m, left, right, f.c)
       [] op = "sub" -> Subtract(m, left, right, FALSE)
       [] op = "sbb" -> Subtract(m, left, right, f.c)
       [] op = "cmp" -> Compare(m, left, right)

\* and of an operand and an immediate, by the function of the opcode.
Group(function, m, r1, r2, f) ==
  CASE function = 0 -> Add(m, r1, r2, FALSE)
    [] function = 2 -> Add(m, r1, r2, f.c)
    [] function = 3 -> Subtract(m, r1, r2, f.c)
    [] function = 5 -> Subtract(m, r1, r2, FALSE)
    [] function = 7 -> Compare(m, r1, r2)

FunctionOf(op) == CASE op = "add" -> 0 [] op = "adc" -> 2 [] op = "sbb" -> 3
                    [] op = "sub" -> 5 [] op = "cmp" -> 7

\* NEG and NOT
Negate(m, v) == [v |-> Wrap(-v, m), f |-> SetAddSubFlags(m, 0, v, -v, TRUE, FALSE)]
Complement(m, v) == m - 1 - v

\* Mutant: INC and DEC are an addition and a subtraction.
IncDecCarries(m, v, isDec, f) ==
  IF isDec THEN Subtract(m, v, 1, FALSE) ELSE Add(m, v, 1, FALSE)

\* INC and DEC, of a register or of any operand, leave the carry alone.
IncDec(m, v, isDec, f) ==
  LET w == Wrap(IF isDec THEN v - 1 ELSE v + 1, m)
  IN [v |-> w,
      f |-> [c |-> f.c, s |-> Sign(w, m), z |-> w = 0,
             o |-> w = (IF isDec THEN Half(m) - 1 ELSE Half(m)),
             a |-> Nibble(w) = (IF isDec THEN 15 ELSE 0)]]

\* Op_Jxx, by the condition's name.
Taken(condition, f) ==
  CASE condition = "jb" -> f.c
    [] condition = "jae" -> ~f.c
    [] condition = "jz" -> f.z
    [] condition = "jnz" -> ~f.z
    [] condition = "jbe" -> f.c \/ f.z
    [] condition = "ja" -> ~f.c /\ ~f.z
    [] condition = "jl" -> f.s # f.o
    [] condition = "jge" -> f.s = f.o
    [] condition = "jle" -> f.z \/ f.s # f.o
    [] condition = "jg" -> ~f.z /\ f.s = f.o

-----------------------------------------------------------------------------
\* One bit's worth of a shift or a rotation, and the carry after it.
ShiftOnce(mode, m, v, carry) ==
  LET top == Sign(v, m)
      low == v % 2 = 1
      left == (2 * v) % m
      right == v \div 2
  IN CASE mode = "rol" -> [v |-> left + Bit(top), c |-> top]
       [] mode = "ror" -> [v |-> right + Bit(low) * Half(m), c |-> low]
       [] mode = "rcl" -> [v |-> left + Bit(carry), c |-> top]
       [] mode = "rcr" -> [v |-> right + Bit(carry) * Half(m), c |-> low]
       [] mode = "shl" -> [v |-> left, c |-> top]
       [] mode = "shr" -> [v |-> right, c |-> low]
       [] mode = "sar" -> [v |-> right + Bit(top) * Half(m), c |-> low]

\* Op_shift: count times; a count of zero changes no flag, and only shifts
\* set the sign and the zero flag.
Shift(mode, m, v, count, f) ==
  LET after[i \in 0..count] ==
        IF i = 0 THEN [v |-> v, c |-> f.c]
        ELSE ShiftOnce(mode, m, after[i - 1].v, after[i - 1].c)
      r == after[count]
      top == Sign(r.v, m)
      next == (r.v % Half(m)) >= Half(m) \div 2
      overflow == CASE mode \in {"rol", "rcl", "shl"} -> r.c # top
                    [] mode \in {"ror", "rcr"} -> top # next
                    [] mode = "shr" -> count = 1 /\ Sign(v, m)
                    [] mode = "sar" -> FALSE
  IN IF count = 0 THEN [v |-> v, f |-> f]
     ELSE [v |-> r.v,
           f |-> [f EXCEPT !.c = r.c, !.o = overflow,
                    !.s = IF mode \in {"shl", "shr", "sar"} THEN top ELSE @,
                    !.z = IF mode \in {"shl", "shr", "sar"} THEN r.v = 0 ELSE @]]

-----------------------------------------------------------------------------
\* MUL and IMUL: the product in two operands, and whether it needs both.  A
\* REP prefix negates it.
Multiply(signed, m, x, y, rep) ==
  LET product == IF signed THEN Signed(x, m) * Signed(y, m) ELSE x * y
      negated == IF rep THEN -product ELSE product
      all == negated % (m * m)
      wide == IF signed THEN negated < -Half(m) \/ negated >= Half(m) ELSE all \div m # 0
  IN [lo |-> all % m, hi |-> all \div m, c |-> wide]

\* Mutant: the quotient is rounded down.
DivideDown(signed, m, dividend, d, rep) ==
  IF signed
  THEN LET x == IF dividend >= (m * m) \div 2 THEN dividend - m * m ELSE dividend
           y == Signed(d, m)
           q == IF y > 0 THEN x \div y ELSE IF y < 0 THEN (-x) \div (-y) ELSE 0
           over == y = 0 \/ q < 1 - Half(m) \/ q >= Half(m)
       IN IF over THEN [trap |-> TRUE]
          ELSE [trap |-> FALSE, q |-> (IF rep THEN -q ELSE q) % m, r |-> (x - q * y) % m]
  ELSE IF d = 0 \/ dividend \div d >= m THEN [trap |-> TRUE]
  ELSE [trap |-> FALSE, q |-> dividend \div d, r |-> dividend % d]

\* DIV and IDIV of a dividend in two operands.  IDIV truncates, its largest
\* quotient is m/2 - 1 either way, and a REP prefix negates it.
Divide(signed, m, dividend, d, rep) ==
  IF signed
  THEN LET x == IF dividend >= (m * m) \div 2 THEN dividend - m * m ELSE dividend
           y == Signed(d, m)
           Abs(n) == IF n < 0 THEN -n ELSE n
           size == IF y = 0 THEN 0 ELSE Abs(x) \div Abs(y)
           q == IF (x < 0) # (y < 0) THEN -size ELSE size
       IN IF y = 0 \/ size > Half(m) - 1 THEN [trap |-> TRUE]
          ELSE [trap |-> FALSE, q |-> (IF rep THEN -q ELSE q) % m, r |-> (x - q * y) % m]
  ELSE IF d = 0 \/ dividend \div d >= m THEN [trap |-> TRUE]
  ELSE [trap |-> FALSE, q |-> dividend \div d, r |-> dividend % d]

-----------------------------------------------------------------------------
\* DAA
DecimalAdjustAdd(al, f) ==
  LET low == Nibble(al) > 9 \/ f.a
      high == al > (IF f.a THEN 159 ELSE 153) \/ f.c
  IN [v |-> (al + 6 * Bit(low) + 96 * Bit(high)) % 256,
      f |-> [f EXCEPT !.a = low, !.c = high]]

\* DAS
DecimalAdjustSubtract(al, f) ==
  LET low == Nibble(al) > 9 \/ f.a
      high == al > (IF f.a THEN 159 ELSE 153) \/ f.c
  IN [v |-> (al - 6 * Bit(low) - 96 * Bit(high)) % 256,
      f |-> [f EXCEPT !.a = low, !.c = high]]

\* AAA and AAS, of AL and AH
AsciiAdjust(al, ah, isSub, f) ==
  LET adjust == Nibble(al) > 9 \/ f.a
      by == IF isSub THEN -1 ELSE 1
  IN [al |-> Nibble((al + 6 * by * Bit(adjust)) % 256), ah |-> (ah + by * Bit(adjust)) % 256,
      f |-> [f EXCEPT !.a = adjust, !.c = adjust]]

\* AAM and AAD, of a base that is not zero: AAM traps that one.
AsciiMultiply(al, base) == [al |-> al % base, ah |-> al \div base]
AsciiDivide(al, ah, base) == (al + ah * base) % 256

-----------------------------------------------------------------------------
(***************************************************************************)
(* Programs.  x1 x0 and y1 y0 are numbers of two operands, x1 x0 also the  *)
(* product and the dividend (AX, or DX:AX), n a counter.                   *)
(***************************************************************************)
Two(op, dst, src) == [op |-> op, dst |-> dst, src |-> src]
One(op, dst) == [op |-> op, dst |-> dst]
Halves(low, high, r) ==       \* a shift of both operands, r.n times
  [k \in 1..2 * r.n |-> IF k % 2 = 1 THEN low ELSE high]

Code(task, r) ==
  CASE task = "sum" -> <<Two("add", "x0", "y0"), One("inc", "n"), Two("adc", "x1", "y1")>>
    [] task = "cleared_sum" ->
         <<One("or", "x0"), Two("adc", "x0", "y0"), One("dec", "n"), Two("adc", "x1", "y1")>>
    [] task = "difference" ->
         <<Two("sub", "x0", "y0"), One("dec", "n"), Two("sbb", "x1", "y1")>>
    [] task = "negation" ->
         <<One("xor", "y0"), One("neg", "x1"), One("neg", "x0"), Two("sbb", "x1", "y0")>>
    [] task = "complement" ->
         <<One("not", "x0"), One("not", "x1"), One("inc", "x0")>>
    [] task = "comparison" -> <<Two("cmp", "x0", "y0")>>
    [] task = "doubled" -> Halves(One("shl", "x0"), One("rcl", "x1"), r)
    [] task = "halved" -> Halves(One("shr", "x1"), One("rcr", "x0"), r)
    [] task = "signed_halved" -> Halves(One("sar", "x1"), One("rcr", "x0"), r)
    [] task = "shifted" -> <<Two("shl", "x0", "n"), Two("shr", "x1", "n"), Two("sar", "y0", "n")>>
    [] task = "rotated" -> <<Two("rol", "x0", "n"), Two("ror", "x0", "n")>>
    [] task = "rotated_with_carry" -> <<Two("rcr", "x0", "n"), Two("rcl", "x0", "n")>>
    [] task = "product" -> <<One("mul", "y0"), One("div", "y0")>>
    [] task = "signed_product" -> <<One("imul", "y0"), One("idiv", "y0")>>
    [] task = "quotient" -> <<One("div", "y0")>>
    [] task = "signed_quotient" -> <<One("idiv", "y0")>>
    [] task = "decimal_sum" ->
         <<Two("add", "x0", "y0"), One("daa", "x0"), Two("adc", "x1", "y1"), One("daa", "x1")>>
    [] task = "decimal_difference" ->
         <<Two("sub", "x0", "y0"), One("das", "x0"), Two("sbb", "x1", "y1"), One("das", "x1")>>
    [] task = "ascii_sum" -> <<Two("add", "x0", "y0"), One("aaa", "x0")>>
    [] task = "ascii_difference" -> <<Two("sub", "x0", "y0"), One("aas", "x0")>>
    [] task = "ascii_product" -> <<One("mul", "y0"), One("aam", "x0"), One("aad", "x0")>>

DecimalTasks == {"decimal_sum", "decimal_difference"}
AsciiTasks == {"ascii_sum", "ascii_difference", "ascii_product"}
CountTasks == {"doubled", "halved", "signed_halved", "shifted", "rotated", "rotated_with_carry"}
ProductTasks == {"product", "signed_product"}
QuotientTasks == {"quotient", "signed_quotient"}
SumTasks == {"sum", "cleared_sum", "difference", "negation", "complement"}

\* The operands a task is given.
Given(task) ==
  CASE task \in DecimalTasks ->
         [x0 : Decimals, x1 : Decimals, y0 : Decimals, y1 : Decimals, n : {0}]
    [] task \in AsciiTasks -> [x0 : 0..9, x1 : {0, 5}, y0 : 0..9, y1 : {0}, n : {0}]
    [] task \in CountTasks -> [x0 : Digits, x1 : Digits, y0 : Digits, y1 : {0}, n : 0..5]
    [] task \in ProductTasks -> [x0 : 0..Modulus - 1, x1 : {0}, y0 : 0..Modulus - 1,
                                 y1 : {0}, n : {0}]
    [] task \in QuotientTasks -> [x0 : 0..Modulus - 1, x1 : 0..Modulus - 1, y0 : Digits,
                                  y1 : {0}, n : {0}]
    [] task = "comparison" -> [x0 : 0..Modulus - 1, x1 : {0}, y0 : 0..Modulus - 1,
                               y1 : {0}, n : {0}]
    [] task \in SumTasks -> [x0 : Digits, x1 : Digits, y0 : Digits, y1 : Digits, n : {0}]

Tasks == SumTasks \cup CountTasks \cup ProductTasks \cup QuotientTasks \cup DecimalTasks
           \cup AsciiTasks \cup {"comparison"}

\* Which of its encodings an instruction of two operands has.
Encodings == {"accumulator", "to_register", "from_register", "immediate"}
OfTwo(encoding, m, op, a, b, f) ==
  CASE encoding = "to_register" -> ModRm(op, TRUE, m, b, a, f)
    [] encoding = "from_register" -> ModRm(op, FALSE, m, a, b, f)
    [] encoding = "immediate" -> Group(FunctionOf(op), m, a, b, f)
    [] encoding = "accumulator" /\ op \in {"add", "adc"} -> Add(m, a, b, op = "adc" /\ f.c)
    [] encoding = "accumulator" /\ op \in {"sub", "sbb"} -> Subtract(m, a, b, op = "sbb" /\ f.c)
    [] encoding = "accumulator" /\ op = "cmp" -> Compare(m, a, b)

Started(task, r, encoding, rep, carry) ==
  [task |-> task, given |-> r, r |-> r, encoding |-> encoding, rep |-> rep,
   m |-> IF task \in DecimalTasks \cup AsciiTasks THEN 256 ELSE Modulus,
   f |-> [o |-> FALSE, c |-> carry, s |-> FALSE, z |-> FALSE, a |-> FALSE],
   at |-> 1, trap |-> FALSE]

AluInit ==
  \E task \in Tasks, encoding \in Encodings, rep, carry \in BOOLEAN :
  \E r \in Given(task) :
    /\ task \notin SumTasks \cup {"comparison"} => encoding = "accumulator"
    /\ rep => task \in ProductTasks
    /\ carry => task \in {"sum", "cleared_sum", "comparison", "rotated_with_carry"}
    /\ alu = Started(task, r, encoding, rep, carry)

-----------------------------------------------------------------------------
Now(s) == Code(s.task, s.given)[s.at]
Done == alu.trap \/ alu.at > Len(Code(alu.task, alu.given))
After(s, v, f) == [s EXCEPT !.r[Now(s).dst] = v, !.f = f, !.at = @ + 1]

\* An instruction whose result replaces an operand.
Result(s, i, a, b) ==
  CASE i.op \in {"add", "adc", "sub", "sbb", "cmp"} -> OfTwo(s.encoding, s.m, i.op, a, b, s.f)
    [] i.op \in {"or", "xor"} -> LogicSelf(i.op, s.m, a)
    [] i.op \in {"inc", "dec"} -> IncDec(s.m, a, i.op = "dec", s.f)
    [] i.op = "neg" -> Negate(s.m, a)
    [] i.op = "not" -> [v |-> Complement(s.m, a), f |-> s.f]
    [] i.op = "daa" -> DecimalAdjustAdd(a, s.f)
    [] i.op = "das" -> DecimalAdjustSubtract(a, s.f)
    [] OTHER -> Shift(i.op, s.m, a, b, s.f)

Calculate ==
  LET i == Now(alu)
      x == Result(alu, i, alu.r[i.dst], IF "src" \in DOMAIN i THEN alu.r[i.src] ELSE 1)
  IN /\ ~Done /\ i.op \notin {"mul", "imul", "div", "idiv", "aaa", "aas", "aam", "aad"}
     /\ alu' = After(alu, x.v, x.f)

\* The others have their operands and results in two registers.
MultiplyStep ==
  /\ ~Done /\ Now(alu).op \in {"mul", "imul"}
  /\ LET p == Multiply(Now(alu).op = "imul", alu.m, alu.r.x0, alu.r.y0, alu.rep)
     IN alu' = [alu EXCEPT !.r.x0 = p.lo, !.r.x1 = p.hi, !.f.c = p.c, !.f.o = p.c, !.at = @ + 1]

DivideStep ==
  /\ ~Done /\ Now(alu).op \in {"div", "idiv"}
  /\ LET d == Divide(Now(alu).op = "idiv", alu.m, alu.r.x0 + alu.m * alu.r.x1, alu.r.y0, FALSE)
     IN alu' = IF d.trap THEN [alu EXCEPT !.trap = TRUE]
               ELSE [alu EXCEPT !.r.x0 = d.q, !.r.x1 = d.r, !.at = @ + 1]

AsciiStep ==
  /\ ~Done
  /\ \/ /\ Now(alu).op \in {"aaa", "aas"}
        /\ LET x == AsciiAdjust(alu.r.x0, alu.r.x1, Now(alu).op = "aas", alu.f)
           IN alu' = [alu EXCEPT !.r.x0 = x.al, !.r.x1 = x.ah, !.f = x.f, !.at = @ + 1]
     \/ /\ Now(alu).op = "aam"
        /\ LET x == AsciiMultiply(alu.r.x0, 10)
           IN alu' = [alu EXCEPT !.r.x0 = x.al, !.r.x1 = x.ah, !.f.c = FALSE, !.at = @ + 1]
     \/ /\ Now(alu).op = "aad"
        /\ alu' = [alu EXCEPT !.r.x0 = AsciiDivide(@, alu.r.x1, 10), !.r.x1 = 0, !.at = @ + 1]

AluNext == Calculate \/ MultiplyStep \/ DivideStep \/ AsciiStep
AluSpec == AluInit /\ [][AluNext]_alu

-----------------------------------------------------------------------------
\* What the programs are given and leave, as numbers.
Wide == alu.m * alu.m
XOf(r) == r.x0 + alu.m * r.x1
YOf(r) == r.y0 + alu.m * r.y1
Decimal(b) == 10 * (b \div 16) + Nibble(b)
Hundreds(lo, hi) == Decimal(lo) + 100 * Decimal(hi)
Magnitude(n) == IF n < 0 THEN -n ELSE n

SumExact(X, Y, Z, f) ==
  /\ Z + Wide * Bit(f.c) = X + Y
  /\ f.s = Sign(Z, Wide)
  /\ f.o = (Signed(X, Wide) + Signed(Y, Wide) # Signed(Z, Wide))

DifferenceExact(X, Y, Z, f) ==
  /\ Z - Wide * Bit(f.c) = X - Y
  /\ f.o = (Signed(X, Wide) - Signed(Y, Wide) # Signed(Z, Wide))

JumpsDecide(x, y, m, f) ==
  LET p == Signed(x, m)
      q == Signed(y, m)
  IN /\ Taken("jb", f) = (x < y) /\ Taken("jae", f) = (x >= y)
     /\ Taken("jbe", f) = (x <= y) /\ Taken("ja", f) = (x > y)
     /\ Taken("jl", f) = (p < q) /\ Taken("jge", f) = (p >= q)
     /\ Taken("jle", f) = (p <= q) /\ Taken("jg", f) = (p > q)
     /\ Taken("jz", f) = (x = y) /\ Taken("jnz", f) = (x # y)

TwoTo(n) == <<1, 2, 4, 8, 16, 32>>[n + 1]

ShiftExact(g, r, f) ==
  LET by == TwoTo(g.n)
      X == XOf(g)
  IN CASE alu.task = "doubled" ->
            /\ XOf(r) = (X * by) % Wide
            /\ g.n > 0 => f.c = Sign((X * (by \div 2)) % Wide, Wide)
       [] alu.task = "halved" ->
            XOf(r) = X \div by /\ (g.n > 0 => f.c = ((X \div (by \div 2)) % 2 = 1))
       [] alu.task = "signed_halved" ->
            XOf(r) = (Signed(X, Wide) \div by) % Wide
       [] alu.task = "shifted" ->
            /\ r.x0 = (g.x0 * by) % alu.m /\ r.x1 = g.x1 \div by
            /\ r.y0 = (Signed(g.y0, alu.m) \div by) % alu.m
            /\ g.n > 0 => f.z = (r.y0 = 0) /\ f.s = (Signed(r.y0, alu.m) < 0)
       [] OTHER -> r = g

\* Divided by what it was multiplied with, a product is its other factor; the
\* largest negative one is the quotient IDIV traps.
ProductExact(g, r) ==
  LET signed == alu.task = "signed_product"
      x == IF signed THEN Signed(g.x0, alu.m) ELSE g.x0
      y == IF signed THEN Signed(g.y0, alu.m) ELSE g.y0
      p == IF alu.rep THEN -(x * y) ELSE x * y
  IN IF alu.at = 2 /\ ~alu.trap
     THEN /\ XOf(r) = p % Wide
          /\ alu.f.c = IF signed THEN p \notin -Half(alu.m)..Half(alu.m) - 1 ELSE r.x1 # 0
     ELSE /\ ~alu.rep => alu.trap = (y = 0 \/ (signed /\ x = -Half(alu.m)))
          /\ ~alu.rep /\ ~alu.trap => r.x0 = g.x0 /\ r.x1 = 0

\* A quotient and a remainder of the dividend's sign, or a trap where no
\* quotient that the 8088 can return has one.
QuotientExact(g, r) ==
  LET signed == alu.task = "signed_quotient"
      n == IF signed THEN Signed(XOf(g), Wide) ELSE XOf(g)
      d == IF signed THEN Signed(g.y0, alu.m) ELSE g.y0
      IsQuotient(q) == /\ Magnitude(n - q * d) < Magnitude(d)
                       /\ n < 0 => n - q * d <= 0
                       /\ n > 0 => n - q * d >= 0
      Quotients == IF signed THEN 1 - Half(alu.m)..Half(alu.m) - 1 ELSE 0..alu.m - 1
  IN IF alu.trap THEN \A q \in Quotients : ~IsQuotient(q)
     ELSE \E q \in Quotients :
            IsQuotient(q) /\ r.x0 = q % alu.m /\ r.x1 = (n - q * d) % alu.m

DecimalExact(g, r, f) ==
  LET X == Hundreds(g.x0, g.x1)
      Y == Hundreds(g.y0, g.y1)
      Z == Hundreds(r.x0, r.x1)
  IN CASE alu.task = "decimal_sum" -> Z + 10000 * Bit(f.c) = X + Y
       [] alu.task = "decimal_difference" -> Z - 10000 * Bit(f.c) = X - Y
       [] alu.task = "ascii_sum" ->
            r.x0 + 10 * Bit(f.c) = g.x0 + g.y0 /\ r.x1 = g.x1 + Bit(f.c)
       [] alu.task = "ascii_difference" ->
            r.x0 - 10 * Bit(f.c) = g.x0 - g.y0 /\ r.x1 = (g.x1 - Bit(f.c)) % 256
       [] alu.task = "ascii_product" -> r.x0 = g.x0 * g.y0 /\ r.x1 = 0

\* Programs that carry from one instruction to the next what only the flags
\* hold come to the number they are to come to, through every encoding, with
\* a counter stepped in between, and signed and unsigned alike; conditional
\* jumps compare as their names say; a division traps exactly where it has
\* nothing to return (i8088.py:288-313, 926-1068, 1318-1545, 1727-1874,
\* 2432-2543).
AluExact ==
  LET g == alu.given
      r == alu.r
  IN CASE alu.task \in ProductTasks -> (alu.at = 1 /\ ~alu.trap) \/ ProductExact(g, r)
       [] Done /\ alu.task \notin ProductTasks ->
            CASE alu.task \in {"sum", "cleared_sum"} ->
                   SumExact(XOf(g), YOf(g), XOf(r), alu.f)
              [] alu.task = "difference" -> DifferenceExact(XOf(g), YOf(g), XOf(r), alu.f)
              [] alu.task = "negation" -> XOf(r) = (-XOf(g)) % Wide
              [] alu.task = "complement" ->
                   r.x0 = Wrap(-g.x0, alu.m) /\ r.x1 + g.x1 = alu.m - 1
              [] alu.task = "comparison" ->
                   r = g /\ JumpsDecide(g.x0, g.y0, alu.m, alu.f)
              [] alu.task \in CountTasks -> ShiftExact(g, r, alu.f)
              [] alu.task \in QuotientTasks -> QuotientExact(g, r)
              [] OTHER -> DecimalExact(g, r, alu.f)
       [] OTHER -> TRUE
=============================================================================
