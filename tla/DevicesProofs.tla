---------------------------- MODULE DevicesProofs ---------------------------
(***************************************************************************)
(* Proofs about the parts that Devices.tla puts side by side: Timing.tla   *)
(* and Dma.tla for every width of their registers; Uart.tla, for any       *)
(* length of the receive queue; XtIde.tla, for any geometry, sector and    *)
(* count register; Rings.tla, for any capacity, limits and number of       *)
(* recordings.                                                             *)
(***************************************************************************)
EXTENDS Timing, Uart, XtIde, Rings, TLAPS, SequenceTheorems, WellFoundedInduction

-----------------------------------------------------------------------------
(* Arithmetic. *)

\* Division with remainder.
LEMMA Division ==
  ASSUME NEW x \in Int, NEW m \in Nat \ {0}
  PROVE  /\ x = m * (x \div m) + (x % m)
         /\ x % m \in 0..(m - 1)
         /\ x \div m \in Int
  BY SMT

\* Quotient and remainder are unique.
LEMMA Unique ==
  ASSUME NEW m \in Nat \ {0}, NEW q \in Int, NEW r \in 0..(m - 1)
  PROVE  (m * q + r) % m = r /\ (m * q + r) \div m = q
  BY SMT

\* The quotient of a natural number is one.
LEMMA Quotient ==
  ASSUME NEW x \in Nat, NEW m \in Nat \ {0}
  PROVE  x \div m \in Nat
<1> DEFINE q == x \div m
           r == x % m
<1>1. x = m * q + r /\ r \in 0..(m - 1) /\ q \in Int
  BY Division
<1> HIDE DEF q, r
<1>2. ASSUME q < 0 PROVE FALSE
  <2>1. m * q <= m * (-1)
    BY <1>1, <1>2
  <2> QED  BY <1>1, <2>1
<1>3. q \in Nat
  BY <1>1, <1>2
<1> QED  BY <1>3 DEF q

\* What is smaller than the divisor is the remainder.
LEMMA Small ==
  ASSUME NEW m \in Nat \ {0}, NEW x \in 0..(m - 1)
  PROVE  x % m = x /\ x \div m = 0
<1>1. m * 0 + x = x
  BY SMT
<1>2. (m * 0 + x) % m = x /\ (m * 0 + x) \div m = 0
  BY Unique
<1> QED  BY <1>1, <1>2

\* One more of what is divided.
LEMMA Successor ==
  ASSUME NEW x \in Int, NEW m \in Nat \ {0}
  PROVE  /\ (x + 1) % m = IF x % m = m - 1 THEN 0 ELSE (x % m) + 1
         /\ (x + 1) \div m = IF x % m = m - 1 THEN (x \div m) + 1 ELSE x \div m
<1> DEFINE q == x \div m
           r == x % m
<1>1. x = m * q + r /\ r \in 0..(m - 1) /\ q \in Int
  BY Division
<1> HIDE DEF q, r
<1>2. CASE r = m - 1
  <2>1. x + 1 = m * (q + 1) + 0
    <3>1. m * (q + 1) = m * q + m
      BY <1>1
    <3> QED  BY <3>1, <1>1, <1>2
  <2>2. (m * (q + 1) + 0) % m = 0 /\ (m * (q + 1) + 0) \div m = q + 1
    BY <1>1, Unique
  <2> QED  BY <2>1, <2>2, <1>2 DEF q, r
<1>3. CASE r # m - 1
  <2>1. x + 1 = m * q + (r + 1) /\ r + 1 \in 0..(m - 1)
    BY <1>1, <1>3
  <2>2. (m * q + (r + 1)) % m = r + 1 /\ (m * q + (r + 1)) \div m = q
    BY <1>1, <2>1, Unique
  <2> QED  BY <2>1, <2>2, <1>3 DEF q, r
<1> QED  BY <1>2, <1>3

\* A remainder may be taken before something is added.
LEMMA Shift ==
  ASSUME NEW x \in Int, NEW k \in Int, NEW m \in Nat \ {0}
  PROVE  ((x % m) + k) % m = (x + k) % m
<1> DEFINE q == x \div m
           r == x % m
           q2 == (r + k) \div m
           r2 == (r + k) % m
<1>1. x = m * q + r /\ r \in 0..(m - 1) /\ q \in Int
  BY Division
<1> HIDE DEF q, r
<1>2. r + k = m * q2 + r2 /\ r2 \in 0..(m - 1) /\ q2 \in Int
  <2>1. r + k \in Int
    BY <1>1
  <2> QED  BY <2>1, Division
<1> HIDE DEF q2, r2
<1>3. m * (q + q2) = m * q + m * q2
  BY <1>1, <1>2
<1>4. x + k = m * (q + q2) + r2
  BY <1>1, <1>2, <1>3
<1>5. (m * (q + q2) + r2) % m = r2
  BY <1>1, <1>2, Unique
<1> QED  BY <1>4, <1>5 DEF r, r2

\* Two bytes make a word.
LEMMA WordBound ==
  /\ Byte \in Nat /\ Byte > 1
  /\ Word \in Nat /\ Word > 2 /\ Byte < Word
  /\ \A a, b \in Bytes : (a + b * Byte) \in Words
<1>1. Byte \in Nat /\ Byte > 1
  BY DmaAssumption DEF DmaAssumption
<1>2. ASSUME NEW a \in Bytes, NEW b \in Bytes PROVE a + b * Byte \in Words
  <2>1. b * Byte <= (Byte - 1) * Byte /\ b * Byte >= 0
    BY <1>1 DEF Bytes
  <2>2. (Byte - 1) * Byte = Byte * Byte - Byte
    BY <1>1
  <2>3. b * Byte \in Int /\ Byte * Byte \in Int
    BY <1>1 DEF Bytes
  <2> QED  BY <1>1, <2>1, <2>2, <2>3 DEF Words, Word, Bytes
<1>3. Byte * Byte >= 2 * Byte /\ Byte * Byte \in Nat
  BY <1>1
<1> QED  BY <1>1, <1>2, <1>3 DEF Word

\* Writing one byte of a word gives a word.
LEMMA PutWord ==
  ASSUME NEW w \in Words, NEW v \in Bytes, NEW hi \in BOOLEAN
  PROVE  Put(w, v, hi) \in Words
<1>1. Byte \in Nat \ {0} /\ Byte > 1
  BY WordBound
<1>2. w \in Int /\ w >= 0 /\ w < Byte * Byte
  BY <1>1 DEF Words, Word
<1> DEFINE q == w \div Byte
           r == w % Byte
<1>3. w = Byte * q + r /\ r \in Bytes /\ q \in Int
  BY <1>1, <1>2, Division DEF Bytes
<1>4. CASE hi
  BY <1>3, <1>4, WordBound DEF Put
<1>5. CASE ~hi
  <2> HIDE DEF q, r
  <2>1. q \in Bytes
    <3>1. ASSUME q < 0 PROVE FALSE
      <4>1. Byte * q <= Byte * (-1)
        BY <1>1, <1>3, <3>1
      <4> QED  BY <4>1, <1>1, <1>2, <1>3 DEF Bytes
    <3>2. ASSUME q >= Byte PROVE FALSE
      <4>1. Byte * q >= Byte * Byte
        BY <1>1, <1>3, <3>2
      <4> QED  BY <4>1, <1>1, <1>2, <1>3 DEF Bytes
    <3> QED  BY <3>1, <3>2, <1>1, <1>3 DEF Bytes
  <2>2. w - r + v = v + q * Byte
    BY <1>1, <1>2, <1>3 DEF Bytes
  <2>3. Put(w, v, hi) = w - r + v
    BY <1>5 DEF Put, r
  <2> QED  BY <2>1, <2>2, <2>3, WordBound
<1> QED  BY <1>4, <1>5
\* What holds of 0 and of the successor of each number holds up to n.
LEMMA Upwards ==
  ASSUME NEW n \in Nat, NEW S, 0 \in S, \A k \in 0..(n - 1) : k \in S => k + 1 \in S
  PROVE  0..n \subseteq S
<1> DEFINE T == {k \in 0..n : k \notin S}
<1>1. SUFFICES ASSUME T # {} PROVE FALSE
  OBVIOUS
<1>2. T \subseteq Nat
  OBVIOUS
<1> HIDE DEF T
<1>3. PICK x \in T : \A y \in T : <<y, x>> \notin OpToRel(<, Nat)
  BY <1>1, <1>2, NatLessThanWellFounded, WFMin
<1>4. x \in 0..n /\ x \notin S /\ x - 1 \in 0..(n - 1)
  <2>1. x \in 0..n /\ x \notin S
    BY <1>3 DEF T
  <2>2. x # 0
    BY <2>1
  <2> QED  BY <2>1, <2>2
<1>5. x - 1 \in S
  <2>1. x - 1 \in Nat /\ x \in Nat /\ x - 1 < x
    BY <1>4
  <2>2. x - 1 \notin T
    BY <1>3, <2>1 DEF OpToRel
  <2> QED  BY <1>4, <2>1, <2>2 DEF T
<1>6. (x - 1) + 1 = x
  BY <1>4
<1> QED  BY <1>4, <1>5, <1>6

-----------------------------------------------------------------------------
(* A batch of requests. *)

\* An address that has moved moves on as if it had moved at once.
LEMMA MovedOn ==
  ASSUME NEW r \in Registers, NEW from \in Words, NEW n \in Nat
  PROVE  /\ Moved(r, Moved(r, from, n), 1) = Moved(r, from, n + 1)
         /\ Moved(r, from, n) \in Words
         /\ Moved(r, from, 0) = from
<1>1. Word \in Nat \ {0} /\ from \in Int /\ from >= 0 /\ from < Word
  BY WordBound DEF Words
<1>2. CASE r.down
  <2>1. from - n \in Int /\ from - (n + 1) = (from - n) + (-1)
    BY <1>1
  <2>2. ((from - n) % Word) \in Words
    BY <1>1, <2>1, Division DEF Words
  <2>3. (((from - n) % Word) + (-1)) % Word = ((from - n) + (-1)) % Word
    <3>1. -1 \in Int /\ from - n \in Int /\ Word \in Nat \ {0}
      BY <1>1, <2>1
    <3> QED  BY <3>1, Shift, Zenon
  <2>4. ((from - n) % Word) - 1 = ((from - n) % Word) + (-1)
    BY <2>2, <1>1 DEF Words
  <2>5. (from - 0) % Word = from
    <3>1. from - 0 = from /\ from \in 0..(Word - 1)
      BY <1>1
    <3> QED  BY <3>1, <1>1, Small
  <2> QED  BY <1>2, <2>1, <2>2, <2>3, <2>4, <2>5 DEF Moved
<1>3. CASE ~r.down
  <2>1. from + n \in Int /\ from + (n + 1) = (from + n) + 1
    BY <1>1
  <2>2. ((from + n) % Word) \in Words
    BY <1>1, <2>1, Division DEF Words
  <2>3. (((from + n) % Word) + 1) % Word = ((from + n) + 1) % Word
    <3>1. 1 \in Int /\ from + n \in Int /\ Word \in Nat \ {0}
      BY <1>1, <2>1
    <3> QED  BY <3>1, Shift, Zenon
  <2>4. (from + 0) % Word = from
    <3>1. from + 0 = from /\ from \in 0..(Word - 1)
      BY <1>1
    <3> QED  BY <3>1, <1>1, Small
  <2> QED  BY <1>3, <2>1, <2>2, <2>3, <2>4 DEF Moved
<1> QED  BY <1>2, <1>3

\* Registers stay registers.
LEMMA AdvanceType ==
  ASSUME NEW r \in Registers, NEW n \in Nat
  PROVE  Advance(r, n) \in Registers
<1>1. /\ r.address \in Words /\ r.baseAddress \in Words
      /\ r.count \in Words /\ r.baseCount \in Words
  BY DEF Registers
<1>2. Word \in Nat /\ Word > 0 /\ Word - 1 \in Words
  BY WordBound DEF Words
<1>3. CASE n <= r.count
  <2>1. Moved(r, r.address, n) \in Words
    BY <1>1, MovedOn
  <2>2. r.count - n \in Words
    BY <1>1, <1>2, <1>3 DEF Words
  <2> QED  BY <1>3, <2>1, <2>2 DEF Advance, Registers
<1>4. CASE n > r.count /\ r.auto
  <2> DEFINE left == (n - r.count - 1) % (r.baseCount + 1)
  <2>1. left \in 0..r.baseCount
    <3>1. n - r.count - 1 \in Int /\ r.baseCount + 1 \in Nat \ {0} /\ (r.baseCount + 1) - 1 = r.baseCount
      BY <1>1, <1>2 DEF Words
    <3> QED  BY <3>1, Division
  <2>2. Moved(r, r.baseAddress, left) \in Words
    BY <1>1, <2>1, MovedOn
  <2>3. r.baseCount - left \in Words
    BY <1>1, <1>2, <2>1 DEF Words
  <2>4. ~(n <= r.count)
    BY <1>1, <1>2, <1>4 DEF Words
  <2>5. Advance(r, n) = [r EXCEPT !.address = Moved(r, r.baseAddress, left),
                                  !.count = r.baseCount - left, !.tc = TRUE]
    BY <1>4, <2>4 DEF Advance
  <2> HIDE DEF left
  <2> QED  BY <2>2, <2>3, <2>5 DEF Registers
<1>5. CASE n > r.count /\ ~r.auto
  <2>1. r.count + 1 \in Nat
    BY <1>1, <1>2 DEF Words
  <2>2. Moved(r, r.address, r.count + 1) \in Words
    BY <1>1, <2>1, MovedOn
  <2>3. ~(n <= r.count)
    BY <1>1, <1>2, <1>5 DEF Words
  <2>4. Advance(r, n) = [r EXCEPT !.address = Moved(r, r.address, r.count + 1),
                                  !.count = Word - 1, !.tc = TRUE, !.mask = TRUE]
    BY <1>5, <2>3 DEF Advance
  <2> QED  BY <1>2, <2>2, <2>4 DEF Registers
<1> QED
  <2>1. n <= r.count \/ n > r.count
    BY <1>1, <1>2 DEF Words
  <2> QED  BY <2>1, <1>3, <1>4, <1>5

\* Registers stay registers whatever is requested of them.
LEMMA RequestedType ==
  ASSUME NEW r \in Registers, NEW n \in Nat
  PROVE  Requested(r, n) \in Registers
  BY AdvanceType DEF Requested
\* "The batched refresh path must match individual transfers" (i8237.py:88):
\* one request more in a batch is one request after the batch.
THEOREM RequestBatch ==
  ASSUME NEW r \in Registers, NEW n \in Nat
  PROVE  Requested(r, n + 1) = IF enabled THEN OneRequest(Requested(r, n)) ELSE r
<1> DEFINE left(k) == (k - r.count - 1) % (r.baseCount + 1)
<1>1. /\ r.address \in Words /\ r.baseAddress \in Words
      /\ r.count \in Words /\ r.baseCount \in Words
  BY DEF Registers
<1>2. Word \in Nat /\ Word > 0 /\ Words \subseteq Nat
  BY WordBound DEF Words
<1>3. r.count \in Nat /\ r.baseCount \in Nat /\ r.baseCount + 1 \in Nat \ {0} /\ n + 1 # 0
  <2>1. r.count \in Nat /\ r.baseCount \in Nat
    BY <1>1, <1>2
  <2> QED  BY <2>1
<1>4. CASE ~enabled \/ r.mask
  BY <1>3, <1>4 DEF Requested, OneRequest
<1>5. CASE enabled /\ ~r.mask
  <2>1. Requested(r, n + 1) = Advance(r, n + 1)
    BY <1>3, <1>5 DEF Requested
  <2>2. Requested(r, n) = Advance(r, n)
    <3>1. CASE n = 0
      <4>1. n <= r.count /\ Moved(r, r.address, 0) = r.address /\ r.count - 0 = r.count
        BY <1>1, <1>3, <3>1, MovedOn
      <4>2. r = [r EXCEPT !.address = r.address, !.count = r.count]
        BY DEF Registers
      <4> QED  BY <4>1, <4>2, <3>1 DEF Requested, Advance
    <3> QED  BY <3>1, <1>5 DEF Requested
  <2>3. CASE n + 1 <= r.count
    <3>1. n <= r.count /\ r.count - n > 0 /\ (r.count - n) - 1 = r.count - (n + 1)
      BY <1>3, <2>3
    <3>2. Moved(r, Moved(r, r.address, n), 1) = Moved(r, r.address, n + 1)
      BY <1>1, MovedOn
    <3> DEFINE s == [r EXCEPT !.address = Moved(r, r.address, n), !.count = r.count - n]
    <3>3. Advance(r, n) = s
      BY <3>1 DEF Advance
    <3>4. s.mask = r.mask /\ s.count = r.count - n /\ s.address = Moved(r, r.address, n) /\ s.down = r.down
      BY DEF Registers
    <3>5. OneRequest(s) = [s EXCEPT !.address = Moved(r, r.address, n + 1), !.count = r.count - (n + 1)]
      BY <3>1, <3>2, <3>4, <1>5 DEF OneRequest, Moved
    <3>6. @ = [r EXCEPT !.address = Moved(r, r.address, n + 1), !.count = r.count - (n + 1)]
      BY DEF Registers
    <3>7. @ = Advance(r, n + 1)
      BY <2>3 DEF Advance
    <3> QED  BY <2>1, <2>2, <3>3, <3>5, <3>6, <3>7, <1>5
  <2>4. CASE n = r.count
    <3>1. n <= r.count /\ ~(n + 1 <= r.count) /\ r.count - n = 0 /\ (n + 1) - r.count - 1 = 0
      BY <1>3, <2>4
    <3> DEFINE s == [r EXCEPT !.address = Moved(r, r.address, n), !.count = 0]
    <3>2. Advance(r, n) = s
      BY <3>1 DEF Advance
    <3>3. /\ s.mask = r.mask /\ s.count = 0 /\ s.address = Moved(r, r.address, n) /\ s.down = r.down
          /\ s.auto = r.auto /\ s.baseAddress = r.baseAddress /\ s.baseCount = r.baseCount
      BY DEF Registers
    <3>4. CASE r.auto
      <4>1. 0 % (r.baseCount + 1) = 0
        BY <1>3, Small
      <4>2. Advance(r, n + 1) = [r EXCEPT !.address = Moved(r, r.baseAddress, 0),
                                          !.count = r.baseCount - 0, !.tc = TRUE]
        BY <3>1, <3>4, <4>1 DEF Advance
      <4>3. Moved(r, r.baseAddress, 0) = r.baseAddress /\ r.baseCount - 0 = r.baseCount
        BY <1>1, <1>3, MovedOn
      <4>4. OneRequest(s) = [s EXCEPT !.address = r.baseAddress, !.count = r.baseCount, !.tc = TRUE]
        BY <3>3, <3>4, <1>5 DEF OneRequest
      <4>5. @ = [r EXCEPT !.address = r.baseAddress, !.count = r.baseCount, !.tc = TRUE]
        BY DEF Registers
      <4> QED  BY <2>1, <2>2, <3>2, <4>2, <4>3, <4>4, <4>5, <1>5
    <3>5. CASE ~r.auto
      <4>1. Moved(r, Moved(r, r.address, n), 1) = Moved(r, r.address, r.count + 1)
        BY <1>1, <2>4, MovedOn
      <4>2. Advance(r, n + 1) = [r EXCEPT !.address = Moved(r, r.address, r.count + 1),
                                          !.count = Word - 1, !.tc = TRUE, !.mask = TRUE]
        BY <3>1, <3>5 DEF Advance
      <4>3. OneRequest(s) = [s EXCEPT !.address = Moved(r, r.address, r.count + 1),
                                      !.count = Word - 1, !.tc = TRUE, !.mask = TRUE]
        <5>1. Moved(s, s.address, 1) = Moved(r, r.address, r.count + 1)
          BY <3>3, <4>1 DEF Moved
        <5>2. ~s.mask /\ ~(s.count > 0) /\ ~s.auto
          BY <3>3, <3>5, <1>5
        <5> HIDE DEF s
        <5> QED  BY <5>1, <5>2 DEF OneRequest
      <4>4. @ = [r EXCEPT !.address = Moved(r, r.address, r.count + 1),
                          !.count = Word - 1, !.tc = TRUE, !.mask = TRUE]
        BY DEF Registers
      <4> QED  BY <2>1, <2>2, <3>2, <4>2, <4>3, <4>4, <1>5
    <3> QED  BY <3>4, <3>5
  <2>5. CASE n > r.count /\ r.auto
    <3>1. /\ ~(n <= r.count) /\ ~(n + 1 <= r.count) /\ n - r.count - 1 \in Int
          /\ (n + 1) - r.count - 1 = (n - r.count - 1) + 1 /\ (r.baseCount + 1) - 1 = r.baseCount
      BY <1>3, <2>5
    <3>2. /\ left(n) \in 0..r.baseCount
          /\ left(n + 1) = IF left(n) = r.baseCount THEN 0 ELSE left(n) + 1
      BY <3>1, <1>3, Division, Successor
    <3> DEFINE s == [r EXCEPT !.address = Moved(r, r.baseAddress, left(n)),
                              !.count = r.baseCount - left(n), !.tc = TRUE]
    <3>3. /\ Advance(r, n) = s
          /\ Advance(r, n + 1) = [r EXCEPT !.address = Moved(r, r.baseAddress, left(n + 1)),
                                           !.count = r.baseCount - left(n + 1), !.tc = TRUE]
      BY <3>1, <2>5 DEF Advance
    <3> HIDE DEF left
    <3>4. /\ s.mask = r.mask /\ s.count = r.baseCount - left(n)
          /\ s.address = Moved(r, r.baseAddress, left(n)) /\ s.down = r.down
          /\ s.auto = r.auto /\ s.baseAddress = r.baseAddress /\ s.baseCount = r.baseCount
      BY DEF Registers
    <3>5. CASE left(n) = r.baseCount
      <4>1. s.count = 0 /\ left(n + 1) = 0 /\ Moved(r, r.baseAddress, 0) = r.baseAddress
            /\ r.baseCount - 0 = r.baseCount
        BY <1>1, <1>3, <3>2, <3>4, <3>5, MovedOn
      <4>2. OneRequest(s) = [s EXCEPT !.address = r.baseAddress, !.count = r.baseCount, !.tc = TRUE]
        BY <3>4, <4>1, <2>5, <1>5 DEF OneRequest
      <4>3. @ = [r EXCEPT !.address = r.baseAddress, !.count = r.baseCount, !.tc = TRUE]
        BY DEF Registers
      <4> QED  BY <2>1, <2>2, <3>3, <4>1, <4>2, <4>3, <1>5
    <3>6. CASE left(n) # r.baseCount
      <4>1. /\ s.count > 0 /\ left(n + 1) = left(n) + 1 /\ left(n) \in Nat
            /\ (r.baseCount - left(n)) - 1 = r.baseCount - left(n + 1)
        BY <1>3, <3>2, <3>4, <3>6
      <4>2. Moved(r, Moved(r, r.baseAddress, left(n)), 1) = Moved(r, r.baseAddress, left(n + 1))
        BY <1>1, <4>1, MovedOn
      <4>3. OneRequest(s) = [s EXCEPT !.address = Moved(r, r.baseAddress, left(n + 1)),
                                      !.count = r.baseCount - left(n + 1)]
        BY <3>4, <4>1, <4>2, <1>5 DEF OneRequest, Moved
      <4>4. @ = [r EXCEPT !.address = Moved(r, r.baseAddress, left(n + 1)),
                          !.count = r.baseCount - left(n + 1), !.tc = TRUE]
        BY DEF Registers
      <4> QED  BY <2>1, <2>2, <3>3, <4>3, <4>4, <1>5
    <3> QED  BY <3>5, <3>6
  <2>6. CASE n > r.count /\ ~r.auto
    <3>1. ~(n <= r.count) /\ ~(n + 1 <= r.count)
      BY <1>3, <2>6
    <3>2. Advance(r, n + 1) = Advance(r, n)
      BY <3>1, <2>6 DEF Advance
    <3>3. Advance(r, n).mask
      BY <3>1, <2>6 DEF Advance, Registers
    <3> QED  BY <2>1, <2>2, <3>2, <3>3, <1>5 DEF OneRequest
  <2> QED
    <3>1. n + 1 <= r.count \/ n = r.count \/ n > r.count
      BY <1>3
    <3> QED  BY <3>1, <2>3, <2>4, <2>5, <2>6
<1> QED  BY <1>4, <1>5
\* The recursive reference of RefreshExact computes a batch: the batches of
\* every length up to n satisfy its recursive equation, and nothing else does.
LEMMA RequestsBatch ==
  ASSUME enabled, NEW r \in Registers, NEW n \in Nat
  PROVE  Requests(r, n) = Requested(r, n)
<1> DEFINE f == [k \in 0..n |-> Requested(r, k)]
           g == OneByOne(r, n)
<1>1. \A k \in 0..n : f[k] = IF k = 0 THEN r ELSE OneRequest(f[k - 1])
  <2> SUFFICES ASSUME NEW k \in 0..n
               PROVE  f[k] = IF k = 0 THEN r ELSE OneRequest(f[k - 1])
    OBVIOUS
  <2>1. CASE k = 0
    BY <2>1 DEF Requested
  <2>2. CASE k # 0
    <3>1. k - 1 \in Nat /\ k - 1 \in 0..n /\ (k - 1) + 1 = k
      BY <2>2
    <3>2. Requested(r, (k - 1) + 1) = OneRequest(Requested(r, k - 1))
      BY <3>1, RequestBatch
    <3> QED  BY <2>2, <3>1, <3>2
  <2> QED  BY <2>1, <2>2
<1>2. f = [k \in 0..n |-> IF k = 0 THEN r ELSE OneRequest(f[k - 1])]
  BY <1>1
<1> HIDE DEF f
<1>3. g = [k \in 0..n |-> IF k = 0 THEN r ELSE OneRequest(g[k - 1])]
  BY <1>2 DEF OneByOne
<1> DEFINE S == {k \in 0..n : g[k] = f[k]}
<1> HIDE DEF g
<1>4. 0 \in S
  BY <1>1, <1>3 DEF S
<1>5. ASSUME NEW k \in 0..(n - 1), k \in S PROVE k + 1 \in S
  <2>1. k + 1 \in 0..n /\ k + 1 # 0 /\ (k + 1) - 1 = k
    BY <1>5
  <2>2. g[k + 1] = OneRequest(g[k]) /\ f[k + 1] = OneRequest(f[k])
    BY <1>1, <1>3, <2>1
  <2> QED  BY <1>5, <2>1, <2>2 DEF S
<1> HIDE DEF S
<1>6. n \in S
  BY <1>4, <1>5, Upwards
<1>7. g[n] = f[n]
  BY <1>6 DEF S
<1> QED  BY <1>7 DEF g, f, Requests
-----------------------------------------------------------------------------
(* A batch of cycles. *)

\* A counter that counts periods.
Counting(t) == t \in Timers /\ t.running /\ t.mode = Periodic /\ t.cur \in Words

\* What is left of the current period, and where the counter stands n cycles
\* later: within this period, or x cycles beyond its end.
LEMMA Standing ==
  ASSUME NEW t, Counting(t), NEW n \in Nat
  PROVE  /\ Divider(t) \in 1..Word /\ Divider(t) % Word = t.ini
         /\ Left(t) \in 1..Word
         /\ n < Left(t) =>
              /\ Counted(t, n) = [t EXCEPT !.cur = IF n = 0 THEN t.cur ELSE Left(t) - n]
              /\ Events(t, n) = 0
              /\ Left(Counted(t, n)) = Left(t) - n
         /\ n >= Left(t) =>
              LET x == n - Left(t)
                  c == Divider(t) - (x % Divider(t))
              IN  /\ Counted(t, n) = [t EXCEPT !.cur = c % Word]
                  /\ Events(t, n) = 1 + (x \div Divider(t))
                  /\ x \in Nat /\ c \in 1..Divider(t)
                  /\ Left(Counted(t, n)) = c
<1>1. Word \in Nat /\ Word > 2
  BY WordBound
<1>2. /\ t \in Timers /\ t.running /\ t.mode = Periodic
      /\ t.cur \in 0..(Word - 1) /\ t.ini \in 0..(Word - 1)
  BY DEF Counting, Timers, Words
<1>3. Divider(t) \in 1..Word /\ Divider(t) % Word = t.ini
  <2>1. CASE t.ini = 0
    <3>1. (Word * 1 + 0) % Word = 0
      BY <1>1, Unique
    <3> QED  BY <1>1, <2>1, <3>1 DEF Divider
  <2>2. CASE t.ini # 0
    <3>1. t.ini \in 1..(Word - 1) /\ t.ini \in 0..(Word - 1) /\ Word \in Nat \ {0}
      BY <1>1, <1>2, <2>2
    <3>2. t.ini % Word = t.ini
      BY <3>1, Small, Zenon
    <3>3. t.ini \in 1..Word
      BY <3>1
    <3> QED  BY <2>2, <3>2, <3>3 DEF Divider
  <2> QED  BY <2>1, <2>2
<1>4. Left(t) \in 1..Word
  BY <1>1, <1>2, <1>3 DEF Left
<1>5. ASSUME n < Left(t)
      PROVE  /\ Counted(t, n) = [t EXCEPT !.cur = IF n = 0 THEN t.cur ELSE Left(t) - n]
             /\ Events(t, n) = 0
             /\ Left(Counted(t, n)) = Left(t) - n
  <2>1. CASE n = 0
    <3>1. Counted(t, n) = t /\ t = [t EXCEPT !.cur = t.cur]
      BY <1>2, <2>1 DEF Counted, Timers
    <3> QED  BY <1>4, <2>1, <3>1 DEF Events
  <2>2. CASE n # 0
    <3> DEFINE s == [t EXCEPT !.cur = Left(t) - n]
    <3>1. Counted(t, n) = s /\ Events(t, n) = 0
      BY <1>2, <1>5, <2>2 DEF Counted, Count, Events
    <3>2. s.cur = Left(t) - n /\ s.cur # 0
      BY <1>2, <1>4, <1>5 DEF Timers
    <3> HIDE DEF s
    <3>3. Left(s) = Left(t) - n
      BY <3>2 DEF Left
    <3> QED  BY <2>2, <3>1, <3>3 DEF s
  <2> QED  BY <2>1, <2>2
<1>6. ASSUME n >= Left(t)
      PROVE  LET x == n - Left(t)
                 c == Divider(t) - (x % Divider(t))
             IN  /\ Counted(t, n) = [t EXCEPT !.cur = c % Word]
                 /\ Events(t, n) = 1 + (x \div Divider(t))
                 /\ x \in Nat /\ c \in 1..Divider(t)
                 /\ Left(Counted(t, n)) = c
  <2> DEFINE x == n - Left(t)
             c == Divider(t) - (x % Divider(t))
             s == [t EXCEPT !.cur = c % Word]
  <2>1. n # 0 /\ ~(n < Left(t)) /\ x \in Nat
    BY <1>4, <1>6
  <2>2. Counted(t, n) = s /\ Events(t, n) = 1 + (x \div Divider(t))
    BY <1>2, <2>1 DEF Counted, Count, Events
  <2>3. c \in 1..Divider(t)
    <3>1. Divider(t) \in Nat \ {0} /\ x \in Int
      BY <1>1, <1>3, <2>1
    <3> HIDE DEF x
    <3>2. x % Divider(t) \in 0..(Divider(t) - 1)
      BY <3>1, Division
    <3> QED  BY <3>1, <3>2
  <2>4. s.cur = c % Word /\ s.ini = t.ini
    BY <1>2 DEF Timers
  <2> HIDE DEF x, c, s
  <2>5. Left(s) = c
    <3>1. CASE c = Word
      <4>1. c % Word = 0
        <5>1. (Word * 1 + 0) % Word = 0
          BY <1>1, Unique
        <5> QED  BY <1>1, <3>1, <5>1
      <4>2. Divider(t) = Word
        BY <1>1, <1>3, <2>3, <3>1
      <4> QED  BY <2>4, <3>1, <4>1, <4>2 DEF Left, Divider
    <3>2. CASE c # Word
      <4>1. c \in 1..(Word - 1)
        BY <1>1, <1>3, <2>3, <3>2
      <4>2. c % Word = c
        BY <1>1, <4>1, Small
      <4> QED  BY <2>4, <4>1, <4>2 DEF Left
    <3> QED  BY <3>1, <3>2
  <2> QED  BY <2>1, <2>2, <2>3, <2>5 DEF x, c, s
<1> QED  BY <1>3, <1>4, <1>5, <1>6

\* "Binary periodic modes produce one event per divisor" (i8253.py:223): one
\* cycle more in a Tick is one cycle after the Tick.
THEOREM CycleBatch ==
  ASSUME NEW t, Counting(t), NEW n \in Nat
  PROVE  /\ Counted(t, n + 1) = OneCycle(Counted(t, n))
         /\ Events(t, n + 1) = Events(t, n) + IF Left(Counted(t, n)) = 1 THEN 1 ELSE 0
<1> DEFINE D == Divider(t)
           L == Left(t)
           x == n - L
<1>1. Word \in Nat /\ D \in 1..Word /\ D \in Nat \ {0} /\ D % Word = t.ini /\ L \in 1..Word
  <2>1. Word \in Nat /\ Word > 2
    BY WordBound
  <2>2. D \in 1..Word /\ D % Word = t.ini /\ L \in 1..Word
    BY Standing
  <2> QED  BY <2>1, <2>2
<1>2. n + 1 \in Nat
  OBVIOUS
<1>3. ASSUME NEW c PROVE [t EXCEPT !.cur = c].ini = t.ini /\ [[t EXCEPT !.cur = c] EXCEPT !.cur = t.ini] = [t EXCEPT !.cur = t.ini]
  BY DEF Counting, Timers
<1>4. CASE n + 1 < L
  <2> DEFINE s == Counted(t, n)
  <2>1. /\ n < L /\ n + 1 # 0 /\ L - n # 1 /\ (L - n) - 1 = L - (n + 1)
    BY <1>1, <1>4
  <2>2. s = [t EXCEPT !.cur = IF n = 0 THEN t.cur ELSE L - n] /\ Events(t, n) = 0 /\ Left(s) = L - n
    BY <2>1, Standing
  <2>3. Counted(t, n + 1) = [t EXCEPT !.cur = L - (n + 1)] /\ Events(t, n + 1) = 0
    BY <1>2, <1>4, <2>1, Standing
  <2>4. [s EXCEPT !.cur = L - (n + 1)] = [t EXCEPT !.cur = L - (n + 1)]
    BY <2>2 DEF Counting, Timers
  <2> HIDE DEF s, L
  <2>5. OneCycle(s) = [s EXCEPT !.cur = L - (n + 1)]
    BY <2>1, <2>2 DEF OneCycle
  <2> QED  BY <2>1, <2>2, <2>3, <2>4, <2>5 DEF s
<1>5. CASE n + 1 = L
  <2> DEFINE s == Counted(t, n)
  <2>1. n < L /\ n + 1 >= L /\ L - n = 1 /\ (n + 1) - L = 0
    BY <1>1, <1>5
  <2>2. s = [t EXCEPT !.cur = IF n = 0 THEN t.cur ELSE L - n] /\ Events(t, n) = 0 /\ Left(s) = 1
    BY <2>1, Standing
  <2>3. 0 % D = 0 /\ 0 \div D = 0 /\ D - 0 = D
    BY <1>1, Small
  <2>4. Counted(t, n + 1) = [t EXCEPT !.cur = (D - (0 % D)) % Word] /\ Events(t, n + 1) = 1 + (0 \div D)
    <3> DEFINE y == (n + 1) - L
    <3>1. Counted(t, n + 1) = [t EXCEPT !.cur = (D - (y % D)) % Word] /\ Events(t, n + 1) = 1 + (y \div D)
      BY <1>2, <2>1, Standing
    <3>2. y = 0
      BY <2>1
    <3> HIDE DEF y
    <3> QED  BY <3>1, <3>2
  <2>5. Counted(t, n + 1) = [t EXCEPT !.cur = t.ini] /\ Events(t, n + 1) = 1
    BY <1>1, <2>3, <2>4
  <2>6. s.ini = t.ini /\ [s EXCEPT !.cur = t.ini] = [t EXCEPT !.cur = t.ini]
    BY <2>2 DEF Counting, Timers
  <2> HIDE DEF s
  <2>7. OneCycle(s) = [s EXCEPT !.cur = t.ini]
    BY <2>2, <2>6 DEF OneCycle
  <2> QED  BY <2>2, <2>5, <2>6, <2>7 DEF s
<1>6. CASE n >= L
  <2> DEFINE s == Counted(t, n)
             c == D - (x % D)
             c2 == D - ((x + 1) % D)
  <2>1. n + 1 >= L /\ (n + 1) - L = x + 1 /\ x \in Int
    BY <1>1, <1>6
  <2>2. /\ s = [t EXCEPT !.cur = c % Word] /\ Events(t, n) = 1 + (x \div D)
        /\ c \in 1..D /\ Left(s) = c
    BY <1>6, Standing
  <2>3. Counted(t, n + 1) = [t EXCEPT !.cur = c2 % Word] /\ Events(t, n + 1) = 1 + ((x + 1) \div D)
    BY <1>2, <2>1, Standing
  <2> HIDE DEF x, D
  <2>4. /\ (x + 1) % D = IF x % D = D - 1 THEN 0 ELSE (x % D) + 1
        /\ (x + 1) \div D = IF x % D = D - 1 THEN (x \div D) + 1 ELSE x \div D
        /\ x % D \in 0..(D - 1) /\ x \div D \in Int
    BY <1>1, <2>1, Division, Successor
  <2>5. /\ s.ini = t.ini
        /\ \A v : [s EXCEPT !.cur = v] = [t EXCEPT !.cur = v]
    BY <2>2 DEF Counting, Timers
  <2> HIDE DEF s
  <2>6. CASE x % D = D - 1
    <3>1. c = 1 /\ c2 = D
      BY <1>1, <2>4, <2>6
    <3>2. OneCycle(s) = [s EXCEPT !.cur = t.ini]
      BY <2>2, <2>5, <3>1 DEF OneCycle
    <3>3. Counted(t, n + 1) = [t EXCEPT !.cur = t.ini]
      BY <1>1, <2>3, <3>1
    <3>4. Events(t, n + 1) = Events(t, n) + 1
      BY <2>2, <2>3, <2>4, <2>6
    <3> QED  BY <2>2, <2>5, <3>1, <3>2, <3>3, <3>4 DEF s
  <2>7. CASE x % D # D - 1
    <3>1. c # 1 /\ c2 = c - 1 /\ c2 \in 0..(Word - 1)
      BY <1>1, <2>4, <2>7
    <3>2. c2 % Word = c2
      <4>1. Word \in Nat \ {0}
        BY <1>1
      <4> HIDE DEF c, c2
      <4> QED  BY <3>1, <4>1, Small
    <3> HIDE DEF c, c2
    <3>3. OneCycle(s) = [s EXCEPT !.cur = c2]
      BY <2>2, <3>1 DEF OneCycle
    <3>4. Events(t, n + 1) = Events(t, n)
      BY <2>2, <2>3, <2>4, <2>7
    <3>5. Events(t, n) \in Int
      BY <2>2, <2>4
    <3>6. [s EXCEPT !.cur = c2] = [t EXCEPT !.cur = c2] /\ Left(s) # 1
      BY <2>2, <2>5, <3>1
    <3>7. Counted(t, n + 1) = OneCycle(s)
      BY <2>3, <3>2, <3>3, <3>6
    <3> QED  BY <3>4, <3>5, <3>6, <3>7 DEF s
  <2> QED  BY <2>6, <2>7
<1> QED
  <2>1. n + 1 < L \/ n + 1 = L \/ n >= L
    BY <1>1
  <2> QED  BY <2>1, <1>4, <1>5, <1>6
\* The recursive reference of PeriodsExact computes a batch, too.
LEMMA CyclesBatch ==
  ASSUME NEW t, Counting(t), NEW n \in Nat
  PROVE  Cycles(t, n) = [timer |-> Counted(t, n), events |-> Events(t, n)]
<1> DEFINE f == [k \in 0..n |-> [timer |-> Counted(t, k), events |-> Events(t, k)]]
           g == CycleByCycle(t, n)
           next(s) == [timer |-> OneCycle(s.timer),
                       events |-> s.events + IF Left(s.timer) = 1 THEN 1 ELSE 0]
<1>1. \A k \in 0..n : f[k] = IF k = 0 THEN [timer |-> t, events |-> 0] ELSE next(f[k - 1])
  <2> SUFFICES ASSUME NEW k \in 0..n
               PROVE  f[k] = IF k = 0 THEN [timer |-> t, events |-> 0] ELSE next(f[k - 1])
    OBVIOUS
  <2>1. CASE k = 0
    BY <2>1 DEF Counted, Events
  <2>2. CASE k # 0
    <3>1. k - 1 \in Nat /\ k - 1 \in 0..n /\ (k - 1) + 1 = k
      BY <2>2
    <3>2. /\ Counted(t, (k - 1) + 1) = OneCycle(Counted(t, k - 1))
          /\ Events(t, (k - 1) + 1) = Events(t, k - 1) + IF Left(Counted(t, k - 1)) = 1 THEN 1 ELSE 0
      BY <3>1, CycleBatch
    <3> QED  BY <2>2, <3>1, <3>2
  <2> QED  BY <2>1, <2>2
<1>2. f = [k \in 0..n |-> IF k = 0 THEN [timer |-> t, events |-> 0] ELSE next(f[k - 1])]
  BY <1>1
<1> HIDE DEF f
<1>3. g = [k \in 0..n |-> IF k = 0 THEN [timer |-> t, events |-> 0] ELSE next(g[k - 1])]
  BY <1>2 DEF CycleByCycle
<1> DEFINE S == {k \in 0..n : g[k] = f[k]}
<1> HIDE DEF g, next
<1>4. 0 \in S
  BY <1>1, <1>3 DEF S
<1>5. ASSUME NEW k \in 0..(n - 1), k \in S PROVE k + 1 \in S
  <2>1. k + 1 \in 0..n /\ k + 1 # 0 /\ (k + 1) - 1 = k
    BY <1>5
  <2>2. g[k + 1] = next(g[k]) /\ f[k + 1] = next(f[k])
    BY <1>1, <1>3, <2>1
  <2> QED  BY <1>5, <2>1, <2>2 DEF S
<1> HIDE DEF S
<1>6. n \in S
  BY <1>4, <1>5, Upwards
<1>7. g[n] = f[n]
  BY <1>6 DEF S
<1> QED  BY <1>7 DEF g, f, Cycles
-----------------------------------------------------------------------------
(* Types. *)

\* A Tick keeps the type of a counter, and what is latched.
LEMMA CountedType ==
  ASSUME NEW t \in Timers, InPhase(t), NEW n \in Nat
  PROVE  /\ Counted(t, n) \in Timers /\ InPhase(Counted(t, n))
         /\ Counted(t, n).latched = t.latched
         /\ Events(t, n) \in Nat
<1>1. Word \in Nat /\ Word > 2 /\ Word - 1 \in Nat
  BY WordBound
<1>2. t.cur \in (1 - Word)..(Word - 1) /\ t.ini \in 0..(Word - 1)
  BY DEF Timers, Words
<1>3. Divider(t) \in 1..Word /\ Divider(t) \in Nat \ {0} /\ t.cur \in Int /\ t.ini \in Int
  BY <1>1, <1>2 DEF Divider
<1>4. CASE ~t.running \/ n = 0
  BY <1>4 DEF Counted, Events
<1>5. CASE t.running /\ n # 0 /\ t.mode = Periodic
  <2>1. Counting(t)
    BY <1>5 DEF Counting, InPhase
  <2>2. CASE n < Left(t)
    <3>1. Left(t) - n \in Words /\ Left(t) \in 1..Word
      BY <1>1, <2>1, <2>2, <1>5, Standing DEF Words
    <3>2. Counted(t, n) = [t EXCEPT !.cur = Left(t) - n] /\ Events(t, n) = 0
      BY <1>5, <2>1, <2>2, Standing
    <3>3. Words \subseteq (1 - Word)..(Word - 1)
      BY <1>1 DEF Words
    <3> QED  BY <3>1, <3>2, <3>3 DEF Timers, InPhase
  <2>3. CASE n >= Left(t)
    <3> DEFINE x == n - Left(t)
               c == Divider(t) - (x % Divider(t))
    <3>1. /\ Counted(t, n) = [t EXCEPT !.cur = c % Word] /\ Events(t, n) = 1 + (x \div Divider(t))
          /\ x \in Nat /\ c \in 1..Divider(t)
      BY <2>1, <2>3, Standing
    <3> HIDE DEF c, x
    <3>2. x \div Divider(t) \in Nat
      BY <1>3, <3>1, Quotient
    <3>3. c % Word \in Words
      <4>1. c \in Int /\ Word \in Nat \ {0}
        BY <1>1, <1>3, <3>1
      <4> QED  BY <4>1, Division DEF Words
    <3>4. Words \subseteq (1 - Word)..(Word - 1)
      BY <1>1 DEF Words
    <3> QED  BY <3>1, <3>2, <3>3, <3>4 DEF Timers, InPhase
  <2> QED
    <3>1. Left(t) \in 1..Word
      BY <2>1, Standing
    <3> QED  BY <3>1, <1>1, <2>2, <2>3
<1>6. CASE t.running /\ n # 0 /\ t.mode # Periodic
  <2>1. Events(t, n) = IF n - t.cur < 0 THEN 0 ELSE (n - t.cur) \div Divider(t)
    BY <1>6 DEF Events
  <2>2. n - t.cur \in Int /\ (~(n - t.cur < 0) => n - t.cur \in Nat)
    BY <1>3
  <2>3. Events(t, n) \in Nat
    BY <1>3, <2>1, <2>2, Quotient
  <2>4. Count(t, n) \in (1 - Word)..(Word - 1)
    <3>1. CASE Events(t, n) = 0
      <4>1. Count(t, n) = t.cur - n
        BY <1>6, <3>1 DEF Count
      <4>2. n - t.cur < Divider(t)
        <5>1. CASE n - t.cur < 0
          BY <5>1, <1>3
        <5>2. CASE ~(n - t.cur < 0)
          <6>1. (n - t.cur) \div Divider(t) = 0
            BY <2>1, <3>1, <5>2
          <6>2. n - t.cur = Divider(t) * 0 + ((n - t.cur) % Divider(t))
            BY <1>3, <2>2, <6>1, Division
          <6>3. (n - t.cur) % Divider(t) \in 0..(Divider(t) - 1)
            BY <1>3, <2>2, Division
          <6> DEFINE rest == (n - t.cur) % Divider(t)
          <6> HIDE DEF rest
          <6>4. n - t.cur = Divider(t) * 0 + rest /\ rest \in 0..(Divider(t) - 1)
            BY <6>2, <6>3 DEF rest
          <6> QED  BY <1>3, <6>4
        <5> QED  BY <5>1, <5>2
      <4> QED  BY <1>1, <1>2, <1>3, <4>1, <4>2
    <3>2. CASE Events(t, n) # 0 /\ t.mode = OneShot
      <4>1. Count(t, n) = (t.cur - n) % Word
        BY <1>6, <3>2 DEF Count
      <4>2. (t.cur - n) % Word \in 0..(Word - 1)
        <5>1. t.cur - n \in Int /\ Word \in Nat \ {0}
          BY <1>1, <1>3
        <5> QED  BY <5>1, Division
      <4> QED  BY <1>1, <4>1, <4>2
    <3>3. CASE Events(t, n) # 0 /\ t.mode # OneShot
      <4> DEFINE rest == (n - t.cur) % Divider(t)
      <4>1. Count(t, n) = t.ini - rest
        BY <1>6, <3>3 DEF Count
      <4>2. rest \in 0..(Divider(t) - 1)
        BY <1>3, <2>2, Division
      <4>3. t.ini = 0 \/ t.ini = Divider(t)
        BY DEF Divider
      <4> HIDE DEF rest
      <4> QED  BY <1>1, <1>2, <1>3, <4>1, <4>2, <4>3
    <3> QED  BY <3>1, <3>2, <3>3
  <2>5. Counted(t, n) = [t EXCEPT !.cur = Count(t, n)]
    BY <1>6 DEF Counted
  <2> QED  BY <1>6, <2>3, <2>4, <2>5 DEF Timers, InPhase
<1> QED  BY <1>4, <1>5, <1>6
\* The registers of the DMA controller keep their types.
LEMMA DmaTypeStep ==
  ASSUME DmaTypeOK,
         DmaProgram \/ \E c \in Channels : Transfer(c)
  PROVE  DmaTypeOK'
<1>1. /\ channel \in [Channels -> Registers] /\ high \in BOOLEAN /\ enabled \in BOOLEAN
  BY DEF DmaTypeOK
<1>2. ASSUME NEW c \in Channels, Transfer(c) PROVE DmaTypeOK'
  BY <1>1, <1>2, RequestedType DEF Transfer, DmaTypeOK
<1>3. ASSUME NEW c \in Channels, NEW v \in Bytes, WriteAddress(c, v) PROVE DmaTypeOK'
  <2>1. Put(channel[c].address, v, high) \in Words /\ Put(channel[c].baseAddress, v, high) \in Words
    BY <1>1, PutWord DEF Registers
  <2>2. channel' = [channel EXCEPT ![c] =
          [channel[c] EXCEPT !.address = Put(channel[c].address, v, high),
                             !.baseAddress = Put(channel[c].baseAddress, v, high)]]
    BY <1>1, <1>3 DEF WriteAddress
  <2>3. [channel[c] EXCEPT !.address = Put(channel[c].address, v, high),
                           !.baseAddress = Put(channel[c].baseAddress, v, high)] \in Registers
    BY <1>1, <2>1 DEF Registers
  <2>4. high' \in BOOLEAN /\ enabled' = enabled
    BY <1>1, <1>3 DEF WriteAddress
  <2> QED  BY <1>1, <2>2, <2>3, <2>4 DEF DmaTypeOK
<1>4. ASSUME NEW c \in Channels, NEW v \in Bytes, WriteCount(c, v) PROVE DmaTypeOK'
  <2>1. Put(channel[c].count, v, high) \in Words /\ Put(channel[c].baseCount, v, high) \in Words
    BY <1>1, PutWord DEF Registers
  <2>2. channel' = [channel EXCEPT ![c] =
          [channel[c] EXCEPT !.count = Put(channel[c].count, v, high),
                             !.baseCount = Put(channel[c].baseCount, v, high)]]
    BY <1>1, <1>4 DEF WriteCount
  <2>3. [channel[c] EXCEPT !.count = Put(channel[c].count, v, high),
                           !.baseCount = Put(channel[c].baseCount, v, high)] \in Registers
    BY <1>1, <2>1 DEF Registers
  <2>4. high' \in BOOLEAN /\ enabled' = enabled
    BY <1>1, <1>4 DEF WriteCount
  <2> QED  BY <1>1, <2>2, <2>3, <2>4 DEF DmaTypeOK
<1>5. ASSUME NEW on \in BOOLEAN, WriteCommand(on) PROVE DmaTypeOK'
  BY <1>1, <1>5 DEF WriteCommand, DmaTypeOK
<1>6. ASSUME NEW c \in Channels, NEW auto \in BOOLEAN, NEW down \in BOOLEAN, WriteMode(c, auto, down)
      PROVE DmaTypeOK'
  <2>1. channel' = [channel EXCEPT ![c] = [channel[c] EXCEPT !.auto = auto, !.down = down]]
    BY <1>1, <1>6 DEF WriteMode
  <2>2. [channel[c] EXCEPT !.auto = auto, !.down = down] \in Registers
    BY <1>1, <1>6 DEF Registers
  <2> QED  BY <1>1, <1>6, <2>1, <2>2 DEF WriteMode, DmaTypeOK
<1>7. ASSUME NEW masked \in SUBSET Channels, WriteMasks(masked) PROVE DmaTypeOK'
  <2>1. ASSUME NEW r \in Registers, NEW b \in BOOLEAN PROVE [r EXCEPT !.mask = b] \in Registers
    BY DEF Registers
  <2>2. \A c \in Channels : (c \in masked) \in BOOLEAN
    OBVIOUS
  <2>3. \A c \in Channels : [channel[c] EXCEPT !.mask = c \in masked] \in Registers
    BY <1>1, <2>1, <2>2, Zenon
  <2>4. [c \in Channels |-> [channel[c] EXCEPT !.mask = c \in masked]] \in [Channels -> Registers]
    BY <2>3, Zenon
  <2> QED  BY <1>1, <1>7, <2>4, Zenon DEF WriteMasks, DmaTypeOK
<1>8. CASE ResetFlipFlop
  BY <1>1, <1>8 DEF ResetFlipFlop, DmaTypeOK
<1>9. CASE MasterReset
  BY <1>1, <1>9 DEF MasterReset, DmaTypeOK, Registers
<1>10. CASE ReadRegister
  BY <1>1, <1>10 DEF ReadRegister, DmaTypeOK
<1>11. CASE ReadStatus
  BY <1>1, <1>11 DEF ReadStatus, DmaTypeOK, Registers
<1> QED  BY <1>2, <1>3, <1>4, <1>5, <1>6, <1>7, <1>8, <1>9, <1>10, <1>11 DEF DmaProgram

\* The timer's ports keep the types of the counters.
LEMMA PitTypeStep ==
  ASSUME TypeOK, PitProgram \/ (\E i \in Counters : Latch(i) /\ UNCHANGED <<dmaVars, clock>>),
         irq' \in BOOLEAN
  PROVE  TypeOK'
<1>1. /\ timer \in [Counters -> Timers] /\ \A i \in Counters : InPhase(timer[i])
      /\ taken \in [Counters -> Bytes \cup {None}]
  BY DEF TypeOK
<1>2. Word \in Nat /\ Word > 2 /\ Byte \in Nat \ {0} /\ Bytes \subseteq Words
  BY WordBound DEF Words, Bytes
<1>3. UNCHANGED <<dmaVars, clock>> => DmaTypeOK' /\ clock' \in 0..Prescale - 1
  BY DEF TypeOK, DmaTypeOK, dmaVars
<1>4. \A w \in Words : w % Byte \in Bytes
  <2> SUFFICES ASSUME NEW w \in Words PROVE w % Byte \in Bytes
    OBVIOUS
  <2>1. w \in Int
    BY <1>2 DEF Words
  <2> QED  BY <1>2, <2>1, Division DEF Bytes
<1>5. ASSUME NEW i \in Counters, NEW t \in Timers, InPhase(t), timer' = [timer EXCEPT ![i] = t],
             taken' \in [Counters -> Bytes \cup {None}], UNCHANGED <<dmaVars, clock>>
      PROVE  TypeOK'
  BY <1>1, <1>3, <1>5 DEF TypeOK
<1>6. ASSUME NEW i \in Counters, NEW v \in Bytes, WriteCounter(i, v), UNCHANGED <<dmaVars, clock>>
      PROVE  TypeOK'
  <2> DEFINE t == timer[i]
             ini == IF IsLow(t) THEN Put(t.ini, v, FALSE)
                    ELSE IF IsHigh(t) THEN Put(t.ini, v, TRUE) ELSE t.ini
             u == IF t.phase = 0 THEN t
                  ELSE IF t.phase = 1
                  THEN [t EXCEPT !.ini = ini, !.phase = Width(t.access), !.cur = ini,
                                 !.running = TRUE]
                  ELSE [t EXCEPT !.ini = ini, !.phase = @ - 1]
  <2>1. timer' = [timer EXCEPT ![i] = u] /\ taken' \in [Counters -> Bytes \cup {None}]
    BY <1>1, <1>6 DEF WriteCounter
  <2>2. t \in Timers /\ InPhase(t) /\ t.ini \in Words /\ t.phase \in Words
    BY <1>1 DEF Timers
  <2> HIDE DEF t
  <2>3. ini \in Words
    BY <2>2, PutWord
  <2> HIDE DEF ini
  <2>4. Width(t.access) \in Words /\ (t.access # "none" => Width(t.access) \in 1..2)
    BY <1>2, <2>2 DEF Width, Timers, Words
  <2>5. ini \in (1 - Word)..(Word - 1)
    BY <1>2, <2>3 DEF Words
  <2>6. t.phase # 0 => t.phase - 1 \in Words
    BY <1>2, <2>2 DEF Words
  <2>7. u \in Timers
    BY <2>2, <2>3, <2>4, <2>5, <2>6 DEF Timers
  <2>8. InPhase(u)
    <3>1. CASE t.phase = 0
      BY <2>2, <3>1
    <3>2. CASE t.phase = 1
      <4>1. u.access = t.access /\ u.phase = Width(t.access) /\ u.cur = ini
        BY <2>2, <3>2 DEF Timers
      <4> HIDE DEF u
      <4> QED  BY <4>1, <2>3, <2>4 DEF InPhase
    <3>3. CASE t.phase # 0 /\ t.phase # 1
      <4>1. /\ u.access = t.access /\ u.phase = t.phase - 1 /\ u.cur = t.cur
            /\ u.running = t.running /\ u.mode = t.mode
        BY <2>2, <3>3 DEF Timers
      <4>2. t.access # "none" => t.phase - 1 \in 1..Width(t.access)
        BY <2>2, <2>4, <3>3 DEF InPhase
      <4> HIDE DEF u
      <4> QED  BY <4>1, <4>2, <2>2 DEF InPhase
    <3> QED  BY <3>1, <3>2, <3>3
  <2> HIDE DEF u
  <2> QED  BY <1>5, <1>6, <2>1, <2>7, <2>8
<1>7. ASSUME NEW i \in Counters, ReadCounter(i), UNCHANGED <<dmaVars, clock>> PROVE TypeOK'
  <2> DEFINE t == timer[i]
             phase == (t.phase - 1) % Word
             u == IF phase = 0 THEN [t EXCEPT !.phase = Width(t.access), !.latched = None]
                  ELSE [t EXCEPT !.phase = phase]
  <2>1. timer' = [timer EXCEPT ![i] = u]
    BY <1>7 DEF ReadCounter
  <2>2. t \in Timers /\ InPhase(t) /\ t.phase \in Words /\ t.latched \in Words \cup {None}
    BY <1>1 DEF Timers
  <2>3. taken' \in [Counters -> Bytes \cup {None}]
    <3>1. t.latched # None => t.latched % Byte \in Bytes
      BY <1>4, <2>2
    <3> QED  BY <1>1, <1>7, <3>1 DEF ReadCounter
  <2> HIDE DEF t
  <2>4. phase \in Words
    <3>1. t.phase - 1 \in Int /\ Word \in Nat \ {0}
      BY <1>2, <2>2 DEF Words
    <3> QED  BY <3>1, Division DEF Words
  <2>5. t.phase # 0 => phase = t.phase - 1
    <3>1. t.phase # 0 => t.phase - 1 \in 0..(Word - 1) /\ Word \in Nat \ {0}
      BY <1>2, <2>2 DEF Words
    <3> QED  BY <3>1, Small
  <2> HIDE DEF phase
  <2>6. Width(t.access) \in Words /\ (t.access # "none" => Width(t.access) \in 1..2)
    BY <1>2, <2>2 DEF Width, Timers, Words
  <2>7. u \in Timers
    BY <2>2, <2>4, <2>6 DEF Timers
  <2>8. /\ u.access = t.access /\ u.cur = t.cur /\ u.running = t.running /\ u.mode = t.mode
        /\ u.phase = IF phase = 0 THEN Width(t.access) ELSE phase
    BY <2>2 DEF Timers
  <2>9. t.access # "none" => u.phase \in 1..Width(t.access)
    <3>1. SUFFICES ASSUME t.access # "none" PROVE u.phase \in 1..Width(t.access)
      OBVIOUS
    <3>2. t.phase \in 1..Width(t.access) /\ Width(t.access) \in 1..2
      BY <2>2, <2>6, <3>1 DEF InPhase
    <3>3. phase = t.phase - 1
      BY <2>5, <3>2
    <3> HIDE DEF u
    <3> QED  BY <2>8, <3>2, <3>3
  <2> HIDE DEF u
  <2>10. InPhase(u)
    BY <2>2, <2>8, <2>9 DEF InPhase
  <2> QED  BY <1>5, <1>7, <2>1, <2>3, <2>7, <2>10
<1>8. ASSUME NEW i \in Counters, Latch(i), UNCHANGED <<dmaVars, clock>> PROVE TypeOK'
  <2> DEFINE t == timer[i]
             u == [t EXCEPT !.latched = IF @ = None /\ t.access # "none" THEN t.cur % Word ELSE @]
  <2>1. timer' = [timer EXCEPT ![i] = u] /\ taken' \in [Counters -> Bytes \cup {None}]
    BY <1>1, <1>8 DEF Latch
  <2>2. t \in Timers /\ InPhase(t) /\ t.cur \in Int
    BY <1>1, <1>2 DEF Timers
  <2> HIDE DEF t
  <2>3. t.cur % Word \in Words
    <3>1. t.cur \in Int /\ Word \in Nat \ {0}
      BY <1>2, <2>2
    <3> QED  BY <3>1, Division DEF Words
  <2>4. u \in Timers /\ InPhase(u)
    BY <2>2, <2>3 DEF Timers, InPhase
  <2> HIDE DEF u
  <2> QED  BY <1>5, <1>8, <2>1, <2>4
<1>9. ASSUME NEW i \in Counters, NEW access \in Widths, NEW mode \in Modes,
             Command(i, access, mode), UNCHANGED <<dmaVars, clock>>
      PROVE  TypeOK'
  <2> DEFINE t == timer[i]
             u == [t EXCEPT !.latched = None, !.mode = mode, !.access = access,
                            !.running = FALSE, !.ini = 0, !.phase = Width(access)]
  <2>1. timer' = [timer EXCEPT ![i] = u] /\ taken' \in [Counters -> Bytes \cup {None}]
    BY <1>1, <1>9 DEF Command
  <2>2. t \in Timers /\ access \in {"low", "high", "both"} /\ 0 \in Words /\ mode \in {Periodic, OneShot, Other}
    BY <1>1, <1>2, TimingAssumption DEF TimingAssumption, Words
  <2>3. Width(access) \in 1..2 /\ Width(access) \in Words
    BY <1>2, <2>2 DEF Width, Words
  <2> HIDE DEF t
  <2>4. u \in Timers
    BY <2>2, <2>3 DEF Timers
  <2>5. u.access = access /\ u.phase = Width(access) /\ ~u.running
    BY <2>2 DEF Timers
  <2> HIDE DEF u
  <2>6. InPhase(u)
    BY <2>3, <2>5 DEF InPhase
  <2> QED  BY <1>5, <1>9, <2>1, <2>4, <2>6
<1> QED  BY <1>6, <1>7, <1>8, <1>9 DEF PitProgram
\* A Tick keeps all types.
LEMMA TickTypeStep ==
  ASSUME TypeOK, NEW cycles \in Portions, Tick(cycles)
  PROVE  /\ TypeOK'
         /\ Spent(cycles) \in Nat
         /\ \A i \in Counters : timer'[i] = Counted(timer[i], Spent(cycles))
<1> DEFINE n == Spent(cycles)
<1>1. /\ Prescale \in Nat \ {0} /\ cycles \in Nat /\ 1 \in Counters /\ 0 \in Counters /\ 0 \in Channels
      /\ clock + cycles \in Nat
  BY TimingAssumption, DmaAssumption DEF TimingAssumption, DmaAssumption, TypeOK
<1>2. n \in Nat /\ (clock + cycles) % Prescale \in 0..(Prescale - 1)
  <2> DEFINE all == clock + cycles
  <2>1. all \in Nat /\ all \in Int
    BY <1>1
  <2> HIDE DEF all
  <2>2. all \div Prescale \in Nat
    BY <1>1, <2>1, Quotient, Zenon
  <2>3. all % Prescale \in 0..(Prescale - 1)
    BY <1>1, <2>1, Division, Zenon
  <2> QED  BY <2>2, <2>3 DEF n, Spent, all
<1> HIDE DEF n
<1>3. /\ clock' = (clock + cycles) % Prescale
      /\ timer' = [i \in Counters |-> Counted(timer[i], n)]
      /\ channel' = [channel EXCEPT ![0] = Requested(@, Events(timer[1], n))]
      /\ irq' = (Events(timer[0], n) > 0)
      /\ UNCHANGED <<high, enabled, taken>>
  BY DEF Tick, n
<1>4. \A i \in Counters : /\ Counted(timer[i], n) \in Timers /\ InPhase(Counted(timer[i], n))
                          /\ Events(timer[i], n) \in Nat
  BY <1>2, CountedType DEF TypeOK
<1>5. DmaTypeOK'
  <2>1. /\ channel \in [Channels -> Registers] /\ high \in BOOLEAN /\ enabled \in BOOLEAN
    BY DEF TypeOK, DmaTypeOK
  <2>2. Requested(channel[0], Events(timer[1], n)) \in Registers
    BY <1>1, <1>4, <2>1, RequestedType
  <2> QED  BY <1>1, <1>3, <2>1, <2>2 DEF DmaTypeOK
<1>6. timer' \in [Counters -> Timers] /\ \A i \in Counters : InPhase(timer'[i])
  BY <1>3, <1>4
<1>7. irq' \in BOOLEAN
  <2>1. irq' = TRUE \/ irq' = FALSE
    BY <1>3
  <2> QED  BY <2>1
<1>8. TypeOK'
  BY <1>2, <1>3, <1>5, <1>6, <1>7 DEF TypeOK
<1> QED  BY <1>2, <1>3, <1>8 DEF n

\* Every step keeps all types.
LEMMA TypeStep == TypeOK /\ [Next]_vars => TypeOK'
<1> SUFFICES ASSUME TypeOK, [Next]_vars PROVE TypeOK'
  OBVIOUS
<1>1. CASE Program
  BY <1>1, PitTypeStep DEF Program
<1>2. CASE Configure
  <2>1. DmaTypeOK'
    BY <1>2, DmaTypeStep DEF Configure, TypeOK
  <2> QED  BY <1>2, <2>1 DEF Configure, TypeOK
<1>3. ASSUME NEW i \in Counters, Hold(i) PROVE TypeOK'
  <2>1. Latch(i) /\ UNCHANGED <<dmaVars, clock>> /\ irq' \in BOOLEAN
    BY <1>3 DEF Hold
  <2> QED  BY <2>1, PitTypeStep
<1>4. ASSUME NEW cycles \in Portions, Tick(cycles) PROVE TypeOK'
  BY <1>4, TickTypeStep
<1>5. ASSUME NEW c \in Channels, Device(c) PROVE TypeOK'
  <2>1. DmaTypeOK'
    BY <1>5, DmaTypeStep DEF Device, TypeOK
  <2> QED  BY <1>5, <2>1 DEF Device, TypeOK
<1>6. CASE UNCHANGED vars
  BY <1>6 DEF vars, dmaVars, pitVars, TypeOK, DmaTypeOK
<1> QED  BY <1>1, <1>2, <1>3, <1>4, <1>5, <1>6 DEF Next

LEMMA TypeInit == Init => TypeOK
<1> SUFFICES ASSUME Init PROVE TypeOK
  OBVIOUS
<1>1. Word \in Nat /\ Word > 2 /\ 0 \in Words /\ 0 \in (1 - Word)..(Word - 1)
  BY WordBound DEF Words
<1>2. DmaTypeOK
  BY <1>1 DEF Init, DmaInit, DmaTypeOK, Registers
<1>3. timer \in [Counters -> Timers]
  BY <1>1 DEF Init, Timers
<1>4. \A i \in Counters : timer[i].access = "none" /\ ~timer[i].running
  BY DEF Init
<1>5. \A i \in Counters : InPhase(timer[i])
  BY <1>4 DEF InPhase
<1>6. clock \in 0..Prescale - 1 /\ taken \in [Counters -> Bytes \cup {None}] /\ irq \in BOOLEAN
  <2>1. clock = 0 /\ Prescale \in Nat \ {0}
    BY TimingAssumption DEF TimingAssumption, Init
  <2>2. taken \in [Counters -> Bytes \cup {None}] /\ irq \in BOOLEAN
    BY DEF Init
  <2> QED  BY <2>1, <2>2
<1> QED  BY <1>2, <1>3, <1>5, <1>6 DEF TypeOK

\* The types of both chips, for every width of a byte (i8253.py, i8237.py): the
\* byte phase of a programmed counter stays within its width, and a periodic
\* counter within a word.
THEOREM TimingTypeCorrect == Spec => []TypeOK
<1>1. QED  BY TypeInit, TypeStep, PTL DEF Spec

-----------------------------------------------------------------------------
(* The properties. *)

\* i8253.py:222-231: for every width, divider, prescaler and cut of the cycles
\* into Ticks, no period is lost or counted twice.
THEOREM TimingPeriodsExact == Spec => PeriodsExact
<1> DEFINE Exact == \A cycles \in Portions : Tick(cycles) /\ Spent(cycles) > 0 =>
                      /\ \A i \in Counters :
                           timer[i].running /\ timer[i].mode = Periodic =>
                             timer'[i] = Cycles(timer[i], Spent(cycles)).timer
                      /\ timer[0].running /\ timer[0].mode = Periodic =>
                             irq' = (Cycles(timer[0], Spent(cycles)).events > 0)
<1>1. TypeOK => Exact
  <2> SUFFICES ASSUME TypeOK, NEW cycles \in Portions, Tick(cycles), Spent(cycles) > 0
               PROVE  /\ \A i \in Counters :
                           timer[i].running /\ timer[i].mode = Periodic =>
                             timer'[i] = Cycles(timer[i], Spent(cycles)).timer
                      /\ timer[0].running /\ timer[0].mode = Periodic =>
                             irq' = (Cycles(timer[0], Spent(cycles)).events > 0)
    OBVIOUS
  <2>1. Spent(cycles) \in Nat /\ \A i \in Counters : timer'[i] = Counted(timer[i], Spent(cycles))
    BY TickTypeStep
  <2>2. \A i \in Counters : timer[i].running /\ timer[i].mode = Periodic => Counting(timer[i])
    BY DEF TypeOK, InPhase, Counting
  <2>3. \A i \in Counters : timer[i].running /\ timer[i].mode = Periodic =>
          /\ Cycles(timer[i], Spent(cycles)).timer = Counted(timer[i], Spent(cycles))
          /\ Cycles(timer[i], Spent(cycles)).events = Events(timer[i], Spent(cycles))
    BY <2>1, <2>2, CyclesBatch
  <2>4. irq' = (Events(timer[0], Spent(cycles)) > 0) /\ 0 \in Counters
    BY TimingAssumption DEF Tick, TimingAssumption
  <2> QED  BY <2>1, <2>3, <2>4
<1>2. TypeOK /\ [Next]_vars => [Exact]_vars
  BY <1>1
<1> HIDE DEF Exact
<1>3. Spec => [][Exact]_vars
  BY TypeInit, TypeStep, <1>2, PTL DEF Spec
<1> QED  BY <1>3 DEF Exact, PeriodsExact
\* i8237.py:88-91, for every width, block length, direction and number of
\* requests in a Tick: the channel is left as by single requests.
THEOREM TimingRefreshExact == Spec => RefreshExact
<1> DEFINE Exact == \A cycles \in Portions :
             (Tick(cycles) /\ Spent(cycles) > 0 /\ timer[1].running /\ timer[1].mode = Periodic) =>
               channel'[0] = IF enabled
                             THEN Requests(channel[0], Cycles(timer[1], Spent(cycles)).events)
                             ELSE channel[0]
<1>1. TypeOK => Exact
  <2> SUFFICES ASSUME TypeOK, NEW cycles \in Portions, Tick(cycles), Spent(cycles) > 0,
                      timer[1].running, timer[1].mode = Periodic
               PROVE  channel'[0] = IF enabled
                                    THEN Requests(channel[0], Cycles(timer[1], Spent(cycles)).events)
                                    ELSE channel[0]
    OBVIOUS
  <2>1. Spent(cycles) \in Nat /\ 1 \in Counters /\ 0 \in Channels
    BY TickTypeStep, TimingAssumption, DmaAssumption DEF TimingAssumption, DmaAssumption
  <2>2. Counting(timer[1]) /\ timer[1] \in Timers /\ InPhase(timer[1])
    BY <2>1 DEF TypeOK, InPhase, Counting
  <2>3. Cycles(timer[1], Spent(cycles)).events = Events(timer[1], Spent(cycles))
    BY <2>1, <2>2, CyclesBatch
  <2>4. Events(timer[1], Spent(cycles)) \in Nat
    BY <2>1, <2>2, CountedType
  <2>5. channel[0] \in Registers /\ channel \in [Channels -> Registers]
    BY <2>1 DEF TypeOK, DmaTypeOK
  <2>6. channel'[0] = Requested(channel[0], Events(timer[1], Spent(cycles)))
    BY <2>1, <2>5 DEF Tick
  <2>7. CASE enabled
    BY <2>3, <2>4, <2>5, <2>6, <2>7, RequestsBatch
  <2>8. CASE ~enabled
    BY <2>6, <2>8 DEF Requested
  <2> QED  BY <2>7, <2>8
<1>2. TypeOK /\ [Next]_vars => [Exact]_vars
  BY <1>1
<1> HIDE DEF Exact
<1>3. Spec => [][Exact]_vars
  BY TypeInit, TypeStep, <1>2, PTL DEF Spec
<1> QED  BY <1>3 DEF Exact, RefreshExact

\* i8253.py:176-177 and 158-162: whatever is read, written, latched again and
\* counted between the two reads of a latched count, both are of that count.
THEOREM TimingLatchHeld == Spec => []LatchHeld
<1>1. Init => LatchHeld
  BY DEF Init, LatchHeld
<1>2. TypeOK /\ LatchHeld /\ [Next]_vars => LatchHeld'
  <2> SUFFICES ASSUME TypeOK, LatchHeld, [Next]_vars PROVE LatchHeld'
    OBVIOUS
  <2>1. timer \in [Counters -> Timers] /\ taken \in [Counters -> Bytes \cup {None}]
    BY DEF TypeOK
  <2>2. ASSUME NEW i \in Counters, Latch(i) PROVE LatchHeld'
    BY <2>1, <2>2 DEF Latch, LatchHeld, Timers
  <2>3. CASE Program
    <3>1. ASSUME NEW i \in Counters, NEW v \in Bytes, WriteCounter(i, v) PROVE LatchHeld'
      <4>1. taken' = taken /\ \A j \in Counters : timer'[j].latched = timer[j].latched
        BY <2>1, <3>1 DEF WriteCounter, Timers
      <4> QED  BY <4>1 DEF LatchHeld
    <3>2. ASSUME NEW i \in Counters, ReadCounter(i) PROVE LatchHeld'
      <4> DEFINE over == (timer[i].phase - 1) % Word = 0
                 low == timer[i].latched # None /\ IsLow(timer[i])
      <4>1. /\ \A j \in Counters : timer'[j].latched = IF j = i /\ over THEN None ELSE timer[j].latched
            /\ \A j \in Counters : taken'[j] = IF j # i THEN taken[j] ELSE IF over THEN None
                                               ELSE IF low THEN timer[i].latched % Byte ELSE taken[i]
        BY <2>1, <3>2 DEF ReadCounter, Timers
      <4> QED  BY <4>1 DEF LatchHeld
    <3>3. ASSUME NEW i \in Counters, NEW access \in Widths, NEW mode \in Modes,
                 Command(i, access, mode)
          PROVE  LatchHeld'
      <4>1. /\ \A j \in Counters : timer'[j].latched = IF j = i THEN None ELSE timer[j].latched
            /\ \A j \in Counters : taken'[j] = IF j = i THEN None ELSE taken[j]
        BY <2>1, <3>3 DEF Command, Timers
      <4> QED  BY <4>1 DEF LatchHeld
    <3> QED  BY <2>3, <3>1, <3>2, <3>3 DEF Program, PitProgram
  <2>4. ASSUME NEW cycles \in Portions, Tick(cycles) PROVE LatchHeld'
    <3>1. taken' = taken /\ \A i \in Counters : timer'[i].latched = timer[i].latched
      <4>1. \A i \in Counters : Counted(timer[i], Spent(cycles)).latched = timer[i].latched
        BY <2>4, TickTypeStep, CountedType DEF TypeOK
      <4> QED  BY <2>4, <4>1, TickTypeStep DEF Tick
    <3> QED  BY <3>1 DEF LatchHeld
  <2>5. CASE Configure
    BY <2>5 DEF Configure, LatchHeld
  <2>6. ASSUME NEW c \in Channels, Device(c) PROVE LatchHeld'
    BY <2>6 DEF Device, LatchHeld
  <2>7. CASE UNCHANGED vars
    BY <2>7 DEF vars, pitVars, LatchHeld
  <2> QED  BY <2>2, <2>3, <2>4, <2>5, <2>6, <2>7 DEF Next, Hold
<1> QED  BY <1>1, <1>2, TimingTypeCorrect, PTL DEF Spec

-----------------------------------------------------------------------------
(* The serial port. *)

\* The queue never holds more than the host may have waiting: a write is
\* refused as a whole, and a byte that loops back only goes to an empty queue.
LEMMA QueueBound ==
  ASSUME rx \in 0..UartCapacity,
         (\E n \in 1..UartCapacity : HostWrite(n)) \/ ReadRbr \/ WriteThr
  PROVE  rx' \in 0..UartCapacity
<1> USE UartAssumption
<1>1. ASSUME NEW n \in 1..UartCapacity, HostWrite(n) PROVE rx' \in 0..UartCapacity
  <2>1. rx + n <= UartCapacity /\ rx' = rx + n
    BY <1>1 DEF HostWrite
  <2>2. QED BY <2>1
<1>2. CASE ReadRbr
  <2>1. rx' = IF rx = 0 THEN 0 ELSE rx - 1
    BY <1>2 DEF ReadRbr
  <2>2. QED BY <2>1
<1>3. CASE WriteThr
  <2>1. rx' = rx \/ rx' = 1
    BY <1>3, Zenon DEF WriteThr
  <2>2. QED BY <2>1
<1>4. QED BY <1>1, <1>2, <1>3

\* Type correctness of the port, whatever the guest writes to it and however
\* much the host queues (uart8250.py:33-136).
THEOREM UartTypeCorrect == UartSpec => []UartTypeOK
<1> USE UartAssumption
<1>1. UartInit => UartTypeOK
  <2> SUFFICES ASSUME UartInit PROVE UartTypeOK
    OBVIOUS
  <2>1. rx \in 0..UartCapacity
    BY DEF UartInit
  <2>2. QED BY <2>1, Zenon DEF UartInit, UartTypeOK, Causes
<1>2. UartTypeOK /\ [UartNext]_uartVars => UartTypeOK'
  <2> SUFFICES ASSUME UartTypeOK, [UartNext]_uartVars PROVE UartTypeOK'
    OBVIOUS
  <2> USE DEF UartTypeOK, Causes, Busy, Notify
  <2>1. ASSUME NEW n \in 1..UartCapacity, HostWrite(n) PROVE UartTypeOK'
    <3>1. rx' \in 0..UartCapacity
      BY <2>1, QueueBound
    <3>2. QED BY <2>1, <3>1, Zenon DEF HostWrite
  <2>2. CASE ReadRbr
    <3>1. rx' \in 0..UartCapacity
      BY <2>2, QueueBound
    <3>2. QED BY <2>2, <3>1, Zenon DEF ReadRbr
  <2>3. CASE ReadIir
    BY <2>3 DEF ReadIir, Cause
  <2>4. CASE ReadLsr
    BY <2>4 DEF ReadLsr
  <2>5. CASE ReadMsr
    BY <2>5 DEF ReadMsr
  <2>6. CASE WriteThr
    <3>1. rx' \in 0..UartCapacity
      BY <2>6, QueueBound
    <3>2. overrun' \in BOOLEAN
      BY <2>6, Zenon DEF WriteThr
    <3>3. QED BY <2>6, <3>1, <3>2, Zenon DEF WriteThr
  <2>7. ASSUME NEW causes \in SUBSET Causes, WriteIer(causes) PROVE UartTypeOK'
    BY <2>7 DEF WriteIer
  <2>8. ASSUME NEW gate \in BOOLEAN, NEW loop \in BOOLEAN, WriteMcr(gate, loop)
        PROVE UartTypeOK'
    BY <2>8 DEF WriteMcr
  <2>9. CASE EnterHandler
    BY <2>9 DEF EnterHandler
  <2>10. CASE LeaveHandler
    BY <2>10 DEF LeaveHandler
  <2>11. CASE UNCHANGED uartVars
    BY <2>11 DEF uartVars
  <2>12. QED
    BY <2>1, <2>2, <2>3, <2>4, <2>5, <2>6, <2>7, <2>8, <2>9, <2>10, <2>11 DEF UartNext
<1>3. QED BY <1>1, <1>2, PTL DEF UartSpec

-----------------------------------------------------------------------------
\* A handler that is done, and a condition whose request waits.
MayLeave ==
  handler = "clear" \/ (handler \in {"served", "thre"} /\ ier \subseteq {"rx", "thre"})
CauseAsked == out2 /\ Cause # "clear" => requested

\* ConditionAnnounced is not inductive: a handler that leaves must not leave
\* a condition behind.
AnnouncedInv == ConditionAnnounced /\ (MayLeave => CauseAsked)

\* Every access that notifies leaves no condition without its request.
LEMMA NotifyAnnounces ==
  ASSUME Notify
  PROVE  AnnouncedInv'
BY DEF Notify, AnnouncedInv, ConditionAnnounced, CauseAsked

\* One that clears a condition keeps the requests of the others; its handler
\* is not done.
LEMMA ClearingKeeps ==
  ASSUME AnnouncedInv, Busy("at work"), UNCHANGED <<out2, requested>>,
         Cause' # "clear" => Cause # "clear"
  PROVE  AnnouncedInv'
BY DEF AnnouncedInv, ConditionAnnounced, MayLeave, Busy

\* Reading the IIR takes the transmitter's cause away.  A handler that was
\* told there is nothing, or nothing but that, may go: nothing else is enabled
\* that could hide behind it.
LEMMA ReadIirAnnounces ==
  ASSUME UartTypeOK, AnnouncedInv, ReadIir
  PROVE  AnnouncedInv'
<1> USE DEF ReadIir
<1>1. Cause' # "clear" => Cause # "clear"
  BY DEF Cause
<1>2. CASE handler = "none"
  BY <1>1, <1>2 DEF Busy, AnnouncedInv, ConditionAnnounced, MayLeave
<1>3. CASE handler # "none"
  <2>1. handler' = Cause /\ Cause # "none" /\ Cause # "served"
    BY <1>3 DEF Busy, Cause
  <2>2. ConditionAnnounced'
    BY <2>1 DEF ConditionAnnounced
  <2>3. Cause = "thre" /\ ier \subseteq {"rx", "thre"} => Cause' = "clear"
    <3> SUFFICES ASSUME Cause = "thre", ier \subseteq {"rx", "thre"} PROVE Cause' = "clear"
      OBVIOUS
    <3>1. ~threPending' /\ ~(rx' > 0 /\ "rx" \in ier')
      BY DEF Cause
    <3>2. "line" \notin ier' /\ "modem" \notin ier'
      OBVIOUS
    <3>3. QED BY <3>1, <3>2 DEF Cause
  <2>4. MayLeave' => Cause' = "clear"
    BY <1>1, <2>1, <2>3 DEF MayLeave
  <2>5. QED BY <2>2, <2>4 DEF AnnouncedInv, CauseAsked
<1>4. QED BY <1>2, <1>3

\* What the guest has enabled and has not been told of is announced, in every
\* order of port accesses, host input and interrupts, although reading LSR,
\* MSR and IIR and returning from the handler notify nobody
\* (uart8250.py:63-67, 107-136).
THEOREM UartConditionAnnounced == UartSpec => []ConditionAnnounced
<1>1. UartInit => AnnouncedInv
  BY DEF UartInit, AnnouncedInv, ConditionAnnounced, CauseAsked
<1>2. UartTypeOK /\ AnnouncedInv /\ [UartNext]_uartVars => AnnouncedInv'
  <2> SUFFICES ASSUME UartTypeOK, AnnouncedInv, [UartNext]_uartVars PROVE AnnouncedInv'
    OBVIOUS
  <2>1. ASSUME NEW n \in 1..UartCapacity, HostWrite(n) PROVE AnnouncedInv'
    BY <2>1, NotifyAnnounces DEF HostWrite
  <2>2. CASE ReadRbr
    BY <2>2, NotifyAnnounces DEF ReadRbr
  <2>3. CASE ReadIir
    BY <2>3, ReadIirAnnounces
  <2>4. CASE ReadLsr
    <3>1. Cause' # "clear" => Cause # "clear"
      BY <2>4 DEF ReadLsr, Cause
    <3>2. QED BY <2>4, <3>1, ClearingKeeps DEF ReadLsr
  <2>5. CASE ReadMsr
    <3>1. Cause' # "clear" => Cause # "clear"
      BY <2>5 DEF ReadMsr, Cause
    <3>2. QED BY <2>5, <3>1, ClearingKeeps DEF ReadMsr
  <2>6. CASE WriteThr
    BY <2>6, NotifyAnnounces DEF WriteThr
  <2>7. ASSUME NEW causes \in SUBSET Causes, WriteIer(causes) PROVE AnnouncedInv'
    BY <2>7, NotifyAnnounces DEF WriteIer
  <2>8. ASSUME NEW gate \in BOOLEAN, NEW loop \in BOOLEAN, WriteMcr(gate, loop)
        PROVE AnnouncedInv'
    BY <2>8, NotifyAnnounces DEF WriteMcr
  <2>9. CASE EnterHandler
    BY <2>9 DEF EnterHandler, AnnouncedInv, ConditionAnnounced, MayLeave
  <2>10. CASE LeaveHandler
    <3>1. CauseAsked /\ Cause' = Cause
      BY <2>10 DEF LeaveHandler, AnnouncedInv, MayLeave, Cause
    <3>2. QED BY <2>10, <3>1
              DEF LeaveHandler, CauseAsked, AnnouncedInv, ConditionAnnounced, MayLeave
  <2>11. CASE UNCHANGED uartVars
    BY <2>11 DEF uartVars, AnnouncedInv, ConditionAnnounced, MayLeave, CauseAsked, Cause
  <2>12. QED
    BY <2>1, <2>2, <2>3, <2>4, <2>5, <2>6, <2>7, <2>8, <2>9, <2>10, <2>11 DEF UartNext
<1>3. AnnouncedInv => ConditionAnnounced
  BY DEF AnnouncedInv
<1>4. QED BY <1>1, <1>2, <1>3, UartTypeCorrect, PTL DEF UartSpec

-----------------------------------------------------------------------------
(* The disk controller. *)

\* What a sector, a buffer and a disk are made of.
Data == {Blank, Identity} \cup Nat

\* The taskfile; a read that ends on the last sector leaves it one cylinder on.
Taskfiles ==
  [count : 0..MaxCount - 1, sector : 0..Sectors, cylinder : 0..Cylinders,
   head : 0..Heads - 1, drive : {0, 1}]

XtTypes ==
  /\ xtRegs \in Taskfiles
  /\ xtBuffer \in Seq(Data) /\ xtSent \in Seq(Data)
  /\ xtOffset \in Nat /\ xtTarget \in [drive : Drives \cup {Absent}, lba : Nat]
  /\ xtDisk \in [Drives -> [0..Capacity * SectorBytes - 1 -> Data]]
  /\ xtWrite \in [drive : Drives \cup {Absent}, lba : Nat, count : Nat]
  /\ xtUsed.data \in Nat

\* The write the guest is in the middle of is the pending one, and the buffer
\* begins with what it sent of it.
WriteUnderWay ==
  xtWrite # NoWrite =>
    /\ xtWrite.drive \in Drives
    /\ xtTarget = [drive |-> xtWrite.drive, lba |-> xtWrite.lba]
    /\ Len(xtBuffer) = xtWrite.count * SectorBytes
    /\ xtOffset = Len(xtSent) /\ xtOffset < Len(xtBuffer)
    /\ \A k \in 1..xtOffset : xtBuffer[k] = xtSent[k]

XtInv == XtTypes /\ XtCheckpointable /\ WriteUnderWay

-----------------------------------------------------------------------------
(* Arithmetic. *)

\* A row of b entries more.
LEMMA Rows ==
  ASSUME NEW a \in Nat, NEW c \in Nat, NEW b \in Nat, a < c
  PROVE  a * b + b <= c * b /\ a * b \in Nat /\ c * b \in Nat
<1>1. PICK d \in Nat : c = a + 1 + d
  <2>1. c - a - 1 \in Nat /\ c = a + 1 + (c - a - 1)
    OBVIOUS
  <2> QED
    BY <2>1
<1>2. c * b = a * b + b + d * b
  BY <1>1
<1>3. d * b \in Nat /\ a * b \in Nat /\ c * b \in Nat
  OBVIOUS
<1> QED
  BY <1>2, <1>3

\* The row and the place of an entry.
LEMMA RowOf ==
  ASSUME NEW c \in Nat, NEW b \in Nat \ {0}, NEW k \in 0..(c * b - 1)
  PROVE  /\ k \div b \in 0..(c - 1) /\ k % b \in 0..(b - 1)
         /\ k = (k \div b) * b + (k % b)
<1> DEFINE q == k \div b
           r == k % b
<1>1. k = b * q + r /\ r \in 0..(b - 1) /\ q \in Int
  BY SMT
<1> HIDE DEF q, r
<1>2. ~(q < 0)
  <2>1. ASSUME q < 0 PROVE FALSE
    <3>1. PICK e \in Nat : q = -1 - e
      <4>1. -1 - q \in Nat /\ q = -1 - (-1 - q)
        BY <1>1, <2>1
      <4> QED
        BY <4>1
    <3>2. b * q = -b - b * e /\ b * e \in Nat
      BY <3>1
    <3> QED
      BY <1>1, <3>2
  <2> QED
    BY <2>1
<1>3. q < c
  <2>1. ASSUME ~(q < c) PROVE FALSE
    <3>1. PICK e \in Nat : q = c + e
      <4>1. q - c \in Nat /\ q = c + (q - c)
        BY <1>1, <2>1
      <4> QED
        BY <4>1
    <3>2. b * q = c * b + b * e /\ b * e \in Nat
      BY <3>1
    <3> QED
      BY <1>1, <3>2
  <2> QED
    BY <2>1
<1>4. b * q = q * b
  BY <1>1
<1>5. q \in 0..(c - 1) /\ k = q * b + r /\ r \in 0..(b - 1)
  BY <1>1, <1>2, <1>3, <1>4
<1> QED
  BY <1>5 DEF q, r

LEMMA Positive ==
  ASSUME NEW a \in Nat \ {0}, NEW b \in Nat \ {0}
  PROVE  a * b \in Nat \ {0}
<1>1. PICK d \in Nat : a = d + 1
  <2>1. a - 1 \in Nat /\ a = (a - 1) + 1
    OBVIOUS
  <2> QED
    BY <2>1
<1>2. a * b = d * b + b /\ d * b \in Nat
  BY <1>1
<1> QED
  BY <1>2

LEMMA CapacityPositive == Capacity \in Nat \ {0}
<1>1. Cylinders * Heads \in Nat \ {0}
  BY Positive, XtAssumption
<1>2. (Cylinders * Heads) * Sectors \in Nat \ {0}
  BY <1>1, Positive, XtAssumption
<1> QED
  BY <1>2 DEF Capacity

\* What holds of 0, and after each number of its successor, holds up to n.
LEMMA UpToLast ==
  ASSUME NEW n \in Nat, NEW S, 0 \in S, \A k \in 1..n : k - 1 \in S => k \in S
  PROVE  0..n \subseteq S
<1> DEFINE T == {k \in 0..n : k \notin S}
<1> SUFFICES ASSUME T # {} PROVE FALSE
  OBVIOUS
<1>1. T \subseteq Nat
  OBVIOUS
<1> HIDE DEF T
<1>2. PICK x \in T : \A y \in T : <<y, x>> \notin OpToRel(<, Nat)
  BY <1>1, NatLessThanWellFounded, WFMin
<1>3. x \in 0..n /\ x \notin S
  BY <1>2 DEF T
<1>4. x \in 1..n /\ x - 1 \in 0..n /\ x - 1 \in Nat /\ x - 1 < x /\ x \in Nat
  <2>1. x # 0
    BY <1>3
  <2> QED
    BY <1>3, <2>1
<1>5. x - 1 \notin T
  BY <1>2, <1>4 DEF OpToRel
<1>6. x - 1 \in S
  BY <1>4, <1>5 DEF T
<1> QED
  BY <1>3, <1>4, <1>6

-----------------------------------------------------------------------------
(* The geometry. *)

\* A position inside the geometry, or the one after its last sector.
Placed(p) ==
  /\ p \in Taskfiles
  /\ p.sector \in 1..Sectors

\* The next position is one sector on.
LEMMA NextIsOneOn ==
  ASSUME NEW p, Placed(p), p.cylinder < Cylinders
  PROVE  /\ Placed(NextChs(p)) /\ Lba(NextChs(p)) = Lba(p) + 1
         /\ NextChs(p).count = p.count /\ NextChs(p).drive = p.drive
<1>1. /\ p \in Taskfiles /\ p.sector \in 1..Sectors /\ p.head \in 0..Heads - 1
      /\ p.cylinder \in 0..Cylinders - 1
      /\ Heads \in Nat \ {0} /\ Sectors \in Nat \ {0} /\ Cylinders \in Nat \ {0}
  BY XtAssumption DEF Placed, Taskfiles
<1>2. CASE p.sector < Sectors
  <2> DEFINE q == [p EXCEPT !.sector = @ + 1]
  <2>1. NextChs(p) = q
    BY <1>2 DEF NextChs
  <2>2. q.sector = p.sector + 1 /\ q.head = p.head /\ q.cylinder = p.cylinder
        /\ q.count = p.count /\ q.drive = p.drive
    BY <1>1 DEF Taskfiles
  <2>3. p.sector + 1 \in 0..Sectors /\ p.sector + 1 \in 1..Sectors
    BY <1>1, <1>2
  <2>4. q \in Taskfiles
    BY <1>1, <2>3 DEF Taskfiles
  <2> HIDE DEF q
  <2>5. (p.cylinder * Heads + p.head) * Sectors \in Int
    BY <1>1
  <2>6. Lba(q) = Lba(p) + 1
    BY <1>1, <2>2, <2>5 DEF Lba
  <2> QED
    BY <2>1, <2>2, <2>3, <2>4, <2>6 DEF Placed
<1>3. CASE ~(p.sector < Sectors) /\ p.head < Heads - 1
  <2> DEFINE q == [p EXCEPT !.sector = 1, !.head = @ + 1]
  <2>1. NextChs(p) = q
    BY <1>3 DEF NextChs
  <2>2. q.sector = 1 /\ q.head = p.head + 1 /\ q.cylinder = p.cylinder
        /\ q.count = p.count /\ q.drive = p.drive
    BY <1>1 DEF Taskfiles
  <2>3. p.head + 1 \in 0..Heads - 1 /\ 1 \in 0..Sectors /\ 1 \in 1..Sectors
    BY <1>1, <1>3
  <2>4. q \in Taskfiles
    BY <1>1, <2>3 DEF Taskfiles
  <2> HIDE DEF q
  <2>5. PICK x \in Nat : x = p.cylinder * Heads + p.head
    BY <1>1
  <2>6. p.cylinder * Heads + (p.head + 1) = x + 1
    BY <1>1, <2>5
  <2>7. (x + 1) * Sectors = x * Sectors + Sectors /\ x * Sectors \in Int
    BY <1>1
  <2>8. p.sector = Sectors
    BY <1>1, <1>3
  <2>9. Lba(q) = Lba(p) + 1
    BY <1>1, <2>2, <2>5, <2>6, <2>7, <2>8 DEF Lba
  <2> QED
    BY <2>1, <2>2, <2>3, <2>4, <2>9 DEF Placed
<1>4. CASE ~(p.sector < Sectors) /\ ~(p.head < Heads - 1)
  <2> DEFINE q == [p EXCEPT !.sector = 1, !.head = 0, !.cylinder = @ + 1]
  <2>1. NextChs(p) = q
    BY <1>4 DEF NextChs
  <2>2. q.sector = 1 /\ q.head = 0 /\ q.cylinder = p.cylinder + 1
        /\ q.count = p.count /\ q.drive = p.drive
    BY <1>1 DEF Taskfiles
  <2>3. 0 \in 0..Heads - 1 /\ 1 \in 0..Sectors /\ 1 \in 1..Sectors
        /\ p.cylinder + 1 \in 0..Cylinders
    BY <1>1
  <2>4. q \in Taskfiles
    BY <1>1, <2>3 DEF Taskfiles
  <2> HIDE DEF q
  <2>5. PICK x \in Nat : x = p.cylinder * Heads + p.head
    BY <1>1
  <2>6. p.sector = Sectors /\ p.head = Heads - 1
    BY <1>1, <1>4
  <2>7. (p.cylinder + 1) * Heads = p.cylinder * Heads + Heads /\ p.cylinder * Heads \in Int
    BY <1>1
  <2>8. (p.cylinder + 1) * Heads + 0 = x + 1
    BY <1>1, <2>5, <2>6, <2>7
  <2>9. (x + 1) * Sectors = x * Sectors + Sectors /\ x * Sectors \in Int
    BY <1>1
  <2>10. Lba(q) = Lba(p) + 1
    BY <1>1, <2>2, <2>5, <2>6, <2>8, <2>9 DEF Lba
  <2> QED
    BY <2>1, <2>2, <2>3, <2>4, <2>10 DEF Placed
<1> QED
  BY <1>2, <1>3, <1>4

\* The positions of a walk exist: what is defined up to one of them can be
\* continued to the next.
LEMMA PositionsStep ==
  ASSUME NEW p, NEW n \in Nat
  PROVE  \A i \in 0..n : Positions(p, n)[i] = IF i = 0 THEN p
                                              ELSE NextChs(Positions(p, n)[i - 1])
<1> DEFINE Walk(f, k) == f = [i \in 0..k |-> IF i = 0 THEN p ELSE NextChs(f[i - 1])]
           S == {k \in 0..n : \E f : Walk(f, k)}
<1>1. 0 \in S
  <2> DEFINE f == [i \in 0..0 |-> p]
  <2>1. \A i \in 0..0 : f[i] = IF i = 0 THEN p ELSE NextChs(f[i - 1])
    OBVIOUS
  <2>2. Walk(f, 0)
    BY <2>1
  <2> HIDE DEF f, Walk
  <2>3. \E h : Walk(h, 0)
    BY <2>2
  <2> QED
    BY <2>3
<1>2. ASSUME NEW k \in 1..n, k - 1 \in S PROVE k \in S
  <2>1. PICK f : Walk(f, k - 1)
    BY <1>2
  <2> DEFINE g == [i \in 0..k |-> IF i = k THEN NextChs(f[k - 1]) ELSE f[i]]
  <2>2. ASSUME NEW i \in 0..k
        PROVE  g[i] = IF i = 0 THEN p ELSE NextChs(g[i - 1])
    <3>1. CASE i = k
      <4>1. k # 0 /\ k - 1 \in 0..k /\ k - 1 # k
        OBVIOUS
      <4> QED
        BY <3>1, <4>1
    <3>2. CASE i # k
      <4>1. i \in 0..(k - 1) /\ (i # 0 => i - 1 \in 0..k /\ i - 1 # k)
        BY <3>2
      <4>2. f[i] = IF i = 0 THEN p ELSE NextChs(f[i - 1])
        BY <2>1, <4>1
      <4> QED
        BY <3>2, <4>1, <4>2
    <3> QED
      BY <3>1, <3>2
  <2>3. Walk(g, k)
    <3> HIDE DEF g
    <3>1. g = [i \in 0..k |-> g[i]]
      BY DEF g
    <3> QED
      BY <2>2, <3>1
  <2> HIDE DEF g, Walk
  <2>4. \E h : Walk(h, k)
    BY <2>3
  <2> QED
    BY <2>4
<1> HIDE DEF S
<1>3. n \in S
  <2>1. 0..n \subseteq S
    BY <1>1, <1>2, UpToLast
  <2> QED
    BY <2>1
<1>4. \E f : Walk(f, n)
  BY <1>3 DEF S
<1>5. Walk(Positions(p, n), n)
  BY <1>4 DEF Positions
<1> QED
  BY <1>5

LEMMA CylinderBelow ==
  ASSUME NEW p, Placed(p), Lba(p) < Capacity
  PROVE  p.cylinder < Cylinders
<1>1. /\ p.sector \in 1..Sectors /\ p.head \in 0..Heads - 1 /\ p.cylinder \in 0..Cylinders
      /\ Heads \in Nat \ {0} /\ Sectors \in Nat \ {0} /\ Cylinders \in Nat \ {0}
  BY XtAssumption DEF Placed, Taskfiles
<1>2. CASE p.cylinder = Cylinders
  <2>1. PICK x \in Nat : x = Cylinders * Heads
    BY <1>1
  <2>2. Capacity = x * Sectors /\ Lba(p) = (x + p.head) * Sectors + p.sector - 1
    BY <1>2, <2>1 DEF Capacity, Lba
  <2>3. (x + p.head) * Sectors = x * Sectors + p.head * Sectors
    BY <1>1
  <2>4. x * Sectors \in Nat /\ p.head * Sectors \in Nat
    BY <1>1
  <2> QED
    BY <1>1, <2>2, <2>3, <2>4
<1> QED
  BY <1>1, <1>2

\* The taskfile of a command that is carried out.
LEMMA ValidTaskfile ==
  ASSUME XtTypes, ValidChs
  PROVE  /\ Placed(xtRegs) /\ xtRegs.drive \in Drives
         /\ Lba(xtRegs) \in Nat /\ SectorCount \in 1..MaxCount
         /\ Lba(xtRegs) + SectorCount <= Capacity
<1>1. /\ Placed(xtRegs) /\ xtRegs.drive \in Drives /\ Lba(xtRegs) + SectorCount <= Capacity
  BY DEF XtTypes, ValidChs, Placed
<1>2. xtRegs.count \in 0..MaxCount - 1 /\ MaxCount \in Nat \ {0}
  BY XtAssumption DEF XtTypes, Taskfiles
<1>3. SectorCount \in 1..MaxCount
  BY <1>2 DEF SectorCount
<1>4. /\ xtRegs.sector \in 1..Sectors /\ xtRegs.head \in Nat /\ xtRegs.cylinder \in Nat
      /\ Heads \in Nat /\ Sectors \in Nat
  BY <1>1, XtAssumption DEF Placed, Taskfiles
<1>5. PICK x \in Nat : x = xtRegs.cylinder * Heads + xtRegs.head
  BY <1>4
<1>6. x * Sectors \in Nat /\ Lba(xtRegs) = x * Sectors + xtRegs.sector - 1
  BY <1>4, <1>5 DEF Lba
<1>7. Lba(xtRegs) \in Nat
  BY <1>4, <1>6
<1> QED
  BY <1>1, <1>3, <1>7

\* A walk over the geometry visits consecutive sectors.
LEMMA WalkIsConsecutive ==
  ASSUME XtTypes, ValidChs
  PROVE  \A i \in 0..SectorCount :
           LET q == Positions(xtRegs, SectorCount)[i]
           IN  /\ Placed(q) /\ Lba(q) = Lba(xtRegs) + i
               /\ q.count = xtRegs.count /\ q.drive = xtRegs.drive
<1> DEFINE n == SectorCount
           at == Positions(xtRegs, n)
           Good(i) == /\ Placed(at[i]) /\ Lba(at[i]) = Lba(xtRegs) + i
                      /\ at[i].count = xtRegs.count /\ at[i].drive = xtRegs.drive
           S == {i \in 0..n : Good(i)}
<1>1. /\ Placed(xtRegs) /\ Lba(xtRegs) \in Nat /\ n \in 1..MaxCount /\ n \in Nat
      /\ Lba(xtRegs) + n <= Capacity /\ Capacity \in Nat
  BY ValidTaskfile, CapacityPositive, XtAssumption
<1> HIDE DEF n
<1>2. \A i \in 0..n : at[i] = IF i = 0 THEN xtRegs ELSE NextChs(at[i - 1])
  BY <1>1, PositionsStep
<1> HIDE DEF at
<1>3. 0 \in S
  BY <1>1, <1>2
<1>4. ASSUME NEW k \in 1..n, k - 1 \in S PROVE k \in S
  <2>1. Good(k - 1)
    BY <1>4
  <2>2. Lba(at[k - 1]) < Capacity
    BY <1>1, <2>1
  <2>3. at[k - 1].cylinder < Cylinders
    BY <2>1, <2>2, CylinderBelow
  <2>4. at[k] = NextChs(at[k - 1])
    BY <1>2
  <2>5. /\ Placed(at[k]) /\ Lba(at[k]) = Lba(at[k - 1]) + 1
        /\ at[k].count = at[k - 1].count /\ at[k].drive = at[k - 1].drive
    BY <2>1, <2>3, <2>4, NextIsOneOn
  <2>6. Lba(at[k]) = Lba(xtRegs) + k
    BY <1>1, <2>1, <2>5
  <2> QED
    BY <2>1, <2>5, <2>6
<1>5. 0..n \subseteq S
  <2> HIDE DEF S
  <2> QED
    BY <1>1, <1>3, <1>4, UpToLast
<1> QED
  BY <1>5 DEF n, at

-----------------------------------------------------------------------------
(* Buffers. *)

LEMMA ArrayIsSeq ==
  ASSUME NEW S, NEW n \in Nat, NEW f \in [1..n -> S]
  PROVE  f \in Seq(S) /\ Len(f) = n /\ DOMAIN f = 1..n
OBVIOUS

\* A buffer of whole sectors.
LEMMA WholeSectors ==
  ASSUME NEW c \in 1..MaxCount
  PROVE  /\ c * SectorBytes \in SectorBytes..MaxCount * SectorBytes
         /\ (c * SectorBytes) % SectorBytes = 0
         /\ c * SectorBytes \in Nat \ {0}
<1>1. c \in Nat \ {0} /\ c - 1 \in Nat /\ MaxCount \in Nat /\ SectorBytes \in Nat \ {0}
  BY XtAssumption
<1>2. c * SectorBytes = (c - 1) * SectorBytes + SectorBytes /\ (c - 1) * SectorBytes \in Nat
  BY <1>1
<1>3. c * SectorBytes <= MaxCount * SectorBytes
  <2>1. CASE c = MaxCount
    BY <1>1, <2>1
  <2>2. CASE c < MaxCount
    <3>1. c * SectorBytes + SectorBytes <= MaxCount * SectorBytes
          /\ c * SectorBytes \in Nat /\ MaxCount * SectorBytes \in Nat
      BY <1>1, <2>2, Rows
    <3> QED
      BY <1>1, <3>1
  <2> QED
    BY <1>1, <2>1, <2>2
<1>4. (SectorBytes * c + 0) % SectorBytes = 0
  BY <1>1, SMT
<1>5. SectorBytes * c + 0 = c * SectorBytes
  BY <1>1
<1>6. (c * SectorBytes) % SectorBytes = 0
  BY <1>4, <1>5
<1>7. MaxCount * SectorBytes \in Nat
  BY <1>1
<1> QED
  BY <1>1, <1>2, <1>3, <1>6, <1>7

\* A blank buffer of whole sectors.
LEMMA BlankBuffer ==
  ASSUME NEW c \in 1..MaxCount
  PROVE  LET b == Zeros(c * SectorBytes)
         IN  /\ b \in Seq(Data) /\ Len(b) = c * SectorBytes
             /\ Len(b) \in SectorBytes..MaxCount * SectorBytes /\ Len(b) % SectorBytes = 0
             /\ Len(b) \in Nat \ {0}
<1> DEFINE n == c * SectorBytes
<1>1. n \in SectorBytes..MaxCount * SectorBytes /\ n % SectorBytes = 0 /\ n \in Nat \ {0}
  BY WholeSectors
<1> HIDE DEF n
<1>2. Zeros(n) \in [1..n -> Data]
  BY DEF Zeros, Data
<1>3. Zeros(n) \in Seq(Data) /\ Len(Zeros(n)) = n
  BY <1>1, <1>2, ArrayIsSeq
<1> QED
  BY <1>1, <1>3 DEF n

LEMMA OneSector ==
  ASSUME NEW b, b \in [1..SectorBytes -> Data]
  PROVE  /\ b \in Seq(Data) /\ Len(b) = SectorBytes
         /\ Len(b) \in SectorBytes..MaxCount * SectorBytes /\ Len(b) % SectorBytes = 0
<1>1. SectorBytes \in Nat \ {0} /\ 1 \in 1..MaxCount
  BY XtAssumption
<1>2. 1 * SectorBytes = SectorBytes
  BY <1>1
<1>3. /\ SectorBytes \in SectorBytes..MaxCount * SectorBytes
      /\ SectorBytes % SectorBytes = 0
  BY <1>1, <1>2, WholeSectors
<1>4. b \in Seq(Data) /\ Len(b) = SectorBytes
  BY <1>1, ArrayIsSeq
<1> QED
  BY <1>3, <1>4

-----------------------------------------------------------------------------
(* The steps. *)

\* A step that starts no transfer and moves no data.
LEMMA QuietKeeps ==
  ASSUME XtInv, UNCHANGED <<xtTransfer, xtDisk, xtHistory>>,
         xtRegs' \in Taskfiles, xtUsed'.data \in Nat
  PROVE  XtInv'
BY DEF XtInv, XtTypes, XtCheckpointable, WriteUnderWay, xtTransfer, xtHistory

LEMMA RegisterKeeps ==
  ASSUME XtInv, NEW f \in DOMAIN XtRegisterValues, NEW v \in XtRegisterValues[f],
         WriteRegister(f, v)
  PROVE  XtInv'
<1>1. /\ xtRegs' = [xtRegs EXCEPT ![f] = v]
      /\ UNCHANGED <<xtTransfer, xtDisk, xtHistory, xtUsed>>
  BY DEF WriteRegister
<1>2. xtRegs \in Taskfiles /\ Cylinders \in Nat /\ xtUsed.data \in Nat
  BY XtAssumption DEF XtInv, XtTypes
<1>3. xtRegs' \in Taskfiles
  <2>1. CASE f = "count"
    BY <1>1, <1>2, <2>1 DEF Taskfiles, XtRegisterValues
  <2>2. CASE f = "sector"
    BY <1>1, <1>2, <2>2 DEF Taskfiles, XtRegisterValues
  <2>3. CASE f = "cylinder"
    BY <1>1, <1>2, <2>3 DEF Taskfiles, XtRegisterValues
  <2>4. CASE f = "head"
    BY <1>1, <1>2, <2>4 DEF Taskfiles, XtRegisterValues
  <2>5. CASE f = "drive"
    BY <1>1, <1>2, <2>5 DEF Taskfiles, XtRegisterValues
  <2> QED
    BY <2>1, <2>2, <2>3, <2>4, <2>5 DEF XtRegisterValues
<1> QED
  BY <1>1, <1>2, <1>3, QuietKeeps

\* Every command but a transfer.
LEMMA CommandUsed ==
  ASSUME XtInv, XtCommand
  PROVE  xtUsed'.data \in Nat
BY DEF XtInv, XtTypes, XtCommand

LEMMA IdleCommandKeeps ==
  ASSUME XtInv, Unsupported \/ Seek \/ TransferRefused \/ ReadXtStatus \/ ReadError
  PROVE  XtInv'
<1>1. UNCHANGED <<xtRegs, xtTransfer, xtDisk, xtHistory>>
  BY DEF Unsupported, Seek, TransferRefused, ReadXtStatus, ReadError, Refuse
<1>2. xtUsed' = xtUsed \/ XtCommand
  BY DEF Unsupported, Seek, TransferRefused, ReadXtStatus, ReadError
<1>3. xtUsed'.data \in Nat
  BY <1>2, CommandUsed DEF XtInv, XtTypes
<1>4. xtRegs' \in Taskfiles
  BY <1>1 DEF XtInv, XtTypes
<1> QED
  BY <1>1, <1>3, <1>4, QuietKeeps

\* A step that replaces the buffer, and ends any write that was under way.
LEMMA FreshBufferKeeps ==
  ASSUME XtInv, xtWrite' = NoWrite, xtSent' = <<>>, xtOffset' = 0,
         UNCHANGED <<xtTarget, xtDisk>>,
         xtRegs' \in Taskfiles, xtUsed'.data \in Nat,
         xtBuffer' \in Seq(Data),
         Len(xtBuffer') \in SectorBytes..MaxCount * SectorBytes,
         Len(xtBuffer') % SectorBytes = 0
  PROVE  XtInv'
<1>1. xtWrite' \in [drive : Drives \cup {Absent}, lba : Nat, count : Nat]
  BY DEF NoWrite
<1>2. xtSent' \in Seq(Data) /\ xtOffset' \in Nat /\ xtOffset' <= Len(xtBuffer')
  <2>1. <<>> \in Seq(Data)
    BY EmptySeq
  <2>2. SectorBytes \in Nat /\ MaxCount * SectorBytes \in Nat
    BY XtAssumption
  <2>3. 0 <= Len(xtBuffer')
    BY <2>2
  <2> QED
    BY <2>1, <2>3
<1>3. XtTypes'
  BY <1>1, <1>2 DEF XtInv, XtTypes
<1>4. XtCheckpointable'
  BY <1>2 DEF XtInv, XtCheckpointable
<1> QED
  BY <1>3, <1>4 DEF XtInv, WriteUnderWay

LEMMA IdentifyKeeps ==
  ASSUME XtInv, Identify
  PROVE  XtInv'
<1>1. xtRegs' = xtRegs /\ xtUsed'.data \in Nat /\ xtRegs \in Taskfiles
  BY CommandUsed DEF Identify, Refuse, XtInv, XtTypes
<1>2. CASE Refuse
  BY <1>1, <1>2, QuietKeeps DEF Refuse
<1>3. CASE ~Refuse
  <2>1. /\ xtBuffer' = [k \in 1..SectorBytes |-> Identity] /\ xtOffset' = 0
        /\ xtWrite' = NoWrite /\ xtSent' = <<>> /\ UNCHANGED <<xtTarget, xtDisk>>
    BY <1>3 DEF Identify
  <2>2. xtBuffer' \in [1..SectorBytes -> Data]
    BY <2>1 DEF Data
  <2> QED
    BY <1>1, <2>1, <2>2, OneSector, FreshBufferKeeps
<1> QED
  BY <1>2, <1>3

\* A read that crosses tracks and cylinders delivers consecutive sectors, and
\* leaves the taskfile on the next one.
LEMMA ReadMultipleReads ==
  ASSUME XtInv, ReadMultiple
  PROVE  /\ xtBuffer' \in [1..SectorCount * SectorBytes -> Data]
         /\ \A k \in 1..SectorCount * SectorBytes :
              xtBuffer'[k] = xtDisk[xtRegs.drive][Lba(xtRegs) * SectorBytes + k - 1]
         /\ Placed(xtRegs') /\ Lba(xtRegs') = Lba(xtRegs) + SectorCount
<1> DEFINE n == SectorCount
           at == Positions(xtRegs, n)
           disk == xtDisk[xtRegs.drive]
           first == Lba(xtRegs)
<1>1. /\ ValidChs /\ xtRegs' = at[n]
      /\ xtBuffer' = [k \in 1..n * SectorBytes |->
                        disk[Lba(at[(k - 1) \div SectorBytes]) * SectorBytes
                             + ((k - 1) % SectorBytes)]]
  BY DEF ReadMultiple
<1>2. /\ xtRegs.drive \in Drives /\ first \in Nat /\ n \in Nat \ {0} /\ first + n <= Capacity
      /\ Capacity \in Nat /\ SectorBytes \in Nat \ {0}
  BY <1>1, ValidTaskfile, CapacityPositive, XtAssumption DEF XtInv
<1>3. \A i \in 0..n : Placed(at[i]) /\ Lba(at[i]) = first + i
  BY <1>1, WalkIsConsecutive DEF XtInv
<1>4. disk \in [0..Capacity * SectorBytes - 1 -> Data]
  BY <1>2 DEF XtInv, XtTypes
<1> HIDE DEF n, at, disk, first
<1>5. ASSUME NEW k \in 1..n * SectorBytes
      PROVE  /\ Lba(at[(k - 1) \div SectorBytes]) * SectorBytes + ((k - 1) % SectorBytes)
                = first * SectorBytes + k - 1
             /\ first * SectorBytes + k - 1 \in 0..Capacity * SectorBytes - 1
  <2> DEFINE q == (k - 1) \div SectorBytes
             r == (k - 1) % SectorBytes
  <2>1. n * SectorBytes \in Nat
    BY <1>2
  <2>2. k - 1 \in 0..(n * SectorBytes - 1)
    BY <2>1
  <2>3. q \in 0..(n - 1) /\ r \in 0..(SectorBytes - 1) /\ k - 1 = q * SectorBytes + r
    BY <1>2, <2>2, RowOf
  <2> HIDE DEF q, r
  <2>4. Lba(at[q]) = first + q /\ q \in Nat /\ first + q < Capacity /\ first + q \in Nat
    BY <1>2, <1>3, <2>3
  <2>5. (first + q) * SectorBytes = first * SectorBytes + q * SectorBytes
        /\ first * SectorBytes \in Nat /\ q * SectorBytes \in Nat
    BY <1>2, <2>4
  <2>6. (first + q) * SectorBytes + SectorBytes <= Capacity * SectorBytes
        /\ Capacity * SectorBytes \in Nat
    BY <1>2, <2>4, Rows
  <2>7. (first + q) * SectorBytes + r = first * SectorBytes + k - 1
    BY <1>2, <2>3, <2>5
  <2>8. first * SectorBytes + k - 1 \in 0..Capacity * SectorBytes - 1
    BY <1>2, <2>3, <2>5, <2>6
  <2> QED
    BY <2>4, <2>7, <2>8 DEF q, r
<1>6. \A k \in 1..n * SectorBytes : xtBuffer'[k] = disk[first * SectorBytes + k - 1]
                                    /\ xtBuffer'[k] \in Data
  BY <1>1, <1>4, <1>5
<1>7. xtBuffer' \in [1..n * SectorBytes -> Data]
  <2>1. xtBuffer' = [k \in 1..n * SectorBytes |-> xtBuffer'[k]]
    BY <1>1
  <2> QED
    BY <1>6, <2>1
<1>8. Placed(xtRegs') /\ Lba(xtRegs') = first + n
  BY <1>1, <1>2, <1>3
<1> QED
  BY <1>6, <1>7, <1>8 DEF n, disk, first

LEMMA ReadMultipleKeeps ==
  ASSUME XtInv, ReadMultiple
  PROVE  XtInv'
<1> DEFINE n == SectorCount
<1>1. /\ ValidChs /\ XtCommand /\ xtOffset' = 0
      /\ xtWrite' = NoWrite /\ xtSent' = <<>> /\ UNCHANGED <<xtTarget, xtDisk>>
  BY DEF ReadMultiple
<1>2. n \in 1..MaxCount
  BY <1>1, ValidTaskfile DEF XtInv
<1>3. /\ xtBuffer' \in [1..n * SectorBytes -> Data] /\ xtRegs' \in Taskfiles
  BY ReadMultipleReads DEF Placed
<1> HIDE DEF n
<1>4. /\ n * SectorBytes \in SectorBytes..MaxCount * SectorBytes
      /\ (n * SectorBytes) % SectorBytes = 0 /\ n * SectorBytes \in Nat
  BY <1>2, WholeSectors
<1>5. xtBuffer' \in Seq(Data) /\ Len(xtBuffer') = n * SectorBytes
  BY <1>3, <1>4, ArrayIsSeq
<1> QED
  BY <1>1, <1>3, <1>4, <1>5, CommandUsed, FreshBufferKeeps

LEMMA ReadMultipleFailsKeeps ==
  ASSUME XtInv, ReadMultipleFails
  PROVE  XtInv'
<1>1. PICK i \in 0..SectorCount - 1 :
        /\ ValidChs /\ XtCommand /\ xtRegs' = Positions(xtRegs, SectorCount)[i]
        /\ xtBuffer' = Zeros(SectorBytes) /\ xtOffset' = 0
        /\ xtWrite' = NoWrite /\ xtSent' = <<>> /\ UNCHANGED <<xtTarget, xtDisk>>
  BY DEF ReadMultipleFails
<1>2. SectorCount \in 1..MaxCount /\ MaxCount \in Nat
  BY <1>1, ValidTaskfile, XtAssumption DEF XtInv
<1>3. i \in 0..SectorCount
  BY <1>2
<1>4. xtRegs' \in Taskfiles
  BY <1>1, <1>3, WalkIsConsecutive DEF XtInv, Placed
<1>5. xtBuffer' \in [1..SectorBytes -> Data]
  BY <1>1 DEF Zeros, Data
<1> QED
  BY <1>1, <1>4, <1>5, OneSector, CommandUsed, FreshBufferKeeps

LEMMA WriteMultipleKeeps ==
  ASSUME XtInv, WriteMultiple
  PROVE  XtInv'
<1> DEFINE n == SectorCount
           drive == xtRegs.drive
           first == Lba(xtRegs)
<1>1. /\ ValidChs /\ XtCommand
      /\ xtBuffer' = Zeros(n * SectorBytes) /\ xtOffset' = 0
      /\ xtTarget' = [drive |-> drive, lba |-> first]
      /\ xtWrite' = [drive |-> drive, lba |-> first, count |-> n]
      /\ xtSent' = <<>> /\ xtRegs' = xtRegs /\ xtDisk' = xtDisk
  BY DEF WriteMultiple
<1>2. /\ drive \in Drives /\ first \in Nat /\ n \in 1..MaxCount /\ n \in Nat \ {0}
      /\ first + n <= Capacity /\ Capacity \in Nat
  BY <1>1, ValidTaskfile, CapacityPositive, XtAssumption DEF XtInv
<1> HIDE DEF n, drive, first
<1>3. /\ xtBuffer' \in Seq(Data) /\ Len(xtBuffer') = n * SectorBytes
      /\ Len(xtBuffer') \in SectorBytes..MaxCount * SectorBytes
      /\ Len(xtBuffer') % SectorBytes = 0 /\ Len(xtBuffer') \in Nat \ {0}
  BY <1>1, <1>2, BlankBuffer
<1>4. xtSent' \in Seq(Data) /\ Len(xtSent') = 0
  BY <1>1, EmptySeq
<1>5. /\ xtTarget' \in [drive : Drives \cup {Absent}, lba : Nat]
      /\ xtTarget'.lba = first /\ xtTarget'.drive = drive
      /\ xtWrite' \in [drive : Drives \cup {Absent}, lba : Nat, count : Nat]
      /\ xtWrite'.drive = drive /\ xtWrite'.lba = first /\ xtWrite'.count = n
  BY <1>1, <1>2
<1>6. first < Capacity
  BY <1>2
<1>7. XtTypes'
  BY <1>1, <1>3, <1>4, <1>5, CommandUsed DEF XtInv, XtTypes
<1>8. XtCheckpointable'
  BY <1>1, <1>2, <1>3, <1>5, <1>6 DEF XtCheckpointable
<1>9. WriteUnderWay'
  BY <1>1, <1>2, <1>3, <1>4, <1>5 DEF WriteUnderWay
<1> QED
  BY <1>7, <1>8, <1>9 DEF XtInv

\* What a full buffer leaves on the disks.
LEMMA StoredIs ==
  ASSUME XtTypes, xtTarget.drive \in Drives, NEW b \in Seq(Data), NEW n \in 0..Len(b)
  PROVE  LET first == xtTarget.lba * SectorBytes
             s == Stored(b, n)
         IN  /\ s \in [Drives -> [0..Capacity * SectorBytes - 1 -> Data]]
             /\ \A d \in Drives \ {xtTarget.drive} : s[d] = xtDisk[d]
             /\ \A o \in 0..Capacity * SectorBytes - 1 :
                  s[xtTarget.drive][o] = IF o \in first..first + n - 1 THEN b[o - first + 1]
                                         ELSE xtDisk[xtTarget.drive][o]
<1> DEFINE first == xtTarget.lba * SectorBytes
           O == 0..Capacity * SectorBytes - 1
           drive == xtTarget.drive
           new == [o \in O |-> IF o \in first..first + n - 1 THEN b[o - first + 1]
                               ELSE xtDisk[drive][o]]
<1>1. /\ xtDisk \in [Drives -> [O -> Data]] /\ drive \in Drives
      /\ first \in Nat /\ Len(b) \in Nat
  BY LenProperties, XtAssumption DEF XtTypes
<1>2. DOMAIN xtDisk[drive] = O /\ drive \in DOMAIN xtDisk
  BY <1>1
<1>3. Stored(b, n) = [xtDisk EXCEPT ![drive] = new]
  BY <1>2 DEF Stored
<1>4. O \subseteq Int
  BY CapacityPositive, XtAssumption
<1> HIDE DEF O, drive, first
<1>5. ASSUME NEW o \in O PROVE new[o] \in Data
  <2>1. CASE o \in first..first + n - 1
    <3>1. o - first + 1 \in 1..Len(b)
      BY <1>1, <2>1
    <3> QED
      BY <2>1, <3>1, ElementOfSeq
  <2>2. CASE o \notin first..first + n - 1
    BY <1>1, <2>2
  <2> QED
    BY <2>1, <2>2
<1>6. /\ new \in [O -> Data]
      /\ \A o \in O : new[o] = IF o \in first..first + n - 1 THEN b[o - first + 1]
                               ELSE xtDisk[drive][o]
  BY <1>5
<1> HIDE DEF new
<1>7. /\ Stored(b, n) \in [Drives -> [O -> Data]] /\ Stored(b, n)[drive] = new
      /\ \A d \in Drives \ {drive} : Stored(b, n)[d] = xtDisk[d]
  BY <1>1, <1>3, <1>6
<1> QED
  BY <1>6, <1>7 DEF O, drive, first

\* A disk takes the whole buffer or, if it fails, a part of it; nothing is
\* pending any more.
StoresPart ==
  \E n \in 0..Len(xtBuffer) : /\ xtDisk' = Stored(xtBuffer', n)
                              /\ n # Len(xtBuffer) => "ERR" \in xtStatus'
Emptied == [xtTarget EXCEPT !.drive = Absent]

\* A byte at the data port: into the buffer, unless it is full, and the one
\* that fills it on to the disk.
LEMMA ByteWritten ==
  ASSUME XtInv, NEW b \in Nat, WriteData(b)
  PROVE  /\ xtBuffer' \in Seq(Data) /\ Len(xtBuffer') = Len(xtBuffer) /\ Len(xtBuffer) \in Nat
         /\ xtOffset' \in 0..Len(xtBuffer)
         /\ xtSent' \in Seq(Data)
         /\ xtDisk' # xtDisk \/ xtTarget' # xtTarget =>
              /\ xtOffset' = Len(xtBuffer) /\ xtTarget.drive \in Drives
              /\ xtTarget' = Emptied /\ xtWrite' = NoWrite /\ StoresPart
         /\ WriteUnderWay =>
              \/ xtWrite = NoWrite /\ xtWrite' = NoWrite
              \/ /\ xtWrite # NoWrite
                 /\ xtOffset' = xtOffset + 1 /\ Len(xtSent') = xtOffset'
                 /\ \A k \in 1..xtOffset' : xtBuffer'[k] = xtSent'[k]
                 /\ xtOffset' < Len(xtBuffer) => xtWrite' = xtWrite
                 /\ xtOffset' = Len(xtBuffer) => xtWrite' = NoWrite
<1>1. /\ xtBuffer \in Seq(Data) /\ xtSent \in Seq(Data) /\ xtOffset \in Nat
      /\ Len(xtBuffer) \in Nat /\ Len(xtSent) \in Nat /\ xtOffset <= Len(xtBuffer)
      /\ xtTarget \in [drive : Drives \cup {Absent}, lba : Nat]
  BY LenProperties DEF XtInv, XtTypes, XtCheckpointable
<1>2. /\ xtBuffer' = IF xtOffset < Len(xtBuffer) THEN [xtBuffer EXCEPT ![xtOffset + 1] = b]
                     ELSE xtBuffer
      /\ xtOffset' = IF xtOffset < Len(xtBuffer) THEN xtOffset + 1 ELSE xtOffset
      /\ xtSent' = IF xtWrite = NoWrite THEN xtSent ELSE Append(xtSent, b)
  BY DEF WriteData
<1>3. b \in Data
  BY DEF Data
<1>4. /\ xtBuffer' \in Seq(Data) /\ Len(xtBuffer') = Len(xtBuffer)
      /\ xtOffset < Len(xtBuffer) =>
           \A k \in 1..Len(xtBuffer) : xtBuffer'[k] = IF k = xtOffset + 1 THEN b ELSE xtBuffer[k]
  <2>1. CASE xtOffset < Len(xtBuffer)
    <3>1. xtOffset + 1 \in 1..Len(xtBuffer)
      BY <1>1, <2>1
    <3>2. xtBuffer' = [xtBuffer EXCEPT ![xtOffset + 1] = b]
      BY <1>2, <2>1
    <3>3. xtBuffer' \in Seq(Data) /\ Len(xtBuffer') = Len(xtBuffer)
      BY <1>1, <1>3, <3>1, <3>2, ExceptSeq
    <3>4. xtBuffer \in [1..Len(xtBuffer) -> Data]
      BY <1>1, LenProperties
    <3> QED
      BY <3>1, <3>2, <3>3, <3>4
  <2>2. CASE ~(xtOffset < Len(xtBuffer))
    BY <1>1, <1>2, <2>2
  <2> QED
    BY <2>1, <2>2
<1>5. xtOffset' \in 0..Len(xtBuffer)
  BY <1>1, <1>2
<1>6. xtSent' \in Seq(Data)
  BY <1>1, <1>2, <1>3, AppendProperties
<1>7. \/ /\ xtOffset' < Len(xtBuffer) \/ xtTarget.drive = Absent
         /\ UNCHANGED <<xtDisk, xtTarget, xtWrite>>
      \/ /\ xtOffset' = Len(xtBuffer) /\ xtTarget.drive # Absent
         /\ xtTarget' = Emptied /\ xtWrite' = NoWrite /\ StoresPart
  <2>1. ASSUME NEW n \in 0..Len(xtBuffer) - 1 PROVE n \in 0..Len(xtBuffer)
    BY <1>1, <2>1
  <2>2. Len(xtBuffer) \in 0..Len(xtBuffer)
    BY <1>1
  <2>3. CASE xtOffset' < Len(xtBuffer) \/ xtTarget.drive = Absent
    <3>1. UNCHANGED <<xtDisk, xtTarget, xtWrite>>
      BY <1>1, <1>5, <2>3 DEF WriteData
    <3> QED
      BY <2>3, <3>1
  <2>4. CASE ~(xtOffset' < Len(xtBuffer) \/ xtTarget.drive = Absent)
    <3>1. /\ xtOffset' = Len(xtBuffer) /\ xtTarget.drive # Absent
          /\ xtTarget' = Emptied /\ xtWrite' = NoWrite
      BY <2>4 DEF WriteData, Emptied
    <3>2. \/ xtDisk' = Stored(xtBuffer', Len(xtBuffer))
          \/ /\ \E n \in 0..Len(xtBuffer) - 1 : xtDisk' = Stored(xtBuffer', n)
             /\ "ERR" \in xtStatus'
      <4>1. xtStatus' = xtStatus \cup {"ERR"} => "ERR" \in xtStatus'
        OBVIOUS
      <4> QED
        BY <2>4, <4>1 DEF WriteData
    <3>3. StoresPart
      <4>1. CASE xtDisk' = Stored(xtBuffer', Len(xtBuffer))
        BY <2>2, <4>1 DEF StoresPart
      <4>2. CASE (\E n \in 0..Len(xtBuffer) - 1 : xtDisk' = Stored(xtBuffer', n))
                 /\ "ERR" \in xtStatus'
        BY <2>1, <4>2 DEF StoresPart
      <4> QED
        BY <3>2, <4>1, <4>2
    <3> QED
      BY <3>1, <3>3
  <2> QED
    BY <2>3, <2>4
<1>8. xtDisk' # xtDisk \/ xtTarget' # xtTarget =>
        /\ xtOffset' = Len(xtBuffer) /\ xtTarget.drive \in Drives
        /\ xtTarget' = Emptied /\ xtWrite' = NoWrite /\ StoresPart
  <2>1. xtTarget.drive # Absent => xtTarget.drive \in Drives
    BY <1>1
  <2> QED
    BY <1>7, <2>1
<1>9. ASSUME WriteUnderWay
      PROVE  \/ xtWrite = NoWrite /\ xtWrite' = NoWrite
             \/ /\ xtWrite # NoWrite
                /\ xtOffset' = xtOffset + 1 /\ Len(xtSent') = xtOffset'
                /\ \A k \in 1..xtOffset' : xtBuffer'[k] = xtSent'[k]
                /\ xtOffset' < Len(xtBuffer) => xtWrite' = xtWrite
                /\ xtOffset' = Len(xtBuffer) => xtWrite' = NoWrite
  <2>1. CASE xtWrite = NoWrite
    BY <1>7, <2>1
  <2>2. CASE xtWrite # NoWrite
    <3>1. /\ xtWrite.drive \in Drives
          /\ xtTarget = [drive |-> xtWrite.drive, lba |-> xtWrite.lba]
          /\ xtOffset = Len(xtSent) /\ xtOffset < Len(xtBuffer)
          /\ \A k \in 1..xtOffset : xtBuffer[k] = xtSent[k]
      BY <1>9, <2>2 DEF WriteUnderWay
    <3>2. xtOffset' = xtOffset + 1 /\ xtSent' = Append(xtSent, b)
      BY <1>2, <2>2, <3>1
    <3>3. /\ Len(xtSent') = xtOffset + 1 /\ xtSent'[xtOffset + 1] = b
          /\ \A k \in 1..xtOffset : xtSent'[k] = xtSent[k]
      BY <1>1, <1>3, <3>1, <3>2, AppendProperties
    <3>4. \A k \in 1..xtOffset + 1 : /\ k \in 1..Len(xtBuffer)
                                     /\ k = xtOffset + 1 \/ (k \in 1..xtOffset /\ k # xtOffset + 1)
      BY <1>1, <3>1
    <3>5. \A k \in 1..xtOffset + 1 : xtBuffer'[k] = xtSent'[k]
      BY <1>4, <3>1, <3>3, <3>4
    <3>6. xtTarget.drive # Absent
      <4>1. xtTarget.drive = xtWrite.drive
        BY <3>1
      <4> QED
        BY <3>1, <4>1, XtAssumption
    <3>7. /\ xtOffset' < Len(xtBuffer) => xtWrite' = xtWrite
          /\ xtOffset' = Len(xtBuffer) => xtWrite' = NoWrite
      BY <1>1, <1>4, <1>5, <1>7, <3>6
    <3> QED
      BY <2>2, <3>2, <3>3, <3>5, <3>7
  <2> QED
    BY <2>1, <2>2
<1> QED
  BY <1>1, <1>4, <1>5, <1>6, <1>8, <1>9

LEMMA WriteDataKeeps ==
  ASSUME XtInv, NEW b \in Nat, WriteData(b)
  PROVE  XtInv'
<1>1. /\ xtBuffer' \in Seq(Data) /\ Len(xtBuffer') = Len(xtBuffer) /\ Len(xtBuffer) \in Nat
      /\ xtOffset' \in 0..Len(xtBuffer) /\ xtSent' \in Seq(Data)
      /\ xtDisk' # xtDisk \/ xtTarget' # xtTarget =>
           /\ xtOffset' = Len(xtBuffer) /\ xtTarget.drive \in Drives
           /\ xtTarget' = Emptied /\ xtWrite' = NoWrite /\ StoresPart
      /\ \/ xtWrite = NoWrite /\ xtWrite' = NoWrite
         \/ /\ xtWrite # NoWrite
            /\ xtOffset' = xtOffset + 1 /\ Len(xtSent') = xtOffset'
            /\ \A k \in 1..xtOffset' : xtBuffer'[k] = xtSent'[k]
            /\ xtOffset' < Len(xtBuffer) => xtWrite' = xtWrite
            /\ xtOffset' = Len(xtBuffer) => xtWrite' = NoWrite
  BY ByteWritten DEF XtInv
<1>2. xtRegs' = xtRegs /\ xtUsed'.data \in Nat
  BY DEF WriteData, Access, XtInv, XtTypes
<1>3. xtDisk' \in [Drives -> [0..Capacity * SectorBytes - 1 -> Data]]
  BY <1>1, StoredIs DEF XtInv, XtTypes, StoresPart
<1>4. xtTarget' \in [drive : Drives \cup {Absent}, lba : Nat] /\ xtTarget'.lba = xtTarget.lba
  BY <1>1 DEF XtInv, XtTypes, Emptied
<1>5. xtWrite' \in [drive : Drives \cup {Absent}, lba : Nat, count : Nat]
  <2>1. NoWrite \in [drive : Drives \cup {Absent}, lba : Nat, count : Nat]
    BY DEF NoWrite
  <2>2. xtOffset' < Len(xtBuffer) \/ xtOffset' = Len(xtBuffer)
    BY <1>1
  <2> QED
    BY <1>1, <2>1, <2>2 DEF XtInv, XtTypes
<1>6. XtTypes'
  BY <1>1, <1>2, <1>3, <1>4, <1>5 DEF XtInv, XtTypes
<1>7. XtCheckpointable'
  BY <1>1, <1>4 DEF XtInv, XtCheckpointable
<1>8. WriteUnderWay'
  <2> SUFFICES ASSUME xtWrite' # NoWrite PROVE WriteUnderWay'
    BY DEF WriteUnderWay
  <2>1. xtOffset' < Len(xtBuffer) /\ xtWrite' = xtWrite /\ xtWrite # NoWrite
    BY <1>1
  <2>2. xtTarget' = xtTarget
    BY <1>1
  <2> QED
    BY <1>1, <2>1, <2>2 DEF XtInv, WriteUnderWay
<1> QED
  BY <1>6, <1>7, <1>8 DEF XtInv

LEMMA ReadDataKeeps ==
  ASSUME XtInv, ReadData
  PROVE  XtInv'
<1>1. /\ xtOffset < Len(xtBuffer) /\ xtOffset' = xtOffset + 1
      /\ xtWrite' = NoWrite /\ xtSent' = <<>>
      /\ UNCHANGED <<xtRegs, xtBuffer, xtTarget, xtDisk>>
      /\ xtUsed'.data \in Nat
  BY DEF ReadData, Access, XtInv, XtTypes
<1>2. xtOffset \in Nat /\ Len(xtBuffer) \in Nat
  BY LenProperties DEF XtInv, XtTypes
<1>3. xtOffset' \in Nat /\ xtOffset' <= Len(xtBuffer')
  BY <1>1, <1>2
<1>4. xtWrite' \in [drive : Drives \cup {Absent}, lba : Nat, count : Nat]
      /\ xtSent' \in Seq(Data)
  BY <1>1, EmptySeq DEF NoWrite
<1> QED
  BY <1>1, <1>3, <1>4 DEF XtInv, XtTypes, XtCheckpointable, WriteUnderWay

LEMMA XtInvInit == XtInit => XtInv
<1> SUFFICES ASSUME XtInit PROVE XtInv
  OBVIOUS
<1>1. /\ Cylinders \in Nat \ {0} /\ Heads \in Nat \ {0} /\ Sectors \in Nat \ {0}
      /\ MaxCount \in Nat \ {0} /\ SectorBytes \in Nat \ {0} /\ Capacity \in Nat \ {0}
  BY CapacityPositive, XtAssumption
<1>2. /\ xtRegs = [count |-> 0, sector |-> 0, cylinder |-> 0, head |-> 0, drive |-> 0]
      /\ 0 \in 0..MaxCount - 1 /\ 0 \in 0..Sectors /\ 0 \in 0..Cylinders /\ 0 \in 0..Heads - 1
  BY <1>1 DEF XtInit
<1>3. xtRegs \in Taskfiles
  BY <1>2 DEF Taskfiles
<1>4. xtBuffer \in [1..SectorBytes -> Data]
  BY DEF XtInit, Zeros, Data
<1>5. /\ xtBuffer \in Seq(Data) /\ Len(xtBuffer) \in SectorBytes..MaxCount * SectorBytes
      /\ Len(xtBuffer) % SectorBytes = 0 /\ Len(xtBuffer) = SectorBytes
  BY <1>4, OneSector
<1>6. xtDisk \in [Drives -> [0..Capacity * SectorBytes - 1 -> Data]]
  BY DEF XtInit, Data
<1>7. /\ xtSent \in Seq(Data) /\ xtOffset = 0 /\ xtUsed.data = 0
      /\ xtTarget = [drive |-> Absent, lba |-> 0] /\ xtWrite = NoWrite
  BY EmptySeq DEF XtInit
<1>8. xtWrite \in [drive : Drives \cup {Absent}, lba : Nat, count : Nat]
  BY <1>7 DEF NoWrite
<1>9. XtTypes
  BY <1>3, <1>5, <1>6, <1>7, <1>8 DEF XtTypes
<1>10. XtCheckpointable
  BY <1>1, <1>5, <1>7 DEF XtCheckpointable
<1> QED
  BY <1>7, <1>9, <1>10 DEF XtInv, WriteUnderWay

LEMMA XtInvNext == XtInv /\ [XtNext]_xtVars => XtInv'
<1> SUFFICES ASSUME XtInv, [XtNext]_xtVars PROVE XtInv'
  OBVIOUS
<1>1. ASSUME NEW f \in DOMAIN XtRegisterValues, NEW v \in XtRegisterValues[f],
             WriteRegister(f, v)
      PROVE  XtInv'
  BY <1>1, RegisterKeeps
<1>2. CASE Unsupported \/ Seek \/ TransferRefused \/ ReadXtStatus \/ ReadError
  BY <1>2, IdleCommandKeeps
<1>3. CASE Identify
  BY <1>3, IdentifyKeeps
<1>4. CASE ReadMultiple
  BY <1>4, ReadMultipleKeeps
<1>5. CASE ReadMultipleFails
  BY <1>5, ReadMultipleFailsKeeps
<1>6. CASE WriteMultiple
  BY <1>6, WriteMultipleKeeps
<1>7. CASE WriteData(xtUsed.data + 1)
  <2>1. xtUsed.data + 1 \in Nat
    BY DEF XtInv, XtTypes
  <2> QED
    BY <1>7, <2>1, WriteDataKeeps
<1>8. CASE ReadData
  BY <1>8, ReadDataKeeps
<1>9. CASE UNCHANGED xtVars
  BY <1>9 DEF xtVars, xtTransfer, xtHistory, XtInv, XtTypes, XtCheckpointable, WriteUnderWay
<1> QED
  BY <1>1, <1>2, <1>3, <1>4, <1>5, <1>6, <1>7, <1>8, <1>9 DEF XtNext

\* Whatever the guest does to the disk ports, what a checkpoint captures of the
\* controller is what _validate_payload of xtidecodec.py accepts, for every
\* geometry, sector size and range of the count register.
THEOREM XtAlwaysCheckpointable == XtSpec => []XtCheckpointable
<1>1. XtInv => XtCheckpointable
  BY DEF XtInv
<1> QED
  BY <1>1, XtInvInit, XtInvNext, PTL DEF XtSpec

\* A read that crosses tracks and cylinders delivers consecutive sectors of the
\* disk and leaves the taskfile on the next one (xtide.py:115-139), for every
\* geometry and number of sectors.
THEOREM XtReadsConsecutive == XtSpec => XtReadsInPlace
<1>1. XtInv /\ [XtNext]_xtVars =>
        [ReadMultiple =>
           /\ \A k \in 1..Len(xtBuffer') :
                xtBuffer'[k] = xtDisk[xtRegs.drive][Lba(xtRegs) * SectorBytes + k - 1]
           /\ Lba(xtRegs') = Lba(xtRegs) + SectorCount]_xtVars
  <2> SUFFICES ASSUME XtInv, ReadMultiple
               PROVE  /\ \A k \in 1..Len(xtBuffer') :
                           xtBuffer'[k] = xtDisk[xtRegs.drive][Lba(xtRegs) * SectorBytes + k - 1]
                      /\ Lba(xtRegs') = Lba(xtRegs) + SectorCount
    OBVIOUS
  <2>1. /\ xtBuffer' \in [1..SectorCount * SectorBytes -> Data]
        /\ \A k \in 1..SectorCount * SectorBytes :
             xtBuffer'[k] = xtDisk[xtRegs.drive][Lba(xtRegs) * SectorBytes + k - 1]
        /\ Lba(xtRegs') = Lba(xtRegs) + SectorCount
    BY ReadMultipleReads
  <2>2. SectorCount \in 1..MaxCount
    BY ValidTaskfile DEF XtInv, ReadMultiple
  <2>3. SectorCount * SectorBytes \in Nat
    BY <2>2, WholeSectors
  <2>4. Len(xtBuffer') = SectorCount * SectorBytes
    BY <2>1, <2>3, ArrayIsSeq
  <2> QED
    BY <2>1, <2>4
<1> QED
  BY <1>1, XtInvInit, XtInvNext, PTL DEF XtSpec, XtReadsInPlace

\* Only a write that has been sent whole reaches a disk, where the command said
\* and all at once, or a part of it on a disk that fails.
LEMMA OnlyWhatWasSent ==
  ASSUME XtInv, XtNext, xtWrite # NoWrite, xtDisk' # xtDisk
  PROVE  LET first == xtWrite.lba * SectorBytes
             asked == first..first + xtWrite.count * SectorBytes - 1
         IN /\ Len(xtSent') = xtWrite.count * SectorBytes
            /\ \A d \in Drives : \A o \in DOMAIN xtDisk[d] :
                 \/ d = xtWrite.drive /\ o \in asked /\ xtDisk'[d][o] = xtSent'[o - first + 1]
                 \/ /\ xtDisk'[d][o] = xtDisk[d][o]
                    /\ "ERR" \in xtStatus' \/ d # xtWrite.drive \/ o \notin asked
<1> DEFINE total == xtWrite.count * SectorBytes
           first == xtWrite.lba * SectorBytes
           O == 0..Capacity * SectorBytes - 1
<1>1. PICK b \in Nat : WriteData(b)
  <2>1. WriteData(xtUsed.data + 1)
    BY DEF XtNext, WriteRegister, Unsupported, Seek, Identify, ReadMultiple, ReadMultipleFails,
           WriteMultiple, TransferRefused, Refuse, ReadData, ReadXtStatus, ReadError
  <2>2. xtUsed.data + 1 \in Nat
    BY DEF XtInv, XtTypes
  <2> QED
    BY <2>1, <2>2
<1>2. /\ xtBuffer' \in Seq(Data) /\ Len(xtBuffer') = Len(xtBuffer) /\ Len(xtBuffer) \in Nat
      /\ xtOffset' = Len(xtBuffer) /\ xtTarget.drive \in Drives
      /\ Len(xtSent') = xtOffset' /\ \A k \in 1..xtOffset' : xtBuffer'[k] = xtSent'[k]
  BY <1>1, ByteWritten DEF XtInv
<1>3. PICK n \in 0..Len(xtBuffer) : /\ xtDisk' = Stored(xtBuffer', n)
                                    /\ n # Len(xtBuffer) => "ERR" \in xtStatus'
  BY <1>1, ByteWritten DEF XtInv, StoresPart
<1>4. /\ xtTarget = [drive |-> xtWrite.drive, lba |-> xtWrite.lba] /\ Len(xtBuffer) = total
  BY DEF XtInv, WriteUnderWay
<1>5. xtTarget.drive = xtWrite.drive /\ xtTarget.lba * SectorBytes = first
  BY <1>4
<1>6. first \in Int /\ total \in Nat /\ n \in 0..total
  BY <1>2, <1>3, <1>4, XtAssumption DEF XtInv, XtTypes
<1>7. /\ \A d \in Drives \ {xtWrite.drive} : xtDisk'[d] = xtDisk[d]
      /\ \A o \in O : xtDisk'[xtWrite.drive][o] =
                        IF o \in first..first + n - 1 THEN xtBuffer'[o - first + 1]
                        ELSE xtDisk[xtWrite.drive][o]
  BY <1>2, <1>3, <1>5, StoredIs DEF XtInv
<1>8. \A d \in Drives : DOMAIN xtDisk[d] = O /\ O \subseteq Int
  BY CapacityPositive, XtAssumption DEF XtInv, XtTypes
<1> HIDE DEF total, first, O
<1>9. ASSUME NEW d \in Drives, NEW o \in O
      PROVE  \/ d = xtWrite.drive /\ o \in first..first + total - 1
                /\ xtDisk'[d][o] = xtSent'[o - first + 1]
             \/ /\ xtDisk'[d][o] = xtDisk[d][o]
                /\ "ERR" \in xtStatus' \/ d # xtWrite.drive \/ o \notin first..first + total - 1
  <2>1. CASE d # xtWrite.drive
    BY <1>7, <2>1
  <2>2. CASE d = xtWrite.drive /\ o \in first..first + n - 1
    <3>1. o - first + 1 \in 1..total /\ o \in first..first + total - 1
      BY <1>6, <1>8, <2>2
    <3>2. xtBuffer'[o - first + 1] = xtSent'[o - first + 1]
      BY <1>2, <1>4, <3>1
    <3> QED
      BY <1>7, <2>2, <3>1, <3>2
  <2>3. CASE d = xtWrite.drive /\ o \notin first..first + n - 1
    <3>1. xtDisk'[d][o] = xtDisk[d][o]
      BY <1>7, <2>3
    <3>2. n = total => o \notin first..first + total - 1
      BY <2>3
    <3>3. "ERR" \in xtStatus' \/ n = total
      BY <1>3, <1>4
    <3> QED
      BY <3>1, <3>2, <3>3
  <2> QED
    BY <2>1, <2>2, <2>3
<1>10. Len(xtSent') = total
  BY <1>2, <1>4
<1> QED
  BY <1>8, <1>9, <1>10 DEF total, first, O

\* While the guest is in the middle of a write, nothing but what it sent since
\* that command reaches a disk (xtide.py:303-314), for every geometry.
THEOREM XtStoresSent == XtSpec => XtStoresWhatWasSent
<1>1. XtInv /\ [XtNext]_xtVars =>
        [xtWrite # NoWrite /\ xtDisk' # xtDisk =>
           LET first == xtWrite.lba * SectorBytes
               asked == first..first + xtWrite.count * SectorBytes - 1
           IN /\ Len(xtSent') = xtWrite.count * SectorBytes
              /\ \A d \in Drives : \A o \in DOMAIN xtDisk[d] :
                   \/ d = xtWrite.drive /\ o \in asked /\ xtDisk'[d][o] = xtSent'[o - first + 1]
                   \/ /\ xtDisk'[d][o] = xtDisk[d][o]
                      /\ "ERR" \in xtStatus' \/ d # xtWrite.drive \/ o \notin asked]_xtVars
  <2> SUFFICES ASSUME XtInv, XtNext, xtWrite # NoWrite, xtDisk' # xtDisk
               PROVE  LET first == xtWrite.lba * SectorBytes
                          asked == first..first + xtWrite.count * SectorBytes - 1
                      IN /\ Len(xtSent') = xtWrite.count * SectorBytes
                         /\ \A d \in Drives : \A o \in DOMAIN xtDisk[d] :
                              \/ /\ d = xtWrite.drive /\ o \in asked
                                 /\ xtDisk'[d][o] = xtSent'[o - first + 1]
                              \/ /\ xtDisk'[d][o] = xtDisk[d][o]
                                 /\ "ERR" \in xtStatus' \/ d # xtWrite.drive \/ o \notin asked
    OBVIOUS
  <2> QED
    BY OnlyWhatWasSent
<1> QED
  BY <1>1, XtInvInit, XtInvNext, PTL DEF XtSpec, XtStoresWhatWasSent

-----------------------------------------------------------------------------
(* The recorders. *)

EventSet == [seq : Int, content : Int]

Clients == [run : Nat, cursor : Nat \cup {NoCursor}, end : Nat \cup {NoCursor},
            got : Seq(Int), upto : Nat \cup {NoCursor}]

RingsTypes ==
  /\ recorder \in {"trace", "hardware", "video", "serial"}
  /\ run \in Nat /\ size \in Nat
  /\ nextSeq \in Int /\ lost \in Nat /\ produced \in Nat /\ origin \in Nat
  /\ events \in Seq(EventSet)
  /\ client \in Clients

\* The sequence number of a recording's first event.
Lowest == IF recorder \in {"hardware", "video"} THEN 1 ELSE 0

\* What is retained are the last events produced, in order, within the capacity.
Numbered ==
  /\ \A i \in 1..Len(events) :
       /\ events[i].seq = nextSeq - Len(events) + i - 1
       /\ events[i].content = produced - Len(events) + i - 1
  /\ recorder # "trace" \/ active => size > 0
  /\ recorder # "trace" => Len(events) <= size

\* A recording has produced what it retains and what it lost; only the serial
\* port does not count what it lost, and never stops.
Accounted ==
  /\ active => started
  /\ started => nextSeq = produced - origin + Lowest /\ Len(events) <= produced - origin
  /\ started /\ recorder # "serial" => Len(events) + lost = produced - origin
  /\ recorder = "serial" => started /\ active /\ origin = 0 /\ size = MaxSize
  /\ recorder = "trace" => lost = 0

Current == started /\ client.run = run

\* Where the last page ended is after the last event the client got; if nothing
\* was lost it counts them, and a client that was told that there is no more had
\* reached the end of what there was then.
AtCursor ==
  /\ client.run <= run
  /\ client.cursor \in {client.end, NoCursor}
  /\ Current /\ client.got # <<>> =>
       /\ client.end # NoCursor
       /\ client.got[Len(client.got)] = origin + client.end - 1
  /\ Current /\ recorder # "serial" /\ lost = 0 =>
       /\ client.end = NoCursor => client.got = <<>>
       /\ client.end # NoCursor =>
            /\ client.end = Len(client.got)
            /\ \A i \in 1..Len(client.got) : client.got[i] = origin + i - 1
  /\ Current /\ client.upto # NoCursor =>
       recorder # "serial" /\ client.end # NoCursor /\ client.end = client.upto - origin

RingsInv == RingsTypes /\ Numbered /\ Accounted /\ PagesGapless /\ AtCursor

-----------------------------------------------------------------------------
(* Slices of what is retained. *)

LEMMA Consecutive ==
  ASSUME RingsTypes, Numbered
  PROVE  /\ Len(events) \in Nat
         /\ \A i \in 1..Len(events) : /\ events[i] \in EventSet
                                      /\ events[i].seq = nextSeq - Len(events) + i - 1
                                      /\ events[i].content = produced - Len(events) + i - 1
<1>1. Len(events) \in Nat
  BY LenProperties DEF RingsTypes
<1>2. \A i \in 1..Len(events) : events[i] \in EventSet
  BY ElementOfSeq DEF RingsTypes
<1> QED
  BY <1>1, <1>2 DEF Numbered

\* The slice that begins after the first k events.
LEMMA SliceIs ==
  ASSUME RingsTypes, Numbered, NEW k \in 0..Len(events), NEW n \in k..Len(events)
  PROVE  LET s == SubSeq(events, k + 1, n)
         IN /\ s \in Seq(EventSet) /\ Len(s) = n - k
            /\ \A j \in 1..n - k : s[j] = events[k + j]
<1>1. Len(events) \in Nat
  BY Consecutive
<1>2. k + 1 \in Int /\ n \in Int
  BY <1>1
<1>3. \A i \in k + 1 .. n : events[i] \in EventSet
  <2>1. \A i \in k + 1 .. n : i \in 1..Len(events)
    BY <1>1
  <2> QED
    BY <2>1, Consecutive
<1> DEFINE s == SubSeq(events, k + 1, n)
<1>4. /\ s \in Seq(EventSet)
      /\ Len(s) = IF k + 1 <= n THEN n - (k + 1) + 1 ELSE 0
      /\ \A j \in 1..n - (k + 1) + 1 : s[j] = events[k + 1 + j - 1]
  BY <1>2, <1>3, SubSeqProperties
<1> HIDE DEF s
<1>5. Len(s) = n - k /\ \A j \in 1..n - k : s[j] = events[k + j]
  <2>1. Len(s) = n - k
    BY <1>1, <1>4
  <2>2. ASSUME NEW j \in 1..n - k PROVE s[j] = events[k + j]
    <3>1. j \in 1..n - (k + 1) + 1 /\ k + 1 + j - 1 = k + j
      BY <1>1
    <3> QED
      BY <1>4, <3>1
  <2> QED
    BY <2>1, <2>2
<1> QED
  BY <1>4, <1>5 DEF s

\* Reading from a sequence number on gives the end of what is retained.
LEMMA FromIs ==
  ASSUME RingsTypes, Numbered, NEW k \in 0..Len(events),
         NEW start, start = nextSeq - Len(events) + k
  PROVE  From(start) = SubSeq(events, k + 1, Len(events))
<1> DEFINE n == Len(events)
           f == [i \in 0..n |-> IF i <= k THEN <<>> ELSE SubSeq(events, k + 1, i)]
           Reads(h) == h = [i \in 0..n |->
             IF i = 0 THEN <<>>
             ELSE IF events[i].seq >= start THEN Append(h[i - 1], events[i]) ELSE h[i - 1]]
           kept == CHOOSE h : Reads(h)
<1>1. n \in Nat /\ nextSeq \in Int /\ k \in Nat /\ events \in Seq(EventSet)
  BY Consecutive DEF RingsTypes
<1>2. ASSUME NEW i \in 0..n
      PROVE  f[i] = IF i = 0 THEN <<>>
                    ELSE IF events[i].seq >= start THEN Append(f[i - 1], events[i]) ELSE f[i - 1]
  <2>1. CASE i = 0
    BY <1>1, <2>1
  <2>2. CASE i # 0 /\ i <= k
    <3>1. i \in 1..n /\ i - 1 \in 0..n /\ i - 1 <= k
      BY <1>1, <2>2
    <3>2. ~(events[i].seq >= start)
      <4>1. events[i].seq = nextSeq - n + i - 1
        BY <3>1, Consecutive
      <4> QED
        BY <1>1, <2>2, <3>1, <4>1
    <3>3. f[i] = <<>> /\ f[i - 1] = <<>>
      BY <2>2, <3>1
    <3> QED
      BY <2>2, <3>2, <3>3
  <2>3. CASE i > k
    <3>1. i \in 1..n /\ i - 1 \in 0..n /\ i # 0
      BY <1>1, <2>3
    <3>2. events[i].seq >= start
      <4>1. events[i].seq = nextSeq - n + i - 1
        BY <3>1, Consecutive
      <4> QED
        BY <1>1, <2>3, <3>1, <4>1
    <3>3. f[i] = SubSeq(events, k + 1, i)
      <4>1. ~(i <= k)
        BY <1>1, <2>3
      <4> QED
        BY <4>1
    <3>4. f[i - 1] = SubSeq(events, k + 1, i - 1)
      <4>1. CASE i - 1 <= k
        <5>1. SubSeq(events, k + 1, i - 1) = <<>>
          <6>1. k + 1 \in Int /\ i - 1 \in Int /\ i - 1 < k + 1
            BY <1>1, <4>1
          <6> QED
            BY <6>1, SubSeqEmpty
        <5> QED
          BY <3>1, <4>1, <5>1
      <4>2. CASE ~(i - 1 <= k)
        BY <3>1, <4>2
      <4> QED
        BY <4>1, <4>2
    <3>5. SubSeq(events, k + 1, i) = Append(SubSeq(events, k + 1, i - 1), events[i])
      <4> DEFINE a == SubSeq(events, k + 1, i)  b == SubSeq(events, k + 1, i - 1)
      <4>1. i \in k..n /\ i - 1 \in k..n /\ events[i] \in EventSet
        BY <1>1, <2>3, <3>1, Consecutive
      <4>2. a \in Seq(EventSet) /\ Len(a) = i - k /\ \A j \in 1..i - k : a[j] = events[k + j]
        BY <4>1, SliceIs
      <4>3. /\ b \in Seq(EventSet) /\ Len(b) = i - 1 - k
            /\ \A j \in 1..i - 1 - k : b[j] = events[k + j]
        BY <4>1, SliceIs
      <4> HIDE DEF a, b
      <4> DEFINE c == Append(b, events[i])
      <4>4. /\ c \in Seq(EventSet) /\ Len(c) = Len(b) + 1
            /\ \A j \in 1..Len(b) : c[j] = b[j] /\ c[Len(b) + 1] = events[i]
        BY <4>1, <4>3, AppendProperties
      <4>5. c[Len(b) + 1] = events[i]
        BY <4>1, <4>3, AppendProperties
      <4> HIDE DEF c
      <4>6. Len(a) = Len(c)
        BY <1>1, <3>1, <4>2, <4>3, <4>4
      <4>7. ASSUME NEW j \in 1..Len(a) PROVE a[j] = c[j]
        <5>1. j \in 1..i - k
          BY <4>2
        <5>2. CASE j = i - k
          <6>1. j = Len(b) + 1 /\ k + j = i
            BY <1>1, <3>1, <4>3, <5>2
          <6> QED
            BY <4>2, <4>5, <5>1, <6>1
        <5>3. CASE j # i - k
          <6>1. j \in 1..i - 1 - k /\ j \in 1..Len(b)
            BY <1>1, <3>1, <4>3, <5>1, <5>3
          <6> QED
            BY <4>2, <4>3, <4>4, <5>1, <6>1
        <5> QED
          BY <5>2, <5>3
      <4>8. a = c
        BY <4>2, <4>4, <4>6, <4>7, SeqEqual
      <4> QED
        BY <4>8 DEF a, b, c
    <3> HIDE DEF f
    <3> QED
      BY <3>1, <3>2, <3>3, <3>4, <3>5
  <2>4. i = 0 \/ (i # 0 /\ i <= k) \/ i > k
    BY <1>1
  <2> QED
    BY <2>1, <2>2, <2>3, <2>4
<1>3. f = [i \in 0..n |-> f[i]]
  OBVIOUS
<1> HIDE DEF f
<1>4. Reads(f)
  BY <1>2, <1>3, Zenon
<1>5. Reads(kept)
  <2> HIDE DEF Reads
  <2> QED
    BY <1>4
<1>6. From(start) = kept[n]
  BY DEF From
<1> DEFINE Same == {i \in 0..n : kept[i] = f[i]}
<1>7. \A i \in 0..n : kept[i] = IF i = 0 THEN <<>>
             ELSE IF events[i].seq >= start THEN Append(kept[i - 1], events[i]) ELSE kept[i - 1]
  <2> HIDE DEF kept
  <2> QED
    BY <1>5
<1> HIDE DEF kept, Reads
<1>8. 0 \in Same
  <2>1. 0 \in 0..n
    BY <1>1
  <2> QED
    BY <1>2, <1>7, <2>1
<1>9. ASSUME NEW i \in 1..n, i - 1 \in Same PROVE i \in Same
  <2>1. i \in 0..n /\ i # 0 /\ kept[i - 1] = f[i - 1]
    BY <1>1, <1>9
  <2> QED
    BY <1>2, <1>7, <2>1
<1> HIDE DEF Same
<1>10. n \in Same
  <2>1. 0..n \subseteq Same
    BY <1>1, <1>8, <1>9, UpToLast
  <2> QED
    BY <1>1, <2>1
<1>11. kept[n] = f[n]
  BY <1>10 DEF Same
<1>12. f[n] = SubSeq(events, k + 1, n)
  <2>1. n \in 0..n
    BY <1>1
  <2>2. CASE n <= k
    <3>1. k + 1 \in Int /\ n \in Int /\ n < k + 1
      BY <1>1, <2>2
    <3>2. SubSeq(events, k + 1, n) = <<>>
      BY <3>1, SubSeqEmpty
    <3> QED
      BY <2>1, <2>2, <3>2 DEF f
  <2>3. CASE ~(n <= k)
    BY <2>1, <2>3 DEF f
  <2> QED
    BY <2>2, <2>3
<1> QED
  BY <1>6, <1>11, <1>12

\* The page of at most limit events after the first k retained ones.
LEMMA UpToIs ==
  ASSUME RingsTypes, Numbered, NEW k \in 0..Len(events), NEW limit \in Limits
  PROVE  LET s == UpTo(limit, SubSeq(events, k + 1, Len(events)))
         IN /\ s \in Seq(EventSet) /\ Len(s) \in 0..Len(events) - k
            /\ \A j \in 1..Len(s) : s[j] = events[k + j]
<1> DEFINE t == SubSeq(events, k + 1, Len(events))
           m == IF limit < Len(t) THEN limit ELSE Len(t)
           s == SubSeq(t, 1, m)
<1>1. Len(events) \in Nat /\ limit \in Nat
  BY Consecutive, RingsAssumption
<1>2. /\ t \in Seq(EventSet) /\ Len(t) = Len(events) - k
      /\ \A j \in 1..Len(events) - k : t[j] = events[k + j]
  <2>1. Len(events) \in k..Len(events)
    BY <1>1
  <2> QED
    BY <2>1, SliceIs
<1> HIDE DEF t
<1>3. Len(t) \in Nat
  BY <1>1, <1>2
<1>4. m \in Nat /\ m <= Len(t)
  BY <1>1, <1>3
<1> HIDE DEF m
<1>5. \A i \in 1..m : t[i] \in EventSet
  <2>1. \A i \in 1..m : i \in 1..Len(t)
    BY <1>3, <1>4
  <2> QED
    BY <1>2, <2>1, ElementOfSeq
<1>6. /\ s \in Seq(EventSet)
      /\ Len(s) = IF 1 <= m THEN m - 1 + 1 ELSE 0
      /\ \A i \in 1..m - 1 + 1 : s[i] = t[1 + i - 1]
  <2>1. 1 \in Int /\ m \in Int
    BY <1>4
  <2> QED
    BY <1>5, <2>1, SubSeqProperties
<1> HIDE DEF s
<1>7. Len(s) = m
  BY <1>4, <1>6
<1>8. ASSUME NEW j \in 1..Len(s) PROVE s[j] = events[k + j]
  <2>1. j \in 1..m - 1 + 1 /\ 1 + j - 1 = j /\ j \in 1..Len(events) - k
    BY <1>1, <1>2, <1>4, <1>7
  <2>2. s[j] = t[j]
    BY <1>6, <2>1
  <2> QED
    BY <1>2, <2>1, <2>2
<1>9. Len(s) \in 0..Len(events) - k
  BY <1>1, <1>2, <1>4, <1>7
<1> QED
  BY <1>6, <1>8, <1>9 DEF s, m, t, UpTo

-----------------------------------------------------------------------------
(* Pages. *)

\* A page goes on where the cursor stands, in the numbering of the recording, and
\* ends at the place the next cursor stands for; without one it is the end.
Continues(p, c) ==
  /\ started
  /\ p.events \in Seq(EventSet) /\ p.end \in Nat
  /\ \A j \in 1..Len(p.events) :
       p.events[j].content = origin + p.end - Len(p.events) + j - 1
  /\ c # NoCursor => p.end = c + Len(p.events)
  /\ recorder # "serial" /\ lost = 0 /\ c = NoCursor => p.end = Len(p.events)
  /\ p.next \in {p.end, NoCursor}
  /\ p.next = NoCursor => recorder # "serial" /\ p.end = produced - origin

\* What has to be shown of a page of the events after the first k retained ones.
LEMMA SliceContinues ==
  ASSUME RingsTypes, Numbered, Accounted, started,
         NEW k \in 0..Len(events), NEW s \in Seq(EventSet), Len(s) \in 0..Len(events) - k,
         \A j \in 1..Len(s) : s[j] = events[k + j],
         NEW c, c = produced - origin - Len(events) + k + Len(s)
  PROVE  /\ c \in Nat /\ c - Len(s) \in Nat /\ Len(s) \in Nat
         /\ \A j \in 1..Len(s) : s[j].content = origin + c - Len(s) + j - 1
         /\ lost = 0 /\ recorder # "serial" /\ k = 0 => c = Len(s)
         /\ s # <<>> => Last(s).seq = c + Lowest - 1
         /\ c <= produced - origin
<1>1. /\ Len(events) \in Nat /\ Len(s) \in Nat /\ k \in Nat /\ Len(s) <= Len(events) - k
      /\ produced \in Nat /\ origin \in Nat /\ nextSeq \in Int /\ lost \in Nat
  BY Consecutive DEF RingsTypes
<1>2. nextSeq = produced - origin + Lowest /\ Len(events) <= produced - origin
  BY DEF Accounted
<1>3. c \in Nat /\ c - Len(s) \in Nat /\ c <= produced - origin
  BY <1>1, <1>2
<1>4. ASSUME NEW j \in 1..Len(s)
      PROVE  /\ s[j].content = origin + c - Len(s) + j - 1
             /\ s[j].seq = c - Len(s) + j - 1 + Lowest
  <2>1. k + j \in 1..Len(events)
    BY <1>1
  <2>2. /\ events[k + j].seq = nextSeq - Len(events) + (k + j) - 1
        /\ events[k + j].content = produced - Len(events) + (k + j) - 1
    BY <2>1, Consecutive
  <2>3. Lowest \in Int
    BY DEF Lowest
  <2>4. s[j] = events[k + j]
    OBVIOUS
  <2>5. s[j].content = origin + c - Len(s) + j - 1
    BY <1>1, <2>2, <2>4
  <2>6. s[j].seq = c - Len(s) + j - 1 + Lowest
    BY <1>1, <1>2, <2>2, <2>3, <2>4
  <2> QED
    BY <2>5, <2>6
<1>5. lost = 0 /\ recorder # "serial" /\ k = 0 => c = Len(s)
  <2>1. recorder # "serial" => Len(events) + lost = produced - origin
    BY DEF Accounted
  <2>2. lost \in Nat
    BY DEF RingsTypes
  <2> QED
    BY <1>1, <2>1, <2>2
<1>6. s # <<>> => Last(s).seq = c + Lowest - 1
  <2> SUFFICES ASSUME s # <<>> PROVE Last(s).seq = c + Lowest - 1
    OBVIOUS
  <2>1. Len(s) \in 1..Len(s)
    BY <1>1, EmptySeq
  <2>2. s[Len(s)].seq = c - Len(s) + Len(s) - 1 + Lowest
    BY <1>4, <2>1
  <2>3. Lowest \in Int
    BY DEF Lowest
  <2> QED
    BY <1>1, <1>3, <2>2, <2>3 DEF Last
<1> QED
  BY <1>1, <1>3, <1>4, <1>5, <1>6

LEMMA TraceContinues ==
  ASSUME RingsTypes, Numbered, Accounted, recorder = "trace", NEW limit \in Limits,
         NEW c \in Nat \cup {NoCursor}, TracePage(c, limit).ok
  PROVE  Continues(TracePage(c, limit), c)
<1> DEFINE offset == IF c = NoCursor THEN 0 ELSE c
           end == IF offset + limit < Len(events) THEN offset + limit ELSE Len(events)
           s == SubSeq(events, offset + 1, end)
           b == active \/ end < Len(events)
           p == TracePage(c, limit)
<1>1. started /\ ~(offset > Len(events))
  BY DEF TracePage, Refused
<1>2. p = Paged(s, end, b)
  BY <1>1 DEF TracePage
<1>3. p.events = s /\ p.end = end /\ p.next = IF b THEN end ELSE NoCursor
  <2>1. b \in BOOLEAN
    OBVIOUS
  <2> HIDE DEF p, b, s, end
  <2> QED
    BY <1>2, <2>1 DEF Paged
<1>4. offset \in Nat /\ Len(events) \in Nat /\ limit \in Nat
      /\ (c # NoCursor => offset = c)
      /\ (c = NoCursor => offset = 0)
  BY Consecutive, RingsAssumption DEF RingsTypes
<1> HIDE DEF p, offset
<1>5. offset \in 0..Len(events) /\ end \in offset..Len(events)
  BY <1>1, <1>4
<1>6. ~b => end = Len(events)
  BY <1>4, <1>5
<1> HIDE DEF end, b
<1>7. s \in Seq(EventSet) /\ Len(s) = end - offset /\ \A j \in 1..end - offset : s[j] = events[offset + j]
  BY <1>5, SliceIs
<1> HIDE DEF s
<1>8. Len(events) = produced - origin
  BY <1>1, <1>4 DEF Accounted, RingsTypes
<1>9. end = produced - origin - Len(events) + offset + Len(s) /\ Len(s) \in 0..Len(events) - offset
      /\ end \in Nat
  BY <1>4, <1>5, <1>7, <1>8
<1>10. /\ \A j \in 1..Len(s) : s[j].content = origin + end - Len(s) + j - 1
       /\ lost = 0 /\ recorder # "serial" /\ offset = 0 => end = Len(s)
  BY <1>1, <1>5, <1>7, <1>9, SliceContinues
<1>11. c # NoCursor => end = c + Len(s)
  BY <1>4, <1>5, <1>7
<1>12. p.next \in {p.end, NoCursor}
  BY <1>3
<1>13. p.next = NoCursor => p.end = produced - origin
  <2>1. end # NoCursor
    BY <1>9, RingsAssumption
  <2> QED
    BY <1>3, <1>6, <1>8, <2>1
<1> QED
  BY <1>1, <1>3, <1>4, <1>7, <1>9, <1>10, <1>11, <1>12, <1>13 DEF Continues, p

LEMMA FirstIs ==
  ASSUME RingsTypes, Numbered
  PROVE  First = nextSeq - Len(events)
<1>1. CASE events = <<>>
  <2>1. Len(events) = 0 /\ nextSeq \in Int
    BY <1>1 DEF RingsTypes
  <2> QED
    BY <1>1, <2>1 DEF First
<1>2. CASE events # <<>>
  <2>1. 1 \in 1..Len(events)
    BY <1>2, EmptySeq DEF RingsTypes
  <2>2. events[1].seq = nextSeq - Len(events) + 1 - 1
    BY <2>1, Consecutive
  <2>3. nextSeq \in Int /\ Len(events) \in Int
    BY Consecutive DEF RingsTypes
  <2>4. Head(events) = events[1]
    BY <1>2 DEF RingsTypes
  <2> QED
    BY <1>2, <2>2, <2>3, <2>4 DEF First
<1> QED
  BY <1>1, <1>2

\* The two recorders whose cursor is the last event read.
LEMMA AfterContinues ==
  ASSUME RingsTypes, Numbered, Accounted, started, recorder \in {"hardware", "video"},
         NEW limit \in Limits, NEW start \in Int, NEW cc \in Nat \cup {NoCursor},
         start \in nextSeq - Len(events) .. nextSeq,
         cc # NoCursor => start = cc + 1,
         cc = NoCursor => start = nextSeq - Len(events),
         NEW p, p.events = UpTo(limit, From(start)),
         p.end = IF p.events = <<>> THEN start - 1 ELSE Last(p.events).seq,
         p.next = IF p.end < nextSeq - 1 THEN p.end ELSE NoCursor
  PROVE  Continues(p, cc)
<1> DEFINE n == Len(events)
           k == start - (nextSeq - n)
           s == UpTo(limit, SubSeq(events, k + 1, n))
           c == produced - origin - n + k + Len(s)
<1>1. /\ n \in Nat /\ nextSeq \in Int /\ produced \in Nat /\ origin \in Nat
      /\ cc # NoCursor => cc \in Nat
  BY Consecutive DEF RingsTypes
<1>2. k \in 0..n /\ start = nextSeq - n + k
  BY <1>1
<1>3. p.events = s
  <2> HIDE DEF k
  <2>1. From(start) = SubSeq(events, k + 1, n)
    BY <1>2, FromIs
  <2> QED
    BY <2>1
<1>4. s \in Seq(EventSet) /\ Len(s) \in 0..n - k /\ \A j \in 1..Len(s) : s[j] = events[k + j]
  <2> HIDE DEF k
  <2> QED
    BY <1>2, UpToIs
<1> HIDE DEF s
<1>5. /\ c \in Nat /\ c - Len(s) \in Nat /\ Len(s) \in Nat
      /\ \A j \in 1..Len(s) : s[j].content = origin + c - Len(s) + j - 1
      /\ lost = 0 /\ recorder # "serial" /\ k = 0 => c = Len(s)
      /\ s # <<>> => Last(s).seq = c + Lowest - 1
      /\ c <= produced - origin
  <2> HIDE DEF k
  <2>1. c = produced - origin - Len(events) + k + Len(s)
    OBVIOUS
  <2> HIDE DEF c
  <2> QED
    BY <1>2, <1>4, <2>1, SliceContinues
<1>6. Lowest = 1 /\ nextSeq = produced - origin + 1
  BY DEF Lowest, Accounted
<1>7. p.end = c
  <2>1. CASE s = <<>>
    <3>1. p.end = start - 1
      BY <1>3, <2>1
    <3>2. Len(s) = 0
      BY <2>1
    <3>3. start - 1 = c
      BY <1>1, <1>2, <1>6, <3>2
    <3> QED
      BY <3>1, <3>3
  <2>2. CASE s # <<>>
    <3>1. p.end = Last(s).seq
      BY <1>3, <2>2
    <3> QED
      BY <1>5, <1>6, <2>2, <3>1
  <2> QED
    BY <2>1, <2>2
<1>8. cc # NoCursor => c = cc + Len(s)
  <2> SUFFICES ASSUME cc # NoCursor PROVE c = cc + Len(s)
    OBVIOUS
  <2>1. start = cc + 1 /\ cc \in Nat
    BY <1>1
  <2>2. Len(s) \in Nat
    BY <1>5
  <2>3. k = cc + 1 - (nextSeq - n)
    BY ONLY <1>1, <2>1
  <2>4. c = produced - origin - n + k + Len(s)
    OBVIOUS
  <2> HIDE DEF c, k, n
  <2> QED
    BY ONLY <1>1, <1>6, <2>1, <2>2, <2>3, <2>4
<1>9. cc = NoCursor => k = 0
  BY <1>1
<1>10. p.next = NoCursor => c = produced - origin
  <2>1. p.end # NoCursor
    BY <1>5, <1>7, RingsAssumption
  <2>2. p.next = NoCursor => ~(c < nextSeq - 1)
    BY <1>7, <2>1
  <2>3. ~(c < nextSeq - 1) => c = produced - origin
    BY <1>1, <1>5, <1>6
  <2> HIDE DEF c
  <2> QED
    BY <2>2, <2>3, Zenon
<1> HIDE DEF c, k
<1>11. recorder # "serial" /\ lost = 0 /\ cc = NoCursor => c = Len(s)
  BY <1>5, <1>9
<1>12. recorder # "serial"
  OBVIOUS
<1>13. p.next = NoCursor => recorder # "serial" /\ p.end = produced - origin
  BY <1>7, <1>10, <1>12, Zenon
<1>14. /\ started /\ p.events \in Seq(EventSet) /\ p.end \in Nat
       /\ \A j \in 1..Len(p.events) :
            p.events[j].content = origin + p.end - Len(p.events) + j - 1
  BY <1>3, <1>4, <1>5, <1>7
<1>15. cc # NoCursor => p.end = cc + Len(p.events)
  BY <1>3, <1>7, <1>8
<1>16. recorder # "serial" /\ lost = 0 /\ cc = NoCursor => p.end = Len(p.events)
  BY <1>3, <1>7, <1>11
<1>17. p.next \in {p.end, NoCursor}
  OBVIOUS
<1> QED
  BY <1>13, <1>14, <1>15, <1>16, <1>17, Zenon DEF Continues

LEMMA HardwareContinues ==
  ASSUME RingsTypes, Numbered, Accounted, recorder = "hardware", NEW limit \in Limits,
         NEW c \in Nat \cup {NoCursor},
         HardwarePage(c, limit).ok
  PROVE  Continues(HardwarePage(c, limit), c)
<1> DEFINE start == IF c = NoCursor THEN First ELSE c + 1
           s == UpTo(limit, From(start))
           end == IF s = <<>> THEN start - 1 ELSE Last(s).seq
           b == end < nextSeq - 1
           p == HardwarePage(c, limit)
<1>1. started /\ ~(start < First) /\ ~(start > nextSeq)
  BY DEF HardwarePage, Refused
<1>2. p = Paged(s, end, b)
  BY <1>1 DEF HardwarePage
<1>3. p.events = s /\ p.end = end /\ p.next = IF b THEN end ELSE NoCursor
  <2>1. b \in BOOLEAN
    OBVIOUS
  <2> HIDE DEF p, s, end, b
  <2> QED
    BY <1>2, <2>1 DEF Paged
<1>4. Len(events) \in Nat /\ nextSeq \in Int /\ First = nextSeq - Len(events)
      /\ (c # NoCursor => c \in Nat)
  BY Consecutive, FirstIs DEF RingsTypes
<1>5. start \in Int /\ start \in nextSeq - Len(events) .. nextSeq
  BY <1>1, <1>4
<1>6. /\ c # NoCursor => start = c + 1
      /\ c = NoCursor => start = nextSeq - Len(events)
  BY <1>4
<1> HIDE DEF p, start
<1>7. p.end = IF p.events = <<>> THEN start - 1 ELSE Last(p.events).seq
  BY <1>3
<1>8. p.next = IF p.end < nextSeq - 1 THEN p.end ELSE NoCursor
  <2> HIDE DEF end
  <2> QED
    BY <1>3
<1>9. p.events = UpTo(limit, From(start))
  BY <1>3
<1>10. recorder \in {"hardware", "video"}
  OBVIOUS
<1>11. Continues(p, c)
  BY <1>1, <1>5, <1>6, <1>7, <1>8, <1>9, <1>10, AfterContinues
<1> QED
  BY <1>11 DEF p

LEMMA VideoContinues ==
  ASSUME RingsTypes, Numbered, Accounted, recorder = "video", NEW limit \in Limits, NEW id,
         NEW c \in Nat \cup {NoCursor},
         VideoPage(id, c, limit).ok
  PROVE  Continues(VideoPage(id, c, limit), c) /\ id = run
<1> DEFINE first == nextSeq - Len(events)
           after == IF c = NoCursor THEN first - 1 ELSE c
           s == UpTo(limit, From(after + 1))
           end == IF s = <<>> THEN after ELSE Last(s).seq
           b == end < nextSeq - 1
           p == VideoPage(id, c, limit)
<1>1. id = run /\ started /\ ~(after < first - 1) /\ ~(after >= nextSeq)
  BY DEF VideoPage, Refused
<1>2. p = Paged(s, end, b)
  BY <1>1 DEF VideoPage
<1>3. p.events = s /\ p.end = end /\ p.next = IF b THEN end ELSE NoCursor
  <2>1. b \in BOOLEAN
    OBVIOUS
  <2> HIDE DEF p, s, end, b
  <2> QED
    BY <1>2, <2>1 DEF Paged
<1>4. Len(events) \in Nat /\ nextSeq \in Int
      /\ (c # NoCursor => c \in Nat)
  BY Consecutive DEF RingsTypes
<1>5. after \in Int /\ after + 1 \in Int /\ after + 1 \in nextSeq - Len(events) .. nextSeq
      /\ after = (after + 1) - 1
  BY <1>1, <1>4
<1>6. /\ c # NoCursor => after + 1 = c + 1
      /\ c = NoCursor => after + 1 = nextSeq - Len(events)
  BY <1>4
<1> HIDE DEF p, after
<1>7. p.end = IF p.events = <<>> THEN (after + 1) - 1 ELSE Last(p.events).seq
  BY <1>3, <1>5
<1>8. p.next = IF p.end < nextSeq - 1 THEN p.end ELSE NoCursor
  <2> HIDE DEF end
  <2> QED
    BY <1>3
<1>9. p.events = UpTo(limit, From(after + 1))
  BY <1>3
<1>10. recorder \in {"hardware", "video"}
  OBVIOUS
<1>11. Continues(p, c)
  BY <1>1, <1>5, <1>6, <1>7, <1>8, <1>9, <1>10, AfterContinues
<1> QED
  BY <1>1, <1>11 DEF p

LEMMA SerialContinues ==
  ASSUME RingsTypes, Numbered, Accounted, recorder = "serial", NEW limit \in Limits,
         NEW offset \in Nat \cup {NoCursor}, SerialPage(offset, limit).ok
  PROVE  Continues(SerialPage(offset, limit), offset)
<1> DEFINE n == Len(events)
           k == offset - (nextSeq - n)
           s == UpTo(limit, SubSeq(events, offset - (nextSeq - n) + 1, n))
           c == offset + Len(s)
           p == SerialPage(offset, limit)
<1>1. offset # NoCursor /\ offset \in nextSeq - n .. nextSeq
  BY DEF SerialPage, Refused
<1>2. p = Paged(s, c, TRUE)
  BY <1>1 DEF SerialPage
<1>3. p.events = s /\ p.end = c /\ p.next = c
  <2> HIDE DEF p, s, c
  <2> QED
    BY <1>2 DEF Paged
<1>4. /\ n \in Nat /\ nextSeq \in Int /\ offset \in Nat /\ produced \in Nat /\ origin \in Nat
  BY <1>1, Consecutive DEF RingsTypes
<1> HIDE DEF p
<1>5. k \in 0..n
  BY <1>1, <1>4
<1>6. s \in Seq(EventSet) /\ Len(s) \in 0..n - k /\ \A j \in 1..Len(s) : s[j] = events[k + j]
  <2>1. s = UpTo(limit, SubSeq(events, k + 1, n))
    OBVIOUS
  <2> HIDE DEF k
  <2> QED
    BY <1>5, <2>1, UpToIs
<1> HIDE DEF s
<1>7. started /\ nextSeq = produced - origin
  BY <1>4 DEF Accounted, Lowest
<1>8. c = produced - origin - n + k + Len(s)
  <2>1. Len(s) \in Int
    BY <1>4, <1>5, <1>6
  <2> QED
    BY <1>4, <1>7, <2>1
<1>9. c \in Nat /\ \A j \in 1..Len(s) : s[j].content = origin + c - Len(s) + j - 1
  <2> HIDE DEF k, c
  <2> QED
    BY <1>5, <1>6, <1>7, <1>8, SliceContinues
<1>10. c = offset + Len(s) /\ c # NoCursor
  BY <1>4, <1>9, RingsAssumption
<1> HIDE DEF c, k
<1>11. /\ started /\ p.events \in Seq(EventSet) /\ p.end \in Nat
       /\ \A j \in 1..Len(p.events) :
            p.events[j].content = origin + p.end - Len(p.events) + j - 1
  BY <1>3, <1>6, <1>7, <1>9
<1>12. p.end = offset + Len(p.events) /\ p.next = p.end /\ p.next # NoCursor
  BY <1>3, <1>10
<1>13. Continues(p, offset)
  BY <1>1, <1>11, <1>12, Zenon DEF Continues
<1> QED
  BY <1>13 DEF p

LEMMA PageContinues ==
  ASSUME RingsTypes, Numbered, Accounted, NEW limit \in Limits,
         NEW c \in Nat \cup {NoCursor}, Page(c, limit).ok
  PROVE  Continues(Page(c, limit), c) /\ (recorder = "video" => client.run = run)
<1>1. CASE recorder = "trace"
  <2>1. Page(c, limit) = TracePage(c, limit)
    BY <1>1 DEF Page
  <2> QED
    BY <1>1, <2>1, TraceContinues
<1>2. CASE recorder = "hardware"
  <2>1. Page(c, limit) = HardwarePage(c, limit)
    BY <1>2 DEF Page
  <2> QED
    BY <1>2, <2>1, HardwareContinues
<1>3. CASE recorder = "video"
  <2>1. Page(c, limit) = VideoPage(client.run, c, limit)
    BY <1>3 DEF Page
  <2> QED
    BY <1>3, <2>1, VideoContinues
<1>4. CASE recorder = "serial"
  <2>1. Page(c, limit) = SerialPage(c, limit)
    BY <1>4 DEF Page
  <2> QED
    BY <1>4, <2>1, SerialContinues
<1> QED
  BY <1>1, <1>2, <1>3, <1>4 DEF RingsTypes

-----------------------------------------------------------------------------
(* Reading keeps the invariant. *)

LEMMA ReadGets ==
  ASSUME RingsInv, NEW limit \in Limits, NEW c \in {client.cursor, client.end}, Read(c, limit)
  PROVE  LET p == Page(c, limit)
             g == [i \in DOMAIN p.events |-> p.events[i].content]
         IN /\ Continues(p, c) /\ (recorder = "video" => client.run = run)
            /\ g \in Seq(Int) /\ Len(g) = Len(p.events)
            /\ \A j \in 1..Len(g) : g[j] = origin + p.end - Len(g) + j - 1
            /\ client' \in Clients /\ client'.run = client.run
            /\ client'.cursor = p.next /\ client'.end = p.end
            /\ client'.got = IF c = NoCursor THEN g ELSE client.got \o g
            /\ client'.upto = IF p.next = NoCursor THEN produced ELSE NoCursor
<1> DEFINE p == Page(c, limit)
           g == [i \in DOMAIN p.events |-> p.events[i].content]
           got == IF c = NoCursor THEN g ELSE client.got \o g
           upto == IF p.next = NoCursor THEN produced ELSE NoCursor
<1>1. Continues(p, c) /\ (recorder = "video" => client.run = run)
  <2>1. c \in Nat \cup {NoCursor}
    BY DEF RingsInv, RingsTypes, Clients
  <2> QED
    BY <2>1, PageContinues DEF Read, RingsInv
<1>2. client' = [client EXCEPT !.cursor = p.next, !.end = p.end, !.got = got, !.upto = upto]
  <2>1. client' = [client EXCEPT !.cursor = p.next, !.end = p.end,
                                 !.got = IF c = NoCursor THEN g ELSE @ \o g, !.upto = upto]
    BY DEF Read
  <2> HIDE DEF p, g, upto
  <2>2. client \in Clients
    BY DEF RingsInv, RingsTypes
  <2> QED
    BY <2>1, <2>2 DEF Clients
<1> HIDE DEF p
<1>3. p.events \in Seq(EventSet) /\ p.end \in Nat /\ p.next \in {p.end, NoCursor}
  BY <1>1 DEF Continues
<1>4. Len(p.events) \in Nat /\ DOMAIN p.events = 1..Len(p.events)
  BY <1>3, LenProperties
<1>5. \A i \in 1..Len(p.events) : p.events[i].content \in Int
  <2>1. \A i \in 1..Len(p.events) : p.events[i] \in EventSet
    BY <1>3, ElementOfSeq
  <2> QED
    BY <2>1 DEF EventSet
<1>6. g \in Seq(Int) /\ Len(g) = Len(p.events)
  <2>1. g = [i \in 1..Len(p.events) |-> p.events[i].content]
    BY <1>4
  <2>2. g \in [1..Len(p.events) -> Int]
    BY <1>5, <2>1
  <2> QED
    BY <1>4, <2>2
<1>7. ASSUME NEW j \in 1..Len(g) PROVE g[j] = origin + p.end - Len(g) + j - 1
  <2>1. j \in DOMAIN p.events /\ j \in 1..Len(p.events)
    BY <1>4, <1>6
  <2>2. g[j] = p.events[j].content
    BY <2>1
  <2>3. p.events[j].content = origin + p.end - Len(p.events) + j - 1
    BY <1>1, <2>1 DEF Continues
  <2> HIDE DEF g
  <2> QED
    BY <1>6, <2>2, <2>3
<1> HIDE DEF g
<1>8. client.got \in Seq(Int) /\ produced \in Nat
  BY DEF RingsInv, RingsTypes, Clients
<1>9. got \in Seq(Int) /\ upto \in Nat \cup {NoCursor}
  BY <1>6, <1>8, ConcatProperties
<1> HIDE DEF got, upto
<1>10. /\ client' \in Clients /\ client'.run = client.run
       /\ client'.cursor = p.next /\ client'.end = p.end
       /\ client'.got = got /\ client'.upto = upto
  BY <1>2, <1>3, <1>9 DEF RingsInv, RingsTypes, Clients
<1> QED
  BY <1>1, <1>6, <1>7, <1>10 DEF p, g, got, upto

LEMMA ReadKeeps ==
  ASSUME RingsInv, NEW limit \in Limits, NEW c \in {client.cursor, client.end}, Read(c, limit)
  PROVE  RingsInv'
<1> DEFINE p == Page(c, limit)
           g == [i \in DOMAIN p.events |-> p.events[i].content]
           got == IF c = NoCursor THEN <<>> ELSE client.got
           m == Len(got)
           n == Len(g)
           new == IF c = NoCursor THEN g ELSE client.got \o g
<1>1. /\ Continues(p, c) /\ (recorder = "video" => client.run = run)
      /\ g \in Seq(Int) /\ n = Len(p.events)
      /\ \A j \in 1..n : g[j] = origin + p.end - n + j - 1
      /\ client' \in Clients /\ client'.run = client.run
      /\ client'.cursor = p.next /\ client'.end = p.end /\ client'.got = new
      /\ client'.upto = IF p.next = NoCursor THEN produced ELSE NoCursor
  BY ReadGets
<1>2. UNCHANGED <<recorder, run, started, active, size, nextSeq, events, lost, produced, origin>>
  BY DEF Read
<1> HIDE DEF p, g
<1>3. /\ client \in Clients
      /\ got \in Seq(Int) /\ m \in Nat /\ n \in Nat /\ origin \in Nat
      /\ run \in Nat /\ lost \in Nat /\ produced \in Nat /\ client.run \in Nat
  <2>1. client \in Clients
    BY DEF RingsInv, RingsTypes
  <2>2. client.got \in Seq(Int) /\ client.run \in Nat
    BY <2>1 DEF Clients
  <2>3. got \in Seq(Int)
    BY <2>2
  <2> HIDE DEF got
  <2> QED
    BY <1>1, <2>1, <2>2, <2>3, LenProperties DEF RingsInv, RingsTypes
<1>4. /\ started /\ p.end \in Nat
      /\ c # NoCursor => p.end = c + n
      /\ recorder # "serial" /\ lost = 0 /\ c = NoCursor => p.end = n
      /\ p.next = NoCursor => recorder # "serial" /\ p.end = produced - origin
      /\ p.next \in {p.end, NoCursor}
  BY <1>1 DEF Continues
<1>5. c # NoCursor => c = client.end /\ c \in Nat
  BY <1>3 DEF RingsInv, AtCursor, Clients
<1>6. /\ new \in Seq(Int) /\ Len(new) = m + n
      /\ \A i \in 1..m + n : new[i] = IF i <= m THEN got[i] ELSE g[i - m]
  <2>1. CASE c = NoCursor
    <3>1. got = <<>> /\ m = 0 /\ new = g
      BY <2>1
    <3> HIDE DEF got, new, m, n
    <3>2. g \in Seq(Int) /\ n \in Nat /\ n = Len(g)
      BY <1>1 DEF n
    <3> QED
      BY <3>1, <3>2
  <2>2. CASE c # NoCursor
    <3>1. got = client.got /\ new = client.got \o g
      BY <2>2
    <3> HIDE DEF got, new
    <3>2. got \in Seq(Int) /\ g \in Seq(Int) /\ new = got \o g
      BY <1>1, <1>3, <3>1
    <3> QED
      BY ONLY <3>2, ConcatProperties
  <2> QED
    BY <2>1, <2>2
<1> HIDE DEF new
<1>7. p.end # NoCursor
  BY <1>4, RingsAssumption
<1>8. RingsTypes'
  BY <1>1, <1>2, Zenon DEF RingsInv, RingsTypes, Clients
<1>9. Numbered' /\ Accounted'
  BY <1>2 DEF RingsInv, Numbered, Accounted, Lowest
\* What the client had got before, and up to where.
<1>10. m > 0 => c # NoCursor /\ got = client.got /\ m \in 1..m
  BY <1>3
<1>11. (client.run = run /\ m > 0) => got[m] = origin + c - 1
  <2>1. client.got # <<>> /\ client.run = run =>
          client.got[Len(client.got)] = origin + client.end - 1
    BY <1>4 DEF RingsInv, AtCursor, Current
  <2>2. client.got = <<>> => Len(client.got) = 0
    OBVIOUS
  <2> QED
    BY <1>5, <1>10, <2>1, <2>2
<1>12. client.run = run => \A i \in 1..m - 1 : got[i + 1] = got[i] + 1
  <2>1. client.run = run => \A i \in 1..Len(client.got) - 1 : client.got[i + 1] = client.got[i] + 1
    BY DEF RingsInv, PagesGapless
  <2>2. CASE c = NoCursor
    BY <2>2
  <2>3. CASE c # NoCursor
    BY <2>1, <2>3
  <2> QED
    BY <2>2, <2>3
<1>13. client.run = run /\ recorder # "serial" /\ lost = 0 =>
         /\ c # NoCursor => c = m
         /\ \A i \in 1..m : got[i] = origin + i - 1
  <2>1. CASE c = NoCursor
    BY <2>1
  <2>2. CASE c # NoCursor
    <3>1. got = client.got /\ c = client.end
      BY <1>5, <2>2
    <3> HIDE DEF got
    <3> QED
      BY <1>4, <2>2, <3>1 DEF RingsInv, AtCursor, Current
  <2> QED
    BY <2>1, <2>2
<1> HIDE DEF got, m, n
\* The new part.
<1>14. \A j \in 1..n : new[m + j] = origin + p.end - n + j - 1
  <2> SUFFICES ASSUME NEW j \in 1..n PROVE new[m + j] = origin + p.end - n + j - 1
    OBVIOUS
  <2>1. m + j \in 1..m + n /\ ~(m + j <= m) /\ (m + j) - m = j
    BY <1>3
  <2>2. new[m + j] = g[j]
    BY <1>6, <2>1
  <2> QED
    BY <1>1, <2>2 DEF n
<1>15. \A i \in 1..m : new[i] = got[i]
  BY <1>3, <1>6
<1>16. PagesGapless'
  <2> SUFFICES ASSUME client.run = run, NEW i \in 1..Len(new) - 1
               PROVE  new[i + 1] = new[i] + 1
    <3>1. client'.run = run' \/ recorder' = "video" => client.run = run
      BY <1>1, <1>2
    <3> QED
      BY <1>1, <3>1 DEF PagesGapless
  <2>1. i \in 1..m + n - 1 /\ i \in Int
    BY <1>3, <1>6
  <2>2. CASE i < m
    <3>1. i \in 1..m - 1 /\ i \in 1..m /\ i + 1 \in 1..m
      BY <1>3, <2>1, <2>2
    <3>2. got[i + 1] = got[i] + 1
      BY <1>12, <3>1
    <3> QED
      BY <1>15, <3>1, <3>2
  <2>3. CASE i = m
    <3>1. 1 \in 1..n /\ m > 0 /\ m \in 1..m
      BY <1>3, <2>1, <2>3
    <3>2. new[m + 1] = origin + p.end - n + 1 - 1
      BY <1>14, <3>1
    <3>3. new[m] = origin + c - 1 /\ c # NoCursor
      BY <1>10, <1>11, <1>15, <3>1
    <3>4. p.end = c + n /\ c \in Nat
      BY <1>4, <1>5, <3>3
    <3> QED
      BY <1>3, <1>4, <2>3, <3>2, <3>3, <3>4
  <2>4. CASE i > m
    <3>1. i - m \in 1..n /\ i + 1 - m \in 1..n /\ m + (i - m) = i /\ m + (i + 1 - m) = i + 1
      BY <1>3, <2>1, <2>4
    <3>2. new[i] = origin + p.end - n + (i - m) - 1
      BY <1>14, <3>1
    <3>3. new[i + 1] = origin + p.end - n + (i + 1 - m) - 1
      BY <1>14, <3>1
    <3> QED
      BY <1>3, <1>4, <2>1, <3>2, <3>3
  <2> QED
    BY <1>3, <2>1, <2>2, <2>3, <2>4
<1>17. ASSUME client.run = run, new # <<>> PROVE new[Len(new)] = origin + p.end - 1
  <2>1. CASE n = 0
    <3>1. m > 0 /\ Len(new) = m /\ m \in 1..m
      <4>1. Len(new) > 0
        BY <1>6, <1>17, EmptySeq
      <4> QED
        BY <1>3, <1>6, <2>1, <4>1
    <3>2. new[m] = origin + c - 1 /\ c # NoCursor
      BY <1>10, <1>11, <1>15, <1>17, <3>1
    <3>3. p.end = c
      BY <1>3, <1>4, <1>5, <2>1, <3>2
    <3> QED
      BY <3>1, <3>2, <3>3
  <2>2. CASE n # 0
    <3>1. n \in 1..n
      BY <1>3, <2>2
    <3>2. new[m + n] = origin + p.end - n + n - 1
      BY <1>14, <3>1
    <3>3. origin + p.end - n + n - 1 = origin + p.end - 1
      <4>1. p.end \in Nat /\ origin \in Nat /\ n \in Nat
        BY <1>3, <1>4, Zenon
      <4> QED
        BY ONLY <4>1
    <3> QED
      BY <1>6, <3>2, <3>3
  <2> QED
    BY <2>1, <2>2
<1>18. ASSUME client.run = run, recorder # "serial", lost = 0
       PROVE  p.end = Len(new) /\ \A i \in 1..Len(new) : new[i] = origin + i - 1
  <2>1. p.end = m + n
    <3>1. CASE c = NoCursor
      <4>1. m = 0
        BY <1>3, <1>10, <3>1
      <4> QED
        BY <1>3, <1>4, <1>18, <3>1, <4>1
    <3>2. CASE c # NoCursor
      BY <1>4, <1>13, <1>18, <3>2
    <3> QED
      BY <3>1, <3>2
  <2>2. \A i \in 1..m : new[i] = origin + i - 1
    BY <1>13, <1>15, <1>18
  <2>3. ASSUME NEW i \in 1..m + n PROVE new[i] = origin + i - 1
    <3>1. CASE i <= m
      <4>1. i \in 1..m
        BY <1>3, <3>1
      <4> QED
        BY <2>2, <4>1
    <3>2. CASE ~(i <= m)
      <4>1. i - m \in 1..n /\ m + (i - m) = i
        BY <1>3, <3>2
      <4>2. new[i] = origin + p.end - n + (i - m) - 1
        BY <1>14, <4>1
      <4> QED
        BY <1>3, <2>1, <4>2
    <3> QED
      BY <3>1, <3>2
  <2> QED
    BY <1>6, <2>1, <2>3
<1>19. AtCursor'
  <2>1. client'.run <= run' /\ client'.cursor \in {client'.end, NoCursor}
    BY <1>1, <1>2, <1>4 DEF RingsInv, AtCursor
  <2>2. Current' => client.run = run
    BY <1>1, <1>2 DEF Current
  <2>3. Current' /\ client'.got # <<>> =>
          /\ client'.end # NoCursor
          /\ client'.got[Len(client'.got)] = origin' + client'.end - 1
    BY <1>1, <1>2, <1>7, <1>17, <2>2
  <2>4. Current' /\ recorder' # "serial" /\ lost' = 0 =>
          /\ client'.end = NoCursor => client'.got = <<>>
          /\ client'.end # NoCursor =>
               /\ client'.end = Len(client'.got)
               /\ \A i \in 1..Len(client'.got) : client'.got[i] = origin' + i - 1
    BY <1>1, <1>2, <1>7, <1>18, <2>2
  <2>5. client'.upto # NoCursor => p.next = NoCursor /\ client'.upto = produced
    BY <1>1
  <2>6. client'.upto # NoCursor =>
          recorder' # "serial" /\ client'.end # NoCursor /\ client'.end = client'.upto - origin'
    BY <1>1, <1>2, <1>4, <1>7, <2>5, Zenon
  <2> QED
    BY <2>1, <2>3, <2>4, <2>6, Zenon DEF AtCursor
<1> QED
  BY <1>8, <1>9, <1>16, <1>19 DEF RingsInv

-----------------------------------------------------------------------------
(* Recording keeps the invariant. *)

\* One event more at the end, and d less at the beginning.
Recorded(d) ==
  /\ events' \in Seq(EventSet) /\ Len(events') = Len(events) + 1 - d
  /\ \A i \in 1..Len(events) - d : events'[i] = events[i + d]
  /\ events'[Len(events) + 1 - d] = [seq |-> nextSeq, content |-> produced]

LEMMA EventRecorded ==
  ASSUME RingsTypes
  PROVE  /\ events' = Append(events, Event) => Recorded(0)
         /\ events # <<>> /\ events' = Append(Tail(events), Event) => Recorded(1)
<1>1. events \in Seq(EventSet) /\ nextSeq \in Int /\ produced \in Int
  BY DEF RingsTypes
<1>2. Event \in EventSet /\ Event = [seq |-> nextSeq, content |-> produced]
  BY <1>1 DEF Event, EventSet
<1>3. Len(events) \in Nat
  BY <1>1, LenProperties
<1>4. ASSUME events' = Append(events, Event) PROVE Recorded(0)
  <2>1. /\ events' \in Seq(EventSet) /\ Len(events') = Len(events) + 1
        /\ \A i \in 1..Len(events) : events'[i] = events[i]
        /\ events'[Len(events) + 1] = Event
    BY <1>1, <1>2, <1>4, AppendProperties
  <2>2. Len(events) + 1 - 0 = Len(events) + 1 /\ Len(events) - 0 = Len(events)
        /\ \A i \in 1..Len(events) : i + 0 = i
    BY <1>3
  <2> QED
    BY <1>2, <2>1, <2>2 DEF Recorded
<1>5. ASSUME events # <<>>, events' = Append(Tail(events), Event) PROVE Recorded(1)
  <2> DEFINE t == Tail(events)
  <2>1. /\ t \in Seq(EventSet) /\ Len(t) = Len(events) - 1
        /\ \A i \in 1..Len(t) : t[i] = events[i + 1]
    BY <1>1, <1>5, HeadTailProperties
  <2>2. events' = Append(t, Event)
    BY <1>5
  <2> HIDE DEF t
  <2>3. /\ events' \in Seq(EventSet) /\ Len(events') = Len(t) + 1
        /\ \A i \in 1..Len(t) : events'[i] = t[i]
        /\ events'[Len(t) + 1] = Event
    BY <1>2, <2>1, <2>2, AppendProperties
  <2>4. Len(t) + 1 = Len(events) + 1 - 1
    BY <1>3, <2>1
  <2> QED
    BY <1>2, <2>1, <2>3, <2>4 DEF Recorded
<1> QED
  BY <1>4, <1>5

\* What an event is worth does not depend on the recorder: it is numbered, and
\* what it pushed out is counted, except by the serial port.
LEMMA ProduceKeeps ==
  ASSUME RingsInv, Produce, NEW d \in {0, 1}, d <= Len(events), Recorded(d),
         (lost' = lost + d) \/ (recorder = "serial" /\ lost' = lost),
         recorder = "trace" => d = 0,
         active' => active, recorder = "serial" => active' /\ size' = size,
         size' \in Nat, recorder # "trace" \/ active' => size' > 0,
         recorder # "trace" => Len(events) + 1 - d <= size'
  PROVE  RingsInv'
<1>1. /\ active /\ produced' = produced + 1 /\ nextSeq' = nextSeq + 1
      /\ UNCHANGED <<recorder, run, started, origin, client>>
  BY DEF Produce
<1>2. /\ Len(events) \in Nat /\ produced \in Nat /\ nextSeq \in Int /\ lost \in Nat
      /\ origin \in Nat /\ d \in Nat
  BY Consecutive DEF RingsInv, RingsTypes
<1>3. lost' \in Nat /\ (lost' = 0 => lost = 0)
  BY <1>2
<1>4. RingsTypes'
  BY <1>1, <1>2, <1>3 DEF RingsInv, RingsTypes, Recorded
<1>5. Len(events') = Len(events) + 1 - d
  BY DEF Recorded
<1>6. ASSUME NEW i \in 1..Len(events')
      PROVE  /\ events'[i].seq = nextSeq' - Len(events') + i - 1
             /\ events'[i].content = produced' - Len(events') + i - 1
  <2>1. CASE i = Len(events')
    <3>1. events'[i] = [seq |-> nextSeq, content |-> produced]
      BY <1>5, <2>1 DEF Recorded
    <3>2. events'[i].seq = nextSeq /\ events'[i].content = produced
      BY <3>1
    <3>3. nextSeq' - Len(events') + i - 1 = nextSeq /\ produced' - Len(events') + i - 1 = produced
      <4>1. Len(events') \in Int /\ i \in Int
        BY <1>2, <1>5
      <4> QED
        BY <1>1, <1>2, <2>1, <4>1
    <3> QED
      BY <3>2, <3>3
  <2>2. CASE i # Len(events')
    <3>1. i \in 1..Len(events) - d /\ i + d \in 1..Len(events)
      BY <1>2, <1>5, <2>2
    <3>2. events'[i] = events[i + d]
      BY <3>1 DEF Recorded
    <3>3. /\ events[i + d].seq = nextSeq - Len(events) + (i + d) - 1
          /\ events[i + d].content = produced - Len(events) + (i + d) - 1
      BY <3>1, Consecutive DEF RingsInv
    <3> QED
      BY <1>1, <1>2, <1>5, <3>1, <3>2, <3>3
  <2> QED
    BY <2>1, <2>2
<1>7. Numbered'
  <2>1. recorder' = recorder
    BY <1>1
  <2>2. recorder' # "trace" => Len(events') <= size'
    BY <1>5, <2>1
  <2> QED
    BY <1>6, <2>1, <2>2 DEF Numbered
<1>8. Accounted'
  <2>1. started /\ recorder' = recorder /\ started' = started /\ origin' = origin
    BY <1>1 DEF RingsInv, Accounted
  <2>2. /\ nextSeq = produced - origin + Lowest /\ Len(events) <= produced - origin
        /\ recorder # "serial" => Len(events) + lost = produced - origin
        /\ recorder = "trace" => lost = 0
    BY <2>1 DEF RingsInv, Accounted
  <2>3. Lowest' = Lowest /\ Lowest \in Int
    BY <2>1 DEF Lowest
  <2>4. nextSeq' = produced' - origin' + Lowest' /\ Len(events') <= produced' - origin'
    BY <1>1, <1>2, <1>5, <2>1, <2>2, <2>3
  <2>5. recorder # "serial" => Len(events') + lost' = produced' - origin'
    <3>1. ASSUME lost' = lost + d, Len(events) + lost = produced - origin
          PROVE  Len(events') + lost' = produced' - origin'
      BY <1>1, <1>2, <1>5, <2>1, <3>1
    <3>2. recorder # "serial" => lost' = lost + d
      OBVIOUS
    <3> QED
      BY <2>2, <3>1, <3>2
  <2>6. recorder = "trace" => lost' = 0
    BY <1>2, <2>2
  <2>7. recorder = "serial" => active' /\ origin = 0 /\ size' = MaxSize
    BY DEF RingsInv, Accounted
  <2> QED
    BY <2>1, <2>4, <2>5, <2>6, <2>7 DEF Accounted
<1>9. PagesGapless'
  BY <1>1 DEF RingsInv, PagesGapless
<1>10. AtCursor'
  <2>1. Current' = Current
    BY <1>1 DEF Current
  <2>2. client' = client /\ run' = run /\ origin' = origin /\ recorder' = recorder
    BY <1>1
  <2> QED
    BY <1>3, <2>1, <2>2 DEF RingsInv, AtCursor
<1> QED
  BY <1>4, <1>7, <1>8, <1>9, <1>10 DEF RingsInv

LEMMA CaptureTraceKeeps == RingsInv /\ CaptureTrace => RingsInv'
<1> SUFFICES ASSUME RingsInv, CaptureTrace PROVE RingsInv'
  OBVIOUS
<1>1. /\ recorder = "trace" /\ Produce /\ events' = Append(events, Event)
      /\ size' = size - 1 /\ active' = (size > 1) /\ lost' = lost
  BY DEF CaptureTrace
<1>2. Recorded(0) /\ Len(events) \in Nat /\ lost \in Nat /\ size \in Nat
  BY <1>1, EventRecorded, Consecutive DEF RingsInv, RingsTypes
<1>3. active /\ size > 0
  BY <1>1 DEF Produce, RingsInv, Numbered
<1>4. size' \in Nat /\ 0 <= Len(events) /\ lost' = lost + 0
  BY <1>1, <1>2, <1>3
<1>5. active' => size' > 0
  <2>1. active' => size > 1
    BY <1>1, Zenon
  <2>2. size > 1 => size' > 0
    BY <1>1, <1>2
  <2> QED
    BY <2>1, <2>2, Zenon
<1> QED
  BY <1>1, <1>2, <1>3, <1>4, <1>5, ProduceKeeps

\* The recorders that are full after size events.
LEMMA KeptKeeps ==
  ASSUME RingsInv, Produce, recorder # "trace", events' = Kept(size),
         UNCHANGED <<active, size>>,
         \/ recorder = "serial" /\ lost' = lost
         \/ lost' = (IF Len(events) < size THEN lost ELSE lost + 1)
  PROVE  RingsInv'
<1>1. /\ Len(events) \in Nat /\ lost \in Nat /\ size \in Nat /\ size > 0 /\ Len(events) <= size
      /\ active' = active /\ size' = size
      /\ recorder = "serial" => active
  BY Consecutive DEF RingsInv, RingsTypes, Numbered, Accounted
<1>2. CASE Len(events) < size
  <2>1. Recorded(0)
    BY <1>2, EventRecorded DEF RingsInv, Kept
  <2>2. 0 <= Len(events) /\ Len(events) + 1 - 0 <= size' /\ lost' = lost + 0
    BY <1>1, <1>2
  <2> QED
    BY <1>1, <2>1, <2>2, ProduceKeeps
<1>3. CASE ~(Len(events) < size)
  <2>1. events # <<>>
    <3>1. Len(events) # 0
      BY <1>1, <1>3
    <3> QED
      BY <3>1
  <2>2. Recorded(1)
    BY <1>3, <2>1, EventRecorded DEF RingsInv, Kept
  <2>3. 1 <= Len(events) /\ Len(events) + 1 - 1 <= size'
    BY <1>1, <1>3
  <2>4. (lost' = lost + 1) \/ (recorder = "serial" /\ lost' = lost)
    BY <1>3
  <2> QED
    BY <1>1, <2>2, <2>3, <2>4, ProduceKeeps
<1> QED
  BY <1>2, <1>3

LEMMA BeginKeeps ==
  ASSUME RingsInv, NEW n \in 1..MaxSize, StartTrace(n) \/ StartHardware(n) \/ StartVideo(n)
  PROVE  RingsInv'
<1>1. /\ recorder # "serial" /\ Begin(n, Lowest)
  BY DEF StartTrace, StartHardware, StartVideo, Lowest
<1>2. /\ run' = run + 1 /\ started' = TRUE /\ active' = TRUE
      /\ size' = n /\ nextSeq' = Lowest /\ events' = <<>> /\ lost' = 0
      /\ origin' = produced /\ UNCHANGED <<recorder, produced, client>>
  BY <1>1 DEF Begin
<1>3. /\ run \in Nat /\ produced \in Nat /\ n \in Nat /\ n > 0 /\ Lowest \in Int
      /\ client.run \in Nat /\ client.run <= run /\ client.cursor \in {client.end, NoCursor}
  BY RingsAssumption DEF RingsInv, RingsTypes, Clients, Lowest, AtCursor
<1>4. events' \in Seq(EventSet) /\ Len(events') = 0
  BY <1>2
<1>5. RingsTypes'
  BY <1>2, <1>3, <1>4 DEF RingsInv, RingsTypes
<1>6. Numbered'
  BY <1>2, <1>3, <1>4 DEF Numbered
<1>7. Accounted'
  <2>1. Lowest' = Lowest
    BY <1>2 DEF Lowest
  <2> QED
    BY <1>1, <1>2, <1>3, <1>4, <2>1 DEF Accounted
<1>8. client'.run # run' /\ client'.run <= run'
  BY <1>2, <1>3
<1>9. PagesGapless'
  BY <1>2, <1>8 DEF RingsInv, PagesGapless
<1>10. AtCursor'
  BY <1>2, <1>3, <1>8 DEF AtCursor, Current
<1> QED
  BY <1>5, <1>6, <1>7, <1>9, <1>10 DEF RingsInv

LEMMA StopKeeps == RingsInv /\ Stop => RingsInv'
<1> SUFFICES ASSUME RingsInv, Stop PROVE RingsInv'
  OBVIOUS
<1>1. /\ recorder # "serial" /\ active' = FALSE
      /\ UNCHANGED <<recorder, run, started, size, nextSeq, events, lost, produced, origin, client>>
  BY DEF Stop
<1>2. RingsTypes' /\ Numbered' /\ PagesGapless'
  BY <1>1 DEF RingsInv, RingsTypes, Numbered, PagesGapless
<1>3. Accounted'
  BY <1>1 DEF RingsInv, Accounted, Lowest
<1>4. AtCursor'
  BY <1>1 DEF RingsInv, AtCursor, Current
<1> QED
  BY <1>2, <1>3, <1>4 DEF RingsInv

LEMMA ImportKeeps == RingsInv /\ Import => RingsInv'
<1> SUFFICES ASSUME RingsInv, Import PROVE RingsInv'
  OBVIOUS
<1>1. /\ recorder # "serial" /\ started' = FALSE /\ active' = FALSE
      /\ events' = <<>> /\ lost' = 0
      /\ nextSeq' = (IF recorder = "video" THEN nextSeq ELSE 0)
      /\ UNCHANGED <<recorder, run, size, produced, origin, client>>
  BY DEF Import
<1>2. events' \in Seq(EventSet) /\ Len(events') = 0 /\ nextSeq' \in Int
  BY <1>1 DEF RingsInv, RingsTypes
<1>3. RingsTypes' /\ PagesGapless'
  BY <1>1, <1>2 DEF RingsInv, RingsTypes, PagesGapless
<1>4. Numbered'
  <2>1. recorder # "trace" => size > 0 /\ size \in Nat
    BY DEF RingsInv, Numbered, RingsTypes
  <2> QED
    BY <1>1, <1>2, <2>1 DEF Numbered
<1>5. Accounted'
  BY <1>1 DEF Accounted
<1>6. AtCursor'
  BY <1>1 DEF RingsInv, AtCursor, Current
<1> QED
  BY <1>3, <1>4, <1>5, <1>6 DEF RingsInv

\* The serial port of a snapshot: other output, numbered alike.
LEMMA ImportSerialKeeps ==
  ASSUME RingsInv, NEW sent \in Nat, NEW kept \in 0..MaxSize, ImportSerial(sent, kept)
  PROVE  RingsInv'
<1> DEFINE e == [i \in 1..kept |-> [seq |-> sent - kept + i - 1, content |-> sent - kept + i - 1]]
<1>1. /\ recorder = "serial" /\ kept <= sent /\ run' = run + 1
      /\ nextSeq' = sent /\ produced' = sent /\ events' = e
      /\ UNCHANGED <<recorder, started, active, size, lost, origin, client>>
  BY DEF ImportSerial
<1>2. kept \in Nat /\ sent \in Nat /\ kept <= MaxSize /\ MaxSize \in Nat
  BY RingsAssumption
<1>3. /\ events' \in Seq(EventSet) /\ Len(events') = kept
      /\ \A i \in 1..kept : /\ events'[i].seq = sent - kept + i - 1
                            /\ events'[i].content = sent - kept + i - 1
  <2>1. e \in [1..kept -> EventSet]
    BY <1>2 DEF EventSet
  <2>2. e \in Seq(EventSet) /\ Len(e) = kept
    <3> HIDE DEF e
    <3>1. e \in Seq(EventSet) /\ DOMAIN e = 1..kept
      BY <1>2, <2>1
    <3> QED
      BY <1>2, <3>1, LenProperties
  <2>3. \A i \in 1..kept : e[i].seq = sent - kept + i - 1 /\ e[i].content = sent - kept + i - 1
    OBVIOUS
  <2> HIDE DEF e
  <2> QED
    BY <1>1, <2>2, <2>3
<1> HIDE DEF e
<1>4. run \in Nat /\ client.run <= run /\ client.run \in Nat /\ client'.run # run'
  BY <1>1 DEF RingsInv, RingsTypes, Clients, AtCursor
<1>5. RingsTypes'
  BY <1>1, <1>2, <1>3, <1>4 DEF RingsInv, RingsTypes
<1>6. size = MaxSize /\ origin = 0 /\ started /\ active
  BY <1>1 DEF RingsInv, Accounted
<1>7. Numbered'
  BY <1>1, <1>2, <1>3, <1>6 DEF RingsInv, Numbered
<1>8. Accounted'
  <2>1. Lowest' = 0
    BY <1>1 DEF Lowest
  <2> QED
    BY <1>1, <1>2, <1>3, <1>6, <2>1 DEF Accounted
<1>9. PagesGapless'
  BY <1>1, <1>4 DEF PagesGapless
<1>10. AtCursor'
  BY <1>1, <1>4 DEF RingsInv, AtCursor, Current
<1> QED
  BY <1>5, <1>7, <1>8, <1>9, <1>10 DEF RingsInv

LEMMA FollowKeeps == RingsInv /\ Follow => RingsInv'
<1> SUFFICES ASSUME RingsInv, Follow PROVE RingsInv'
  OBVIOUS
<1> DEFINE start == IF recorder = "serial" THEN nextSeq - Len(events) ELSE NoCursor
<1>1. /\ client' = [Newcomer EXCEPT !.run = run, !.cursor = start, !.end = start]
      /\ UNCHANGED <<recorder, run, started, active, size, nextSeq, events, lost, produced, origin>>
      /\ started
  BY DEF Follow
<1>2. start \in Nat \cup {NoCursor} /\ (recorder # "serial" => start = NoCursor) /\ run \in Nat
  <2>1. CASE recorder = "serial"
    <3>1. nextSeq = produced - origin + Lowest /\ Len(events) <= produced - origin
      BY <1>1 DEF RingsInv, Accounted
    <3>2. Lowest = 0
      BY <2>1 DEF Lowest
    <3>3. produced \in Nat /\ origin \in Nat /\ nextSeq \in Int /\ Len(events) \in Nat /\ run \in Nat
      BY Consecutive DEF RingsInv, RingsTypes
    <3> QED
      BY <2>1, <3>1, <3>2, <3>3
  <2>2. CASE recorder # "serial"
    BY <2>2 DEF RingsInv, RingsTypes
  <2> QED
    BY <2>1, <2>2
<1> HIDE DEF start
<1>3. client' = [run |-> run, cursor |-> start, end |-> start, got |-> <<>>, upto |-> NoCursor]
  BY <1>1 DEF Newcomer
<1>4. /\ client'.run = run /\ client'.cursor = start /\ client'.end = start
      /\ client'.got = <<>> /\ client'.upto = NoCursor
  BY <1>3
<1>5. client' \in Clients
  BY <1>2, <1>3 DEF Clients
<1>6. RingsTypes'
  BY <1>1, <1>5 DEF RingsInv, RingsTypes
<1>7. Numbered' /\ Accounted'
  BY <1>1 DEF RingsInv, Numbered, Accounted, Lowest
<1>8. PagesGapless'
  <2>1. Len(client'.got) = 0
    BY <1>4
  <2> QED
    BY <2>1 DEF PagesGapless
<1>9. AtCursor'
  <2>1. client'.run <= run'
    BY <1>1, <1>2, <1>4
  <2> QED
    BY <1>1, <1>2, <1>4, <2>1 DEF AtCursor
<1> QED
  BY <1>6, <1>7, <1>8, <1>9 DEF RingsInv

-----------------------------------------------------------------------------
LEMMA RingsInvInit == RingsInit => RingsInv
<1> SUFFICES ASSUME RingsInit PROVE RingsInv
  OBVIOUS
<1>1. /\ recorder \in {"trace", "hardware", "video", "serial"}
      /\ run = (IF recorder = "serial" THEN 1 ELSE 0)
      /\ started = (recorder = "serial") /\ active = (recorder = "serial")
      /\ size = MaxSize /\ nextSeq = 0 /\ events = <<>> /\ lost = 0
      /\ produced = 0 /\ origin = 0 /\ client = Newcomer
  BY RingsAssumption DEF RingsInit
<1>2. /\ client = [run |-> 0, cursor |-> NoCursor, end |-> NoCursor, got |-> <<>>,
                    upto |-> NoCursor]
      /\ client.run = 0 /\ client.got = <<>> /\ client.upto = NoCursor /\ Len(client.got) = 0
      /\ client.cursor = NoCursor /\ client.end = NoCursor /\ client \in Clients
  BY <1>1 DEF Newcomer, Clients
<1>3. events \in Seq(EventSet) /\ Len(events) = 0 /\ size \in Nat /\ size > 0
  BY <1>1, RingsAssumption
<1>4. RingsTypes
  BY <1>1, <1>2, <1>3 DEF RingsTypes
<1>5. Numbered
  BY <1>3 DEF Numbered
<1>6. Accounted
  <2>1. CASE recorder = "serial"
    <3>1. started /\ active
      BY <1>1, <2>1, Zenon
    <3>2. Lowest = 0
      BY <2>1 DEF Lowest
    <3> QED
      BY <1>1, <1>3, <2>1, <3>1, <3>2 DEF Accounted
  <2>2. CASE recorder # "serial"
    <3>1. ~started /\ ~active
      BY <1>1, <2>2, Zenon
    <3> QED
      BY <1>1, <2>2, <3>1 DEF Accounted
  <2> QED
    BY <2>1, <2>2
<1>7. PagesGapless
  BY <1>2 DEF PagesGapless
<1>8. AtCursor
  BY <1>1, <1>2 DEF AtCursor
<1> QED
  BY <1>4, <1>5, <1>6, <1>7, <1>8 DEF RingsInv

LEMMA RingsInvNext == RingsInv /\ [RingsNext]_ringVars => RingsInv'
<1> SUFFICES ASSUME RingsInv, [RingsNext]_ringVars PROVE RingsInv'
  OBVIOUS
<1>1. ASSUME NEW n \in 1..MaxSize, StartTrace(n) \/ StartHardware(n) \/ StartVideo(n)
      PROVE  RingsInv'
  BY <1>1, BeginKeeps
<1>2. CASE CaptureTrace
  BY <1>2, CaptureTraceKeeps
<1>3. CASE CaptureHardware
  BY <1>3, KeptKeeps DEF CaptureHardware
<1>4. CASE AppendVideo
  <2>1. /\ recorder = "video" /\ Produce /\ events' = Kept(size) /\ UNCHANGED <<active, size>>
        /\ lost' = IF Len(events) = size THEN lost + 1 ELSE lost
    BY <1>4 DEF AppendVideo
  <2>2. Len(events) \in Nat /\ size \in Nat /\ Len(events) <= size
    BY <2>1, Consecutive DEF RingsInv, RingsTypes, Numbered
  <2>3. lost' = IF Len(events) < size THEN lost ELSE lost + 1
    BY <2>1, <2>2
  <2> QED
    BY <2>1, <2>3, KeptKeeps
<1>5. CASE Transmit
  BY <1>5, KeptKeeps DEF Transmit
<1>6. CASE Stop
  BY <1>6, StopKeeps
<1>7. CASE Import
  BY <1>7, ImportKeeps
<1>8. CASE Follow
  BY <1>8, FollowKeeps
<1>9. ASSUME NEW c \in {client.cursor, client.end}, NEW limit \in Limits, Read(c, limit)
      PROVE  RingsInv'
  BY <1>9, ReadKeeps
<1>10. CASE UNCHANGED ringVars
  BY <1>10 DEF ringVars, RingsInv, RingsTypes, Numbered, Accounted, PagesGapless, AtCursor,
               Current, Lowest
<1>11. ASSUME NEW sent \in 0..MaxEvents, NEW kept \in 0..MaxSize, ImportSerial(sent, kept)
       PROVE  RingsInv'
  <2>1. sent \in Nat
    OBVIOUS
  <2> QED
    BY <1>11, <2>1, ImportSerialKeeps
<1> QED
  BY <1>1, <1>2, <1>3, <1>4, <1>5, <1>6, <1>7, <1>8, <1>9, <1>10, <1>11 DEF RingsNext

\* A client that follows a recording gets a gapless run of its events from each
\* null cursor on, whatever the recorder overwrites between two pages, whether it
\* goes on with the cursor it was given or with the sequence it got to; and when
\* it is told that there is no more, it has the last event and, if nothing was
\* lost, all of them (debughardware.py:141-151, videohistory.py:96-124), for any
\* capacity, limits and number of recordings and imports.
THEOREM PagesStayWhole == RingsSpec => []PagesWhole
<1>1. RingsInv => PagesWhole
  <2> SUFFICES ASSUME RingsInv PROVE PagesWhole
    OBVIOUS
  <2>1. PagesGapless
    BY DEF RingsInv
  <2>2. ASSUME client.upto # NoCursor, client.run = run, started
        PROVE  /\ client.got # <<>> => Last(client.got) = client.upto - 1
               /\ lost = 0 => client.got = [i \in 1..client.upto - origin |-> origin + i - 1]
    <3>1. /\ Current /\ recorder # "serial" /\ client.end # NoCursor
          /\ client.end = client.upto - origin
      BY <2>2 DEF RingsInv, AtCursor, Current
    <3>2. client.got \in Seq(Int) /\ client.upto \in Nat /\ origin \in Nat
      BY <2>2 DEF RingsInv, RingsTypes, Clients
    <3>3. client.got # <<>> => Last(client.got) = client.upto - 1
      <4>1. client.got # <<>> => client.got[Len(client.got)] = origin + client.end - 1
        BY <3>1 DEF RingsInv, AtCursor
      <4> QED
        BY <3>1, <3>2, <4>1 DEF Last
    <3>4. ASSUME lost = 0
          PROVE  client.got = [i \in 1..client.upto - origin |-> origin + i - 1]
      <4>1. /\ client.end = Len(client.got)
            /\ \A i \in 1..Len(client.got) : client.got[i] = origin + i - 1
        BY <3>1, <3>4 DEF RingsInv, AtCursor
      <4>2. client.got = [i \in 1..Len(client.got) |-> client.got[i]]
        BY <3>2, LenProperties
      <4> QED
        BY <3>1, <4>1, <4>2
    <3> QED
      BY <3>3, <3>4
  <2>3. CompleteUnlessLost
    BY <2>2 DEF CompleteUnlessLost
  <2> QED
    BY <2>1, <2>3 DEF PagesWhole
<1> QED
  BY <1>1, RingsInvInit, RingsInvNext, PTL DEF RingsSpec
=============================================================================
