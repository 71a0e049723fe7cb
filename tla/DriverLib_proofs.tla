--------------------------- MODULE DriverLib_proofs ---------------------------
(***************************************************************************)
(* Proofs about the pure helpers: the CRC loops of DriverLib.c compute the *)
(* remainder of the SD specification for blocks of any length, which kinds *)
(* of errors they tell, and the types of what the CSD parsers return.      *)
(*                                                                         *)
(* What a recursive function is at each argument follows by induction, and *)
(* induction over the numbers from the pigeonhole principle for finite     *)
(* sets: a set that has 0 and all successors but misses a number would map *)
(* its initial part into itself less 0, one to one.                        *)
(***************************************************************************)
EXTENDS DriverLib, TLAPS, FiniteSetTheorems

Bit == {0, 1}

-----------------------------------------------------------------------------
(* Induction without a schema                                              *)

LEMMA Induction ==
  ASSUME NEW S \in SUBSET Nat, 0 \in S, \A n \in S : n + 1 \in S
  PROVE  S = Nat
<1> SUFFICES ASSUME NEW m \in Nat, m \notin S PROVE FALSE
  OBVIOUS
<1> DEFINE T == {n \in S : n <= m}
           next == [n \in T |-> n + 1]
<1>1. IsFiniteSet(T) /\ 0 \in T
  BY FS_BoundedSetOfNaturals
<1>2. next \in [T -> T \ {0}]
  <2> SUFFICES ASSUME NEW n \in T PROVE n + 1 \in T \ {0}
    OBVIOUS
  <2>1. n + 1 \in S /\ n # m /\ n \in Nat
    OBVIOUS
  <2> QED
    BY <2>1
<1>3. \A x, y \in T : x # y => next[x] # next[y]
  OBVIOUS
<1> HIDE DEF T, next
<1>4. IsFiniteSet(T \ {0}) /\ Cardinality(T \ {0}) = Cardinality(T) - 1
        /\ Cardinality(T) \in Nat
  BY <1>1, FS_RemoveElement, FS_CardinalityType
<1> QED
  BY <1>1, <1>2, <1>3, <1>4, FS_PigeonHole

LEMMA UpTo ==
  ASSUME NEW N \in Nat, NEW S, 0 \in S, \A n \in 0 .. N - 1 : n \in S => n + 1 \in S
  PROVE  0 .. N \subseteq S
<1> DEFINE T == {n \in Nat : n <= N => n \in S}
<1>1. T = Nat
  <2>1. 0 \in T
    OBVIOUS
  <2>2. ASSUME NEW n \in T PROVE n + 1 \in T
    OBVIOUS
  <2> HIDE DEF T
  <2>3. T \in SUBSET Nat
    BY DEF T
  <2> QED
    BY <2>1, <2>2, <2>3, Induction
<1> QED
  BY <1>1

\* Some sequence of V begins with a and goes on by "step".
Unwinds(N, V, a, step) ==
  \E g \in [0 .. N -> V] :
    g[0] = a /\ \A n \in 1 .. N : g[n] = step[<<n, g[n - 1]>>]

LEMMA Recursion ==
  ASSUME NEW N \in Nat, NEW V, NEW a \in V, NEW step \in [(1 .. N) \X V -> V]
  PROVE  Unwinds(N, V, a, step)
<1> DEFINE Upto(m, g) == g[0] = a /\ \A n \in 1 .. m : g[n] = step[<<n, g[n - 1]>>]
           S == {m \in 0 .. N : \E g \in [0 .. m -> V] : Upto(m, g)}
<1>1. 0 \in S
  <2> DEFINE g == [n \in 0 .. 0 |-> a]
  <2>1. g \in [0 .. 0 -> V] /\ Upto(0, g) /\ 0 \in 0 .. N
    OBVIOUS
  <2> HIDE DEF g, Upto
  <2> QED
    BY <2>1
<1>2. ASSUME NEW m \in 0 .. N - 1, m \in S PROVE m + 1 \in S
  <2>1. PICK g \in [0 .. m -> V] : Upto(m, g)
    BY <1>2
  <2> DEFINE h == [n \in 0 .. m + 1 |-> IF n <= m THEN g[n] ELSE step[<<m + 1, g[m]>>]]
  <2>2. h \in [0 .. m + 1 -> V]
    <3>1. <<m + 1, g[m]>> \in (1 .. N) \X V
      OBVIOUS
    <3> QED
      BY <3>1
  <2>3. Upto(m + 1, h)
    <3>1. h[0] = a
      BY <2>1
    <3>2. ASSUME NEW n \in 1 .. m + 1 PROVE h[n] = step[<<n, h[n - 1]>>]
      <4>1. CASE n = m + 1
        BY <4>1
      <4>2. CASE n <= m
        <5>1. h[n] = g[n] /\ h[n - 1] = g[n - 1]
          BY <4>2
        <5> QED
          BY <2>1, <4>2, <5>1
      <4> QED
        BY <4>1, <4>2
    <3> QED
      BY <3>1, <3>2
  <2> HIDE DEF h, Upto
  <2> QED
    BY <2>2, <2>3
<1> HIDE DEF S
<1>3. 0 .. N \subseteq S
  BY <1>1, <1>2, UpTo
<1> QED
  BY <1>3 DEF S, Unwinds

-----------------------------------------------------------------------------
(* The registers of a CRC                                                  *)

Registers(k) == [1 .. k -> Bit]

Zero(k) == [i \in 1 .. k |-> 0]

LEMMA ShiftedLeft ==
  ASSUME NEW k \in Nat \ {0}, NEW r \in Registers(k)
  PROVE  /\ r \in Seq(Bit) /\ Len(r) = k
         /\ Tail(r) \o <<0>> = [i \in 1 .. k |-> IF i = k THEN 0 ELSE r[i + 1]]
         /\ Tail(r) \o <<0>> \in Registers(k)
         /\ Head(r) = r[1]
<1>1. r \in Seq(Bit) /\ Len(r) = k
  BY DEF Registers
<1>2. Tail(r) \in Seq(Bit) /\ Len(Tail(r)) = k - 1 /\ \A i \in 1 .. k - 1 : Tail(r)[i] = r[i + 1]
  BY <1>1
<1>3. Head(r) = r[1]
  BY <1>1
<1> DEFINE s == Tail(r) \o <<0>>
<1>4. s \in Seq(Bit) /\ Len(s) = k
  BY <1>2 DEF Bit
<1>5. \A i \in 1 .. k : s[i] = IF i = k THEN 0 ELSE r[i + 1]
  BY <1>2
<1>6. s = [i \in 1 .. k |-> s[i]]
  BY <1>4
<1> HIDE DEF s
<1>7. s = [i \in 1 .. k |-> IF i = k THEN 0 ELSE r[i + 1]]
  BY <1>5, <1>6
<1>8. s \in Registers(k)
  BY <1>4, <1>6 DEF Registers
<1> QED
  BY <1>1, <1>3, <1>7, <1>8 DEF s

LEMMA Xored ==
  ASSUME NEW k \in Nat, NEW a \in Registers(k), NEW b \in Registers(k)
  PROVE  /\ XorBits(a, b) = [i \in 1 .. k |-> IF a[i] = b[i] THEN 0 ELSE 1]
         /\ XorBits(a, b) \in Registers(k)
<1>1. DOMAIN a = 1 .. k
  BY DEF Registers
<1>2. \A i \in 1 .. k : (a[i] + b[i]) % 2 = IF a[i] = b[i] THEN 0 ELSE 1
  BY DEF Registers, Bit
<1> QED
  BY <1>1, <1>2 DEF XorBits, Registers, Bit

LEMMA SameBits ==
  ASSUME NEW k \in Nat, NEW a \in Registers(k), NEW b \in Registers(k),
         \A i \in 1 .. k : a[i] = b[i]
  PROVE  a = b
  BY DEF Registers

\* One step of the division, bit by bit.
Divided(r, bit, gen, i) ==
  LET next == IF i = Len(gen) THEN 0 ELSE r[i + 1]
  IN IF r[1] = bit THEN next ELSE IF next = gen[i] THEN 0 ELSE 1

LEMMA DivideBits ==
  ASSUME NEW k \in Nat \ {0}, NEW gen \in Registers(k), NEW r \in Registers(k), NEW bit \in Bit
  PROVE  /\ Divide(r, bit, gen) \in Registers(k)
         /\ \A i \in 1 .. k : Divide(r, bit, gen)[i] = Divided(r, bit, gen, i)
<1> DEFINE next == Tail(r) \o <<0>>
<1>1. next = [i \in 1 .. k |-> IF i = k THEN 0 ELSE r[i + 1]] /\ next \in Registers(k) /\ Head(r) = r[1]
  BY ShiftedLeft
<1>2. Len(gen) = k
  BY ShiftedLeft
<1> HIDE DEF next
<1>3. XorBits(next, gen) = [i \in 1 .. k |-> IF next[i] = gen[i] THEN 0 ELSE 1]
        /\ XorBits(next, gen) \in Registers(k)
  BY <1>1, Xored
<1>4. Divide(r, bit, gen) = IF r[1] # bit THEN XorBits(next, gen) ELSE next
  BY <1>1 DEF Divide, next
<1> QED
  BY <1>1, <1>2, <1>3, <1>4 DEF Divided

-----------------------------------------------------------------------------
(* Recursion over the bits                                                 *)

LEMMA RemaindersUnfold ==
  ASSUME NEW k \in Nat \ {0}, NEW gen \in Registers(k), NEW L \in Nat, NEW bits \in Registers(L)
  PROVE  LET r == Remainders(gen, bits)
         IN  /\ r \in [0 .. L -> Registers(k)]
             /\ r[0] = Zero(k)
             /\ \A n \in 1 .. L : r[n] = Divide(r[n - 1], bits[n], gen)
<1>1. Len(bits) = L /\ DOMAIN gen = 1 .. k
  BY DEF Registers
<1> DEFINE body(g) == [n \in 0 .. Len(bits) |->
                         IF n = 0 THEN [i \in DOMAIN gen |-> 0] ELSE Divide(g[n - 1], bits[n], gen)]
           r == CHOOSE g : g = body(g)
           step == [x \in (1 .. L) \X Registers(k) |-> Divide(x[2], bits[x[1]], gen)]
<1>2. Remainders(gen, bits) = r
  BY Zenon DEF Remainders
<1>3. step \in [(1 .. L) \X Registers(k) -> Registers(k)]
  <2>1. ASSUME NEW x \in (1 .. L) \X Registers(k) PROVE Divide(x[2], bits[x[1]], gen) \in Registers(k)
    <3>1. x[2] \in Registers(k) /\ bits[x[1]] \in Bit
      BY DEF Registers
    <3> QED
      BY <3>1, DivideBits
  <2> QED
    BY <2>1
<1>4. Zero(k) \in Registers(k)
  BY DEF Zero, Registers, Bit
<1> HIDE DEF step
<1>5. PICK g \in [0 .. L -> Registers(k)] :
        g[0] = Zero(k) /\ \A n \in 1 .. L : g[n] = step[<<n, g[n - 1]>>]
  <2> DEFINE V == Registers(k)
  <2>1. step \in [(1 .. L) \X V -> V] /\ Zero(k) \in V
    BY <1>3, <1>4
  <2> HIDE DEF V
  <2>2. Unwinds(L, V, Zero(k), step)
    BY <2>1, Recursion
  <2> QED
    BY <2>2 DEF V, Unwinds
<1>6. \A n \in 1 .. L : g[n] = Divide(g[n - 1], bits[n], gen)
  <2> SUFFICES ASSUME NEW n \in 1 .. L PROVE g[n] = Divide(g[n - 1], bits[n], gen)
    OBVIOUS
  <2>1. <<n, g[n - 1]>> \in (1 .. L) \X Registers(k)
    OBVIOUS
  <2>2. step[<<n, g[n - 1]>>] = Divide(g[n - 1], bits[n], gen)
    BY <2>1 DEF step
  <2> QED
    BY <1>5, <2>2
<1>7. g = body(g)
  <2>1. g = [n \in 0 .. L |-> g[n]]
    OBVIOUS
  <2>2. ASSUME NEW n \in 0 .. L
        PROVE  g[n] = IF n = 0 THEN [i \in DOMAIN gen |-> 0] ELSE Divide(g[n - 1], bits[n], gen)
    BY <1>1, <1>5, <1>6 DEF Zero
  <2> QED
    BY <1>1, <2>1, <2>2, Zenon
<1>8. r = body(r)
  BY <1>7, Zenon
<1> HIDE DEF r
<1>9. r[0] = Zero(k)
  BY <1>1, <1>8 DEF Zero
<1>10. \A n \in 1 .. L : r[n] = Divide(r[n - 1], bits[n], gen)
  BY <1>1, <1>8
<1>11. \A n \in 0 .. L : r[n] \in Registers(k)
  <2> DEFINE S == {n \in 0 .. L : r[n] \in Registers(k)}
  <2>1. 0 \in S
    BY <1>4, <1>9
  <2>2. ASSUME NEW n \in 0 .. L - 1, n \in S PROVE n + 1 \in S
    <3>1. r[n + 1] = Divide(r[n], bits[n + 1], gen) /\ bits[n + 1] \in Bit
      BY <1>10 DEF Registers
    <3>2. r[n] \in Registers(k)
      BY <2>2
    <3>3. Divide(r[n], bits[n + 1], gen) \in Registers(k)
      BY <3>1, <3>2, DivideBits
    <3> QED
      BY <3>1, <3>3
  <2> HIDE DEF S
  <2>3. 0 .. L \subseteq S
    BY <2>1, <2>2, UpTo
  <2> QED
    BY <2>3 DEF S
<1>12. r = [n \in 0 .. L |-> r[n]]
  BY <1>1, <1>8
<1> QED
  BY <1>2, <1>9, <1>10, <1>11, <1>12

LEMMA AddByteBits ==
  ASSUME NEW k \in Nat, k >= 8, NEW L \in Nat, L % 8 = 0, NEW bits \in Registers(L),
         NEW n \in 1 .. L, NEW r \in Registers(k)
  PROVE  /\ AddByte(r, bits, n) \in Registers(k)
         /\ \A i \in 1 .. k : AddByte(r, bits, n)[i] =
              IF n % 8 = 1 /\ i <= 8 THEN IF r[i] = bits[n - 1 + i] THEN 0 ELSE 1
              ELSE r[i]
<1>1. DOMAIN r = 1 .. k
  BY DEF Registers
<1>2. AddByte(r, bits, n) =
        [i \in 1 .. k |-> IF n % 8 = 1 /\ i <= 8 THEN (r[i] + bits[n - 1 + i]) % 2 ELSE r[i]]
  BY <1>1 DEF AddByte
<1>3. ASSUME NEW i \in 1 .. k
      PROVE  /\ AddByte(r, bits, n)[i] \in Bit
             /\ AddByte(r, bits, n)[i] =
                  IF n % 8 = 1 /\ i <= 8 THEN IF r[i] = bits[n - 1 + i] THEN 0 ELSE 1
                  ELSE r[i]
  <2>1. r[i] \in Bit
    BY DEF Registers
  <2>2. CASE n % 8 = 1 /\ i <= 8
    <3>1. n - 1 + i \in 1 .. L
      BY <2>2
    <3>2. bits[n - 1 + i] \in Bit
      BY <3>1 DEF Registers
    <3>3. AddByte(r, bits, n)[i] = (r[i] + bits[n - 1 + i]) % 2
      BY <1>2, <2>2
    <3> QED
      BY <2>1, <2>2, <3>2, <3>3 DEF Bit
  <2>3. CASE ~(n % 8 = 1 /\ i <= 8)
    BY <1>2, <2>1, <2>3
  <2> QED
    BY <2>2, <2>3
<1>4. AddByte(r, bits, n) = [i \in 1 .. k |-> AddByte(r, bits, n)[i]]
  BY <1>2
<1> QED
  BY <1>3, <1>4 DEF Registers

LEMMA CrcShiftBits ==
  ASSUME NEW k \in Nat \ {0}, NEW poly \in Registers(k), NEW r \in Registers(k)
  PROVE  /\ CrcShift(r, poly) \in Registers(k)
         /\ \A i \in 1 .. k : CrcShift(r, poly)[i] = Divided(r, 0, poly, i)
<1> DEFINE next == Tail(r) \o <<0>>
<1>1. next = [i \in 1 .. k |-> IF i = k THEN 0 ELSE r[i + 1]] /\ next \in Registers(k)
        /\ Head(r) = r[1] /\ r[1] \in Bit
  BY ShiftedLeft DEF Registers
<1>2. Len(poly) = k
  BY ShiftedLeft
<1> HIDE DEF next
<1>3. XorBits(next, poly) = [i \in 1 .. k |-> IF next[i] = poly[i] THEN 0 ELSE 1]
        /\ XorBits(next, poly) \in Registers(k)
  BY <1>1, Xored
<1>4. CrcShift(r, poly) = IF r[1] = 1 THEN XorBits(next, poly) ELSE next
  BY <1>1 DEF CrcShift, next
<1> QED
  BY <1>1, <1>2, <1>3, <1>4 DEF Divided, Bit

LEMMA CrcRegistersUnfold ==
  ASSUME NEW k \in Nat, k >= 8, NEW poly \in Registers(k),
         NEW L \in Nat, L % 8 = 0, NEW bits \in Registers(L)
  PROVE  LET r == CrcRegisters(poly, bits)
         IN  /\ r \in [0 .. L -> Registers(k)]
             /\ r[0] = Zero(k)
             /\ \A n \in 1 .. L : r[n] = CrcShift(AddByte(r[n - 1], bits, n), poly)
<1>1. Len(bits) = L /\ DOMAIN poly = 1 .. k
  BY DEF Registers
<1> DEFINE body(g) == [n \in 0 .. Len(bits) |->
                         IF n = 0 THEN [i \in DOMAIN poly |-> 0]
                         ELSE CrcShift(AddByte(g[n - 1], bits, n), poly)]
           r == CHOOSE g : g = body(g)
           V == Registers(k)
           step == [x \in (1 .. L) \X V |-> CrcShift(AddByte(x[2], bits, x[1]), poly)]
<1>2. CrcRegisters(poly, bits) = r
  BY Zenon DEF CrcRegisters
<1>3. ASSUME NEW n \in 1 .. L, NEW x \in V PROVE CrcShift(AddByte(x, bits, n), poly) \in V
  <2>1. AddByte(x, bits, n) \in Registers(k)
    BY AddByteBits
  <2> QED
    BY <2>1, CrcShiftBits
<1>4. Zero(k) \in V
  BY DEF Zero, Registers, Bit
<1>5. step \in [(1 .. L) \X V -> V]
  <2>1. ASSUME NEW x \in (1 .. L) \X V PROVE CrcShift(AddByte(x[2], bits, x[1]), poly) \in V
    <3>1. x[1] \in 1 .. L /\ x[2] \in V
      OBVIOUS
    <3> HIDE DEF V
    <3> QED
      BY <1>3, <3>1
  <2> HIDE DEF V
  <2> QED
    BY <2>1
<1> HIDE DEF step, V
<1>6. PICK g \in [0 .. L -> V] :
        g[0] = Zero(k) /\ \A n \in 1 .. L : g[n] = step[<<n, g[n - 1]>>]
  <2>1. Unwinds(L, V, Zero(k), step)
    BY <1>4, <1>5, Recursion
  <2> QED
    BY <2>1 DEF Unwinds
<1>7. \A n \in 1 .. L : g[n] = CrcShift(AddByte(g[n - 1], bits, n), poly)
  <2> SUFFICES ASSUME NEW n \in 1 .. L PROVE g[n] = CrcShift(AddByte(g[n - 1], bits, n), poly)
    OBVIOUS
  <2>1. <<n, g[n - 1]>> \in (1 .. L) \X V
    OBVIOUS
  <2>2. step[<<n, g[n - 1]>>] = CrcShift(AddByte(g[n - 1], bits, n), poly)
    BY <2>1 DEF step
  <2> QED
    BY <1>6, <2>2
<1>8. g = body(g)
  <2>1. g = [n \in 0 .. L |-> g[n]]
    OBVIOUS
  <2>2. ASSUME NEW n \in 0 .. L
        PROVE  g[n] = IF n = 0 THEN [i \in DOMAIN poly |-> 0]
                      ELSE CrcShift(AddByte(g[n - 1], bits, n), poly)
    BY <1>1, <1>6, <1>7 DEF Zero
  <2> QED
    BY <1>1, <2>1, <2>2, Zenon
<1>9. r = body(r)
  BY <1>8, Zenon
<1> HIDE DEF r
<1>10. r[0] = Zero(k)
  BY <1>1, <1>9 DEF Zero
<1>11. ASSUME NEW n \in 1 .. L PROVE r[n] = CrcShift(AddByte(r[n - 1], bits, n), poly)
  <2>1. n \in 0 .. Len(bits) /\ n # 0
    BY <1>1
  <2> QED
    BY <1>9, <2>1
<1>12. \A n \in 0 .. L : r[n] \in V
  <2> DEFINE S == {n \in 0 .. L : r[n] \in V}
  <2>1. 0 \in S
    BY <1>4, <1>10
  <2>2. ASSUME NEW n \in 0 .. L - 1, n \in S PROVE n + 1 \in S
    <3>1. r[n + 1] = CrcShift(AddByte(r[n], bits, n + 1), poly) /\ n + 1 \in 1 .. L
      BY <1>11
    <3>2. r[n] \in V
      BY <2>2
    <3> QED
      BY <1>3, <3>1, <3>2
  <2> HIDE DEF S
  <2>3. 0 .. L \subseteq S
    BY <2>1, <2>2, UpTo
  <2> QED
    BY <2>3 DEF S
<1>13. r = [n \in 0 .. L |-> r[n]]
  BY <1>1, <1>9
<1> QED
  BY <1>2, <1>10, <1>11, <1>12, <1>13 DEF V

-----------------------------------------------------------------------------
(* The driver computes the CRC of the SD specification                     *)

\* What the driver has added to bit i of its register before its turn.
Ahead(bits, n, i) == n % 8 # 0 /\ i <= 8 - (n % 8) /\ bits[n + i] = 1

\* Reg is the driver's register after n bits, rem is the remainder.
Differ(k, reg, rem, bits, n) == \A i \in 1 .. k : reg[i] # rem[i] <=> Ahead(bits, n, i)

LEMMA CrcTurn ==
  ASSUME NEW k \in Nat, k >= 8, NEW poly \in Registers(k),
         NEW L \in Nat, L % 8 = 0, NEW bits \in Registers(L),
         NEW n \in 0 .. L - 1, NEW reg \in Registers(k), NEW rem \in Registers(k),
         Differ(k, reg, rem, bits, n)
  PROVE  Differ(k, CrcShift(AddByte(reg, bits, n + 1), poly),
                   Divide(rem, bits[n + 1], poly), bits, n + 1)
<1> DEFINE add == AddByte(reg, bits, n + 1)
<1>1. add \in Registers(k)
  BY AddByteBits
<1>2. ASSUME NEW i \in 1 .. k
      PROVE  add[i] # rem[i] <=> i <= 8 - (n % 8) /\ bits[n + i] = 1
  <2>1. reg[i] \in Bit /\ rem[i] \in Bit
    BY DEF Registers
  <2>2. reg[i] # rem[i] <=> Ahead(bits, n, i)
    BY DEF Differ
  <2>3. CASE n % 8 = 0
    <3>1. (n + 1) % 8 = 1
      BY <2>3
    <3>2. CASE i <= 8
      <4>1. n + i \in 1 .. L
        BY <2>3, <3>2
      <4>2. bits[n + i] \in Bit
        BY <4>1 DEF Registers
      <4>3. add[i] = IF reg[i] = bits[n + 1 - 1 + i] THEN 0 ELSE 1
        BY <3>1, <3>2, AddByteBits
      <4>4. reg[i] = rem[i]
        BY <2>2, <2>3 DEF Ahead
      <4>5. n + 1 - 1 + i = n + i /\ i <= 8 - (n % 8)
        BY <2>3, <3>2
      <4> HIDE DEF add
      <4> QED
        BY <2>1, <4>2, <4>3, <4>4, <4>5 DEF Bit
    <3>3. CASE i > 8
      <4>1. add[i] = reg[i]
        BY <3>1, <3>3, AddByteBits
      <4> QED
        BY <2>2, <2>3, <3>3, <4>1 DEF Ahead
    <3> QED
      BY <3>2, <3>3
  <2>4. CASE n % 8 # 0
    <3>1. (n + 1) % 8 # 1
      BY <2>4
    <3>2. add[i] = reg[i]
      BY <3>1, AddByteBits
    <3> QED
      BY <2>2, <2>4, <3>2 DEF Ahead
  <2> QED
    BY <2>3, <2>4
<1> HIDE DEF add
<1>3. bits[n + 1] \in Bit /\ add[1] \in Bit /\ rem[1] \in Bit /\ Len(poly) = k
  BY <1>1, ShiftedLeft DEF Registers
<1>4. add[1] = 0 <=> rem[1] = bits[n + 1]
  <2>1. 1 \in 1 .. k /\ 1 <= 8 - (n % 8)
    OBVIOUS
  <2>2. add[1] # rem[1] <=> bits[n + 1] = 1
    BY <1>2, <2>1
  <2> QED
    BY <1>3, <2>2 DEF Bit
<1> SUFFICES ASSUME NEW i \in 1 .. k
             PROVE  CrcShift(add, poly)[i] # Divide(rem, bits[n + 1], poly)[i]
                      <=> Ahead(bits, n + 1, i)
  BY DEF Differ, add
<1>5. CrcShift(add, poly)[i] = Divided(add, 0, poly, i)
  BY <1>1, CrcShiftBits
<1>6. Divide(rem, bits[n + 1], poly)[i] = Divided(rem, bits[n + 1], poly, i)
  <2>1. k \in Nat \ {0}
    OBVIOUS
  <2>2. bits[n + 1] \in Bit
    BY <1>3
  <2>3. \A j \in 1 .. k : Divide(rem, bits[n + 1], poly)[j] = Divided(rem, bits[n + 1], poly, j)
    BY <2>1, <2>2, DivideBits
  <2> QED
    BY <2>3
<1>7. CASE i = k
  <2>1. ~Ahead(bits, n + 1, i)
    BY <1>7 DEF Ahead
  <2> QED
    BY <1>3, <1>4, <1>5, <1>6, <1>7, <2>1 DEF Divided
<1>8. CASE i # k
  <2>1. add[i + 1] # rem[i + 1] <=> i + 1 <= 8 - (n % 8) /\ bits[n + (i + 1)] = 1
    BY <1>2, <1>8
  <2>2. i + 1 <= 8 - (n % 8) <=> (n + 1) % 8 # 0 /\ i <= 8 - ((n + 1) % 8)
    OBVIOUS
  <2>3. add[i + 1] # rem[i + 1] <=> Ahead(bits, n + 1, i)
    BY <2>1, <2>2 DEF Ahead
  <2>4. add[i + 1] \in Bit /\ rem[i + 1] \in Bit /\ poly[i] \in Bit
    BY <1>1, <1>8 DEF Registers
  <2> QED
    BY <1>3, <1>4, <1>5, <1>6, <1>8, <2>3, <2>4 DEF Divided, Bit
<1> QED
  BY <1>7, <1>8

\* For every polynomial and every string of bytes the loop of the driver, a
\* byte at a time, ends with the remainder of the division of the SD
\* specification, a bit at a time.
THEOREM CrcIsRemainder ==
  ASSUME NEW k \in Nat, k >= 8, NEW poly \in Registers(k),
         NEW L \in Nat, L % 8 = 0, NEW bits \in Registers(L)
  PROVE  CrcRegister(poly, bits) = Remainder(poly, bits)
<1> DEFINE reg == CrcRegisters(poly, bits)
           rem == Remainders(poly, bits)
           S   == {n \in 0 .. L : Differ(k, reg[n], rem[n], bits, n)}
<1>1. /\ reg \in [0 .. L -> Registers(k)]
      /\ reg[0] = Zero(k)
      /\ \A n \in 1 .. L : reg[n] = CrcShift(AddByte(reg[n - 1], bits, n), poly)
  BY CrcRegistersUnfold
<1>2. /\ rem \in [0 .. L -> Registers(k)]
      /\ rem[0] = Zero(k)
      /\ \A n \in 1 .. L : rem[n] = Divide(rem[n - 1], bits[n], poly)
  <2>1. k \in Nat \ {0}
    OBVIOUS
  <2> QED
    BY <2>1, RemaindersUnfold
<1>3. Len(bits) = L
  BY DEF Registers
<1> HIDE DEF reg, rem
<1>4. 0 \in S
  BY <1>1, <1>2 DEF Differ, Ahead
<1>5. ASSUME NEW n \in 0 .. L - 1, n \in S PROVE n + 1 \in S
  <2>1. Differ(k, reg[n], rem[n], bits, n) /\ reg[n] \in Registers(k) /\ rem[n] \in Registers(k)
    BY <1>1, <1>2, <1>5
  <2>2. reg[n + 1] = CrcShift(AddByte(reg[n], bits, n + 1), poly)
          /\ rem[n + 1] = Divide(rem[n], bits[n + 1], poly)
    BY <1>1, <1>2
  <2>3. Differ(k, reg[n + 1], rem[n + 1], bits, n + 1)
    BY <2>1, <2>2, CrcTurn
  <2> QED
    BY <2>3
<1>6. L \in S
  <2> HIDE DEF S
  <2>1. 0 .. L \subseteq S
    BY <1>4, <1>5, UpTo
  <2> QED
    BY <2>1
<1>7. \A i \in 1 .. k : reg[L][i] = rem[L][i]
  BY <1>6 DEF Differ, Ahead
<1>8. reg[L] = rem[L]
  <2>1. reg[L] \in Registers(k) /\ rem[L] \in Registers(k)
    BY <1>1, <1>2
  <2> QED
    BY <1>7, <2>1, SameBits
<1> QED
  BY <1>3, <1>8 DEF CrcRegister, Remainder, reg, rem

LEMMA Concatenated ==
  ASSUME NEW k \in Nat, NEW m \in Nat, NEW n \in Nat, n = k + m,
         NEW a \in Registers(k), NEW b \in Registers(m)
  PROVE  /\ a \o b \in Registers(n)
         /\ \A i \in 1 .. n : (a \o b)[i] = IF i <= k THEN a[i] ELSE b[i - k]
<1>1. a \in Seq(Bit) /\ b \in Seq(Bit) /\ Len(a) = k /\ Len(b) = m
  BY DEF Registers
<1>2. a \o b \in Seq(Bit) /\ Len(a \o b) = n
  BY <1>1
<1>3. \A i \in 1 .. n : (a \o b)[i] = IF i <= k THEN a[i] ELSE b[i - k]
  BY <1>1
<1> DEFINE c == a \o b
<1>4. c \in Seq(Bit) /\ Len(c) = n
  BY <1>2
<1> HIDE DEF c
<1>5. c \in [1 .. n -> Bit]
  BY <1>4
<1> QED
  BY <1>3, <1>5 DEF Registers, c

\* The exponents of the CSD and the bits of a byte.
LEMMA Powers == \A n \in 0 .. 15 : 2^n \in Nat \ {0}
<1> SUFFICES ASSUME NEW n \in 0 .. 15 PROVE 2^n \in Nat \ {0}
  OBVIOUS
<1>0. CASE n = 0
  BY <1>0
<1>1. CASE n = 1
  BY <1>1
<1>2. CASE n = 2
  BY <1>2
<1>3. CASE n = 3
  BY <1>3
<1>4. CASE n = 4
  BY <1>4
<1>5. CASE n = 5
  BY <1>5
<1>6. CASE n = 6
  BY <1>6
<1>7. CASE n = 7
  BY <1>7
<1>8. CASE n = 8
  BY <1>8
<1>9. CASE n = 9
  BY <1>9
<1>10. CASE n = 10
  BY <1>10
<1>11. CASE n = 11
  BY <1>11
<1>12. CASE n = 12
  BY <1>12
<1>13. CASE n = 13
  BY <1>13
<1>14. CASE n = 14
  BY <1>14
<1>15. CASE n = 15
  BY <1>15
<1>16. n \in {0, 1, 2, 3, 4, 5, 6, 7, 8, 9, 10, 11, 12, 13, 14, 15}
  OBVIOUS
<1> QED
  BY <1>16, <1>0, <1>1, <1>2, <1>3, <1>4, <1>5, <1>6, <1>7, <1>8, <1>9, <1>10, <1>11, <1>12, <1>13, <1>14, <1>15

LEMMA Bits8Type == \A n \in Nat : Bits8(n) \in Registers(8)
<1> SUFFICES ASSUME NEW n \in Nat, NEW i \in 1 .. 8 PROVE (n \div 2^(8 - i)) % 2 \in Bit
  BY DEF Bits8, Registers
<1>1. \A q \in Nat : q % 2 \in Bit
  BY DEF Bit
<1>2. 2^(8 - i) \in Nat \ {0}
  <2>1. 8 - i \in 0 .. 15
    OBVIOUS
  <2> QED
    BY <2>1, Powers
<1>3. n \div 2^(8 - i) \in Nat
  BY <1>2
<1> QED
  BY <1>1, <1>3

LEMMA Poly16Bits ==
  /\ Poly16 \in Registers(16)
  /\ \A i \in 1 .. 16 : Poly16[i] = IF i \in {4, 11, 16} THEN 1 ELSE 0
<1>1. Bits8(16) = [i \in 1 .. 8 |-> IF i = 4 THEN 1 ELSE 0]
  BY DEF Bits8
<1>2. Bits8(33) = [i \in 1 .. 8 |-> IF i \in {3, 8} THEN 1 ELSE 0]
  BY DEF Bits8
<1>3. Bits8(16) \in Registers(8) /\ Bits8(33) \in Registers(8)
  BY <1>1, <1>2 DEF Bit, Registers
<1>4. /\ Poly16 \in Registers(16)
      /\ \A i \in 1 .. 16 : Poly16[i] = IF i <= 8 THEN Bits8(16)[i] ELSE Bits8(33)[i - 8]
  <2> DEFINE hi == Bits8(16)
             lo == Bits8(33)
  <2>1. hi \in Registers(8) /\ lo \in Registers(8) /\ Poly16 = hi \o lo
    BY <1>3 DEF Poly16
  <2> HIDE DEF hi, lo
  <2>2. \A k, m, n \in Nat : \A a \in Registers(k), b \in Registers(m) : n = k + m =>
          /\ a \o b \in Registers(n)
          /\ \A i \in 1 .. n : (a \o b)[i] = IF i <= k THEN a[i] ELSE b[i - k]
    BY Concatenated
  <2>3. 8 \in Nat /\ 16 \in Nat /\ 16 = 8 + 8
    OBVIOUS
  <2>4. /\ hi \o lo \in Registers(16)
        /\ \A i \in 1 .. 16 : (hi \o lo)[i] = IF i <= 8 THEN hi[i] ELSE lo[i - 8]
    BY <2>1, <2>2, <2>3, Zenon
  <2> QED
    BY <2>1, <2>4 DEF hi, lo
<1>5. \A i \in 1 .. 16 : Poly16[i] = IF i \in {4, 11, 16} THEN 1 ELSE 0
  BY <1>1, <1>2, <1>4
<1> QED
  BY <1>4, <1>5

-----------------------------------------------------------------------------
(* Remainders of errors                                                    *)

LEMMA DivideXored ==
  ASSUME NEW k \in Nat \ {0}, NEW gen \in Registers(k),
         NEW r \in Registers(k), NEW s \in Registers(k), NEW b \in Bit, NEW c \in Bit
  PROVE  Divide(XorBits(r, s), IF b = c THEN 0 ELSE 1, gen)
           = XorBits(Divide(r, b, gen), Divide(s, c, gen))
<1> DEFINE x == XorBits(r, s)
           d == IF b = c THEN 0 ELSE 1
<1>1. x = [i \in 1 .. k |-> IF r[i] = s[i] THEN 0 ELSE 1]
  BY Xored
<1>0. x \in Registers(k)
  BY Xored
<1>2. d \in Bit /\ Len(gen) = k
  BY ShiftedLeft DEF Bit
<1> HIDE DEF x, d
<1>3. /\ Divide(r, b, gen) \in Registers(k)
      /\ \A i \in 1 .. k : Divide(r, b, gen)[i] = Divided(r, b, gen, i)
  BY DivideBits
<1>4. /\ Divide(s, c, gen) \in Registers(k)
      /\ \A i \in 1 .. k : Divide(s, c, gen)[i] = Divided(s, c, gen, i)
  BY DivideBits
<1>5. /\ Divide(x, d, gen) \in Registers(k)
      /\ \A i \in 1 .. k : Divide(x, d, gen)[i] = Divided(x, d, gen, i)
  <2>1. d \in Bit
    BY <1>2
  <2> QED
    BY <1>0, <2>1, DivideBits
<1>6. /\ XorBits(Divide(r, b, gen), Divide(s, c, gen)) \in Registers(k)
      /\ \A i \in 1 .. k : XorBits(Divide(r, b, gen), Divide(s, c, gen))[i]
                             = IF Divide(r, b, gen)[i] = Divide(s, c, gen)[i] THEN 0 ELSE 1
  BY <1>3, <1>4, Xored
<1>7. ASSUME NEW i \in 1 .. k
      PROVE  Divided(x, d, gen, i) = IF Divided(r, b, gen, i) = Divided(s, c, gen, i) THEN 0 ELSE 1
  <2>1. r[1] \in Bit /\ s[1] \in Bit /\ gen[i] \in Bit /\ x[1] = IF r[1] = s[1] THEN 0 ELSE 1
    BY <1>1 DEF Registers
  <2>2. x[1] = d <=> (r[1] = b <=> s[1] = c)
    BY <2>1 DEF d, Bit
  <2>3. CASE i = k
    BY <1>2, <2>1, <2>2, <2>3 DEF Divided, Bit
  <2>4. CASE i # k
    <3>1. r[i + 1] \in Bit /\ s[i + 1] \in Bit /\ x[i + 1] = IF r[i + 1] = s[i + 1] THEN 0 ELSE 1
      BY <1>1, <2>4 DEF Registers
    <3> QED
      BY <1>2, <2>1, <2>2, <2>4, <3>1 DEF Divided, Bit
  <2> QED
    BY <2>3, <2>4
<1>8. \A i \in 1 .. k : Divide(x, d, gen)[i] = XorBits(Divide(r, b, gen), Divide(s, c, gen))[i]
  BY <1>3, <1>4, <1>5, <1>6, <1>7
<1> QED
  BY <1>5, <1>6, <1>8, SameBits DEF x, d

LEMMA RemaindersXored ==
  ASSUME NEW k \in Nat \ {0}, NEW gen \in Registers(k),
         NEW L \in Nat, NEW a \in Registers(L), NEW e \in Registers(L)
  PROVE  Remainders(gen, XorBits(a, e))[L] = XorBits(Remainders(gen, a)[L], Remainders(gen, e)[L])
<1> DEFINE x == XorBits(a, e)
           ra == Remainders(gen, a)
           re == Remainders(gen, e)
           rx == Remainders(gen, x)
           S  == {n \in 0 .. L : rx[n] = XorBits(ra[n], re[n])}
<1>1. x = [i \in 1 .. L |-> IF a[i] = e[i] THEN 0 ELSE 1] /\ x \in Registers(L)
  BY Xored
<1>2. /\ ra \in [0 .. L -> Registers(k)] /\ ra[0] = Zero(k)
      /\ \A n \in 1 .. L : ra[n] = Divide(ra[n - 1], a[n], gen)
  BY RemaindersUnfold
<1>3. /\ re \in [0 .. L -> Registers(k)] /\ re[0] = Zero(k)
      /\ \A n \in 1 .. L : re[n] = Divide(re[n - 1], e[n], gen)
  BY RemaindersUnfold
<1> HIDE DEF x
<1>4. /\ rx \in [0 .. L -> Registers(k)] /\ rx[0] = Zero(k)
      /\ \A n \in 1 .. L : rx[n] = Divide(rx[n - 1], x[n], gen)
  BY <1>1, RemaindersUnfold
<1> HIDE DEF ra, re, rx
<1>5. 0 \in S
  <2>1. Zero(k) \in Registers(k) /\ \A i \in 1 .. k : Zero(k)[i] = 0
    BY <1>2 DEF Zero
  <2>2. XorBits(Zero(k), Zero(k)) = [i \in 1 .. k |-> IF Zero(k)[i] = Zero(k)[i] THEN 0 ELSE 1]
    BY <2>1, Xored
  <2>3. XorBits(Zero(k), Zero(k)) = Zero(k)
    BY <2>2 DEF Zero
  <2> QED
    BY <1>2, <1>3, <1>4, <2>3
<1>6. ASSUME NEW n \in 0 .. L - 1, n \in S PROVE n + 1 \in S
  <2>1. rx[n] = XorBits(ra[n], re[n]) /\ ra[n] \in Registers(k) /\ re[n] \in Registers(k)
    BY <1>2, <1>3, <1>6
  <2>2. /\ n + 1 \in 1 .. L /\ a[n + 1] \in Bit /\ e[n + 1] \in Bit
        /\ x[n + 1] = IF a[n + 1] = e[n + 1] THEN 0 ELSE 1
    BY <1>1 DEF Registers
  <2>3. ra[n + 1] = Divide(ra[n], a[n + 1], gen) /\ re[n + 1] = Divide(re[n], e[n + 1], gen)
          /\ rx[n + 1] = Divide(rx[n], x[n + 1], gen)
    BY <1>2, <1>3, <1>4, <2>2
  <2>4. Divide(XorBits(ra[n], re[n]), IF a[n + 1] = e[n + 1] THEN 0 ELSE 1, gen)
          = XorBits(Divide(ra[n], a[n + 1], gen), Divide(re[n], e[n + 1], gen))
    BY <2>1, <2>2, DivideXored
  <2>5. rx[n + 1] = XorBits(ra[n + 1], re[n + 1])
    BY <2>1, <2>2, <2>3, <2>4
  <2> QED
    BY <2>5
<1> HIDE DEF S
<1>7. 0 .. L \subseteq S
  BY <1>5, <1>6, UpTo
<1>8. L \in S
  BY <1>7
<1> QED
  BY <1>8 DEF S, x, ra, re, rx

-----------------------------------------------------------------------------
(* Divisions read backwards                                                *)

\* A generator whose last bit is 1 can be divided by backwards: the last bit
\* of the remainder tells whether it was subtracted.
LEMMA DividedBack ==
  ASSUME NEW k \in Nat \ {0}, NEW gen \in Registers(k), gen[k] = 1,
         NEW r \in Registers(k), NEW bit \in Bit, NEW s, s = Divide(r, bit, gen)
  PROVE  /\ r[1] = IF s[k] = 0 THEN bit ELSE 1 - bit
         /\ \A i \in 1 .. k - 1 : r[i + 1] = IF s[k] = 0 \/ gen[i] = 0 THEN s[i] ELSE 1 - s[i]
<1>1. \A i \in 1 .. k : s[i] = Divided(r, bit, gen, i)
  BY DivideBits
<1>2. Len(gen) = k /\ r[1] \in Bit
  BY ShiftedLeft DEF Registers
<1>3. s[k] = IF r[1] = bit THEN 0 ELSE 1
  BY <1>1, <1>2 DEF Divided
<1>4. ASSUME NEW i \in 1 .. k - 1
      PROVE  r[i + 1] = IF s[k] = 0 \/ gen[i] = 0 THEN s[i] ELSE 1 - s[i]
  <2>1. r[i + 1] \in Bit /\ gen[i] \in Bit
    BY DEF Registers
  <2>2. s[i] = Divided(r, bit, gen, i) /\ i # k
    BY <1>1
  <2> QED
    BY <1>2, <1>3, <2>1, <2>2 DEF Divided, Bit
<1> QED
  BY <1>2, <1>3, <1>4 DEF Bit

\* The states of a division that ends with no remainder at bit m show the
\* bits that are still to come.
LEMMA BeforeZero ==
  ASSUME NEW k \in Nat \ {0}, NEW gen \in Registers(k), gen[k] = 1,
         NEW L \in Nat, NEW e \in Registers(L),
         NEW m \in 0 .. L, Remainders(gen, e)[m] = Zero(k),
         NEW t \in 0 .. k, t <= m, NEW i \in 1 .. k
  PROVE  Remainders(gen, e)[m - t][i] = IF i <= t THEN e[m - t + i] ELSE 0
<1> DEFINE r == Remainders(gen, e)
           Shows(u) == \A j \in 1 .. k : r[m - u][j] = IF j <= u THEN e[m - u + j] ELSE 0
           S == {u \in 0 .. t : Shows(u)}
<1>1. /\ r \in [0 .. L -> Registers(k)]
      /\ \A n \in 1 .. L : r[n] = Divide(r[n - 1], e[n], gen)
  BY RemaindersUnfold
<1>2. r[m] = Zero(k)
  OBVIOUS
<1> HIDE DEF r
<1>3. 0 \in S
  BY <1>2 DEF Zero
<1>4. ASSUME NEW u \in 0 .. t - 1, u \in S PROVE u + 1 \in S
  <2> DEFINE n == m - u
  <2>1. n \in 1 .. L /\ u < k
    OBVIOUS
  <2>2. r[n - 1] \in Registers(k) /\ r[n] = Divide(r[n - 1], e[n], gen) /\ e[n] \in Bit
    BY <1>1, <2>1 DEF Registers
  <2>3. \A j \in 1 .. k : r[n][j] = IF j <= u THEN e[n + j] ELSE 0
    BY <1>4
  <2>4. r[n][k] = 0
    BY <2>1, <2>3
  <2> HIDE DEF n
  <2>5. /\ r[n - 1][1] = e[n]
        /\ \A j \in 1 .. k - 1 : r[n - 1][j + 1] = r[n][j]
    BY <2>2, <2>4, DividedBack
  <2>6. ASSUME NEW j \in 1 .. k
        PROVE  r[n - 1][j] = IF j <= u + 1 THEN e[n - 1 + j] ELSE 0
    <3>1. CASE j = 1
      BY <2>1, <2>5, <3>1
    <3>2. CASE j # 1
      <4>1. j - 1 \in 1 .. k - 1 /\ j - 1 \in 1 .. k
        BY <3>2
      <4>2. r[n - 1][(j - 1) + 1] = r[n][j - 1]
        BY <2>5, <4>1
      <4>3. r[n][j - 1] = IF j - 1 <= u THEN e[n + (j - 1)] ELSE 0
        BY <2>3, <4>1
      <4>4. n + (j - 1) = n - 1 + j /\ (j - 1) + 1 = j
        BY <2>1
      <4> QED
        BY <4>2, <4>3, <4>4
    <3> QED
      BY <3>1, <3>2
  <2> QED
    BY <2>6 DEF n
<1> HIDE DEF S
<1>5. 0 .. t \subseteq S
  BY <1>3, <1>4, UpTo
<1>6. t \in S
  BY <1>5
<1> QED
  BY <1>6 DEF S, r

\* A division goes on without a remainder through zeros, and comes from no
\* remainder.
LEMMA ZeroRuns ==
  ASSUME NEW k \in Nat \ {0}, NEW gen \in Registers(k), gen[k] = 1,
         NEW L \in Nat, NEW e \in Registers(L), NEW m \in 0 .. L
  PROVE  /\ (\A i \in 1 .. m : e[i] = 0) => Remainders(gen, e)[m] = Zero(k)
         /\ (\A i \in m + 1 .. L : e[i] = 0) /\ Remainders(gen, e)[L] = Zero(k)
              => Remainders(gen, e)[m] = Zero(k)
<1> DEFINE r == Remainders(gen, e)
<1>1. /\ r \in [0 .. L -> Registers(k)]
      /\ r[0] = Zero(k)
      /\ \A n \in 1 .. L : r[n] = Divide(r[n - 1], e[n], gen)
  BY RemaindersUnfold
<1>2. Zero(k) \in Registers(k) /\ \A j \in 1 .. k : Zero(k)[j] = 0
  BY DEF Zero, Registers, Bit
<1> HIDE DEF r
<1>3. ASSUME \A i \in 1 .. m : e[i] = 0 PROVE r[m] = Zero(k)
  <2> DEFINE S == {n \in 0 .. m : r[n] = Zero(k)}
  <2>1. 0 \in S
    BY <1>1
  <2>2. ASSUME NEW n \in 0 .. m - 1, n \in S PROVE n + 1 \in S
    <3>1. r[n + 1] = Divide(r[n], e[n + 1], gen) /\ e[n + 1] = 0 /\ r[n] = Zero(k)
      BY <1>1, <1>3, <2>2
    <3>2. /\ Divide(Zero(k), 0, gen) \in Registers(k)
          /\ \A i \in 1 .. k : Divide(Zero(k), 0, gen)[i] = Divided(Zero(k), 0, gen, i)
      BY <1>2, DivideBits DEF Bit
    <3>3. Len(gen) = k
      BY ShiftedLeft
    <3>4. \A i \in 1 .. k : Divided(Zero(k), 0, gen, i) = Zero(k)[i]
      BY <1>2, <3>3 DEF Divided
    <3>5. Divide(Zero(k), 0, gen) = Zero(k)
      BY <1>2, <3>2, <3>4, SameBits
    <3> QED
      BY <3>1, <3>5
  <2> HIDE DEF S
  <2>3. 0 .. m \subseteq S
    BY <2>1, <2>2, UpTo
  <2> QED
    BY <2>3 DEF S
<1>4. ASSUME \A i \in m + 1 .. L : e[i] = 0, r[L] = Zero(k) PROVE r[m] = Zero(k)
  <2> DEFINE S == {u \in 0 .. L - m : r[L - u] = Zero(k)}
  <2>1. 0 \in S
    BY <1>4
  <2>2. ASSUME NEW u \in 0 .. (L - m) - 1, u \in S PROVE u + 1 \in S
    <3> DEFINE n == L - u
    <3>1. n \in m + 1 .. L /\ n \in 0 .. L /\ r[n] = Zero(k) /\ e[n] = 0 /\ n - 1 = L - (u + 1)
      BY <1>4, <2>2
    <3> HIDE DEF n
    <3>2. \A j \in 1 .. k : r[n - 1][j] = IF j <= 1 THEN e[n - 1 + j] ELSE 0
      <4> SUFFICES ASSUME NEW j \in 1 .. k
                   PROVE  r[n - 1][j] = IF j <= 1 THEN e[n - 1 + j] ELSE 0
        OBVIOUS
      <4>1. 1 \in 0 .. k /\ 1 <= n /\ n \in 0 .. L
        BY <3>1
      <4>2. Remainders(gen, e)[n] = Zero(k)
        BY <3>1 DEF r
      <4>3. Remainders(gen, e)[n - 1][j] = IF j <= 1 THEN e[n - 1 + j] ELSE 0
        BY <4>1, <4>2, BeforeZero
      <4> QED
        BY <4>3 DEF r
    <3>3. n - 1 + 1 = n /\ r[n - 1] \in Registers(k)
      BY <1>1, <3>1
    <3>4. \A j \in 1 .. k : r[n - 1][j] = Zero(k)[j]
      BY <1>2, <3>1, <3>2, <3>3
    <3>5. r[n - 1] = Zero(k)
      BY <1>2, <3>3, <3>4, SameBits
    <3> QED
      BY <3>1, <3>5
  <2> HIDE DEF S
  <2>3. 0 .. L - m \subseteq S
    BY <2>1, <2>2, UpTo
  <2>4. L - m \in S /\ L - (L - m) = m
    BY <2>3
  <2> QED
    BY <2>4 DEF S
<1> QED
  BY <1>3, <1>4 DEF r

LEMMA BurstLeaves ==
  ASSUME NEW k \in Nat \ {0}, NEW gen \in Registers(k), gen[k] = 1,
         NEW L \in Nat, NEW e \in Registers(L), NEW j \in 1 .. L, e[j] = 1,
         \A i \in 1 .. L : e[i] # 0 => i \in j .. j + (k - 1)
  PROVE  Remainders(gen, e)[L] # Zero(k)
<1> DEFINE r == Remainders(gen, e)
<1> SUFFICES ASSUME r[L] = Zero(k) PROVE FALSE
  OBVIOUS
<1>1. r[j - 1] = Zero(k)
  <2>1. j - 1 \in 0 .. L /\ \A i \in 1 .. j - 1 : e[i] = 0
    OBVIOUS
  <2> QED
    BY <2>1, ZeroRuns
<1>2. PICK m \in 0 .. L : j <= m /\ m - (j - 1) \in 0 .. k /\ \A i \in m + 1 .. L : e[i] = 0
  <2>1. CASE j + (k - 1) <= L
    <3> DEFINE z == j + (k - 1)
    <3>1. z \in 0 .. L /\ j <= z /\ z - (j - 1) \in 0 .. k
      BY <2>1
    <3>2. \A i \in z + 1 .. L : e[i] = 0
      BY <2>1
    <3> HIDE DEF z
    <3> QED
      BY <3>1, <3>2
  <2>2. CASE L < j + (k - 1)
    BY <2>2
  <2> QED
    BY <2>1, <2>2
<1>3. r[m] = Zero(k)
  BY <1>2, ZeroRuns
<1> DEFINE t == m - (j - 1)
<1>4. t \in 0 .. k /\ 1 <= t /\ t <= m /\ m - t = j - 1 /\ j - 1 + 1 = j /\ 1 \in 1 .. k
  BY <1>2
<1> HIDE DEF t
<1>5. r[m - t][1] = IF 1 <= t THEN e[m - t + 1] ELSE 0
  BY <1>3, <1>4, BeforeZero
<1>6. r[j - 1][1] = 1
  BY <1>4, <1>5
<1> QED
  BY <1>1, <1>4, <1>6 DEF Zero

\* The register whose bits S are set.
Ones(S) == [i \in 1 .. 16 |-> IF i \in S THEN 1 ELSE 0]

\* The step of a division by Poly16 before Ones(S), where the bit is 0.
LEMMA OnesBack ==
  ASSUME NEW L \in Nat, NEW e \in Registers(L), NEW n \in 1 .. L, e[n] = 0,
         NEW S, NEW T, Remainders(Poly16, e)[n] = Ones(S),
         1 \in T <=> 16 \in S,
         \A i \in 1 .. 15 : i + 1 \in T <=>
           IF 16 \in S /\ i \in {4, 11} THEN i \notin S ELSE i \in S
  PROVE  Remainders(Poly16, e)[n - 1] = Ones(T)
<1> DEFINE r == Remainders(Poly16, e)
<1>1. Poly16 \in Registers(16) /\ 16 \in Nat \ {0}
        /\ \A i \in 1 .. 16 : Poly16[i] = IF i \in {4, 11, 16} THEN 1 ELSE 0
  BY Poly16Bits
<1>2. /\ r \in [0 .. L -> Registers(16)]
      /\ \A m \in 1 .. L : r[m] = Divide(r[m - 1], e[m], Poly16)
  <2>1. \A k \in Nat \ {0} : \A gen \in Registers(k) :
          /\ Remainders(gen, e) \in [0 .. L -> Registers(k)]
          /\ \A m \in 1 .. L : Remainders(gen, e)[m] = Divide(Remainders(gen, e)[m - 1], e[m], gen)
    BY RemaindersUnfold
  <2> QED
    BY <1>1, <2>1, Zenon
<1>3. r[n] = Ones(S)
  OBVIOUS
<1> HIDE DEF r
<1>4. r[n - 1] \in Registers(16) /\ Ones(S) = Divide(r[n - 1], 0, Poly16) /\ 0 \in Bit
        /\ Poly16[16] = 1
  BY <1>1, <1>2, <1>3 DEF Bit
<1>5. /\ r[n - 1][1] = IF Ones(S)[16] = 0 THEN 0 ELSE 1 - 0
      /\ \A i \in 1 .. 16 - 1 : r[n - 1][i + 1] =
           IF Ones(S)[16] = 0 \/ Poly16[i] = 0 THEN Ones(S)[i] ELSE 1 - Ones(S)[i]
  BY <1>1, <1>4, DividedBack
<1>6. \A i \in 1 .. 16 : Ones(S)[i] = IF i \in S THEN 1 ELSE 0
  BY DEF Ones
<1>7. r[n - 1][1] = Ones(T)[1]
  BY <1>5, <1>6 DEF Ones
<1>8. ASSUME NEW i \in 1 .. 15 PROVE r[n - 1][i + 1] = Ones(T)[i + 1]
  <2>1. r[n - 1][i + 1] =
          IF Ones(S)[16] = 0 \/ Poly16[i] = 0 THEN Ones(S)[i] ELSE 1 - Ones(S)[i]
    BY <1>5
  <2>2. Ones(T)[i + 1] = IF i + 1 \in T THEN 1 ELSE 0
    BY DEF Ones
  <2> QED
    BY <1>1, <1>6, <2>1, <2>2
<1>9. ASSUME NEW i \in 1 .. 16 PROVE r[n - 1][i] = Ones(T)[i]
  <2>1. CASE i = 1
    BY <1>7, <2>1
  <2>2. CASE i # 1
    <3>1. i - 1 \in 1 .. 15 /\ (i - 1) + 1 = i
      BY <2>2
    <3> QED
      BY <1>8, <3>1
  <2> QED
    BY <2>1, <2>2
<1>10. Ones(T) \in Registers(16)
  BY DEF Ones, Registers, Bit
<1> QED
  BY <1>4, <1>9, <1>10, SameBits DEF r

LEMMA PairLeaves ==
  ASSUME NEW L \in Nat, NEW e \in Registers(L), NEW j \in 1 .. L, NEW m \in 1 .. L,
         m - j \in 16 .. 23, e[j] = 1, e[m] = 1,
         \A i \in 1 .. L : i \notin {j, m} => e[i] = 0
  PROVE  Remainders(Poly16, e)[L] # Zero(16)
<1> DEFINE r == Remainders(Poly16, e)
<1> SUFFICES ASSUME r[L] = Zero(16) PROVE FALSE
  OBVIOUS
<1>1. Poly16 \in Registers(16) /\ 16 \in Nat \ {0} /\ Poly16[16] = 1
        /\ \A i \in 1 .. 16 : Poly16[i] = IF i \in {4, 11, 16} THEN 1 ELSE 0
  BY Poly16Bits
<1>2. /\ r \in [0 .. L -> Registers(16)]
      /\ \A n \in 1 .. L : r[n] = Divide(r[n - 1], e[n], Poly16)
  <2>1. \A k \in Nat \ {0} : \A gen \in Registers(k) :
          /\ Remainders(gen, e) \in [0 .. L -> Registers(k)]
          /\ \A n \in 1 .. L : Remainders(gen, e)[n] = Divide(Remainders(gen, e)[n - 1], e[n], gen)
    BY RemaindersUnfold
  <2> QED
    BY <1>1, <2>1, Zenon
<1>3. r[j - 1] = Zero(16) /\ r[m] = Zero(16)
  <2>1. \A k \in Nat \ {0} : \A gen \in Registers(k), n \in 0 .. L : gen[k] = 1 =>
          /\ (\A i \in 1 .. n : e[i] = 0) => Remainders(gen, e)[n] = Zero(k)
          /\ (\A i \in n + 1 .. L : e[i] = 0) /\ Remainders(gen, e)[L] = Zero(k)
               => Remainders(gen, e)[n] = Zero(k)
    BY ZeroRuns
  <2>2. \A n \in 0 .. L :
          /\ (\A i \in 1 .. n : e[i] = 0) => r[n] = Zero(16)
          /\ (\A i \in n + 1 .. L : e[i] = 0) => r[n] = Zero(16)
    BY <1>1, <2>1, Zenon
  <2>3. j - 1 \in 0 .. L /\ \A i \in 1 .. j - 1 : e[i] = 0
    OBVIOUS
  <2>4. m \in 0 .. L /\ \A i \in m + 1 .. L : e[i] = 0
    OBVIOUS
  <2> HIDE DEF r
  <2> QED
    BY <2>2, <2>3, <2>4
<1>4. r[j] = Ones({4, 11, 16})
  <2>1. Zero(16) \in Registers(16) /\ 1 \in Bit /\ \A i \in 1 .. 16 : Zero(16)[i] = 0
    BY DEF Zero, Registers, Bit
  <2>2. \A k \in Nat \ {0} : \A gen \in Registers(k), s \in Registers(k), b \in Bit :
          \A i \in 1 .. k : Divide(s, b, gen)[i] = Divided(s, b, gen, i)
    BY DivideBits
  <2>3. \A i \in 1 .. 16 : Divide(Zero(16), 1, Poly16)[i] = Divided(Zero(16), 1, Poly16, i)
    BY <1>1, <2>1, <2>2, Zenon
  <2>4. Len(Poly16) = 16
    BY <1>1 DEF Registers
  <2>5. \A i \in 1 .. 16 : Divided(Zero(16), 1, Poly16, i) = IF i \in {4, 11, 16} THEN 1 ELSE 0
    <3> SUFFICES ASSUME NEW i \in 1 .. 16
                 PROVE  Divided(Zero(16), 1, Poly16, i) = IF i \in {4, 11, 16} THEN 1 ELSE 0
      OBVIOUS
    <3>1. Zero(16)[1] # 1 /\ (i # 16 => Zero(16)[i + 1] = 0)
      BY <2>1
    <3> QED
      BY <1>1, <2>4, <3>1 DEF Divided
  <2>6. r[j] = Divide(Zero(16), 1, Poly16) /\ r[j] \in Registers(16)
    BY <1>2, <1>3
  <2>7. \A i \in 1 .. 16 : r[j][i] = Ones({4, 11, 16})[i]
    BY <2>3, <2>5, <2>6 DEF Ones
  <2>8. Ones({4, 11, 16}) \in Registers(16)
    BY DEF Ones, Registers, Bit
  <2> HIDE DEF r
  <2> QED
    BY <2>6, <2>7, <2>8, SameBits
<1>16. r[m - 16] = Ones({16})
  <2>1. \A k \in Nat \ {0} : \A gen \in Registers(k), n \in 0 .. L :
          gen[k] = 1 /\ Remainders(gen, e)[n] = Zero(k) =>
            \A t \in 0 .. k : t <= n => \A i \in 1 .. k :
              Remainders(gen, e)[n - t][i] = IF i <= t THEN e[n - t + i] ELSE 0
    <3> SUFFICES ASSUME NEW k \in Nat \ {0}, NEW gen \in Registers(k), NEW n \in 0 .. L,
                        gen[k] = 1, Remainders(gen, e)[n] = Zero(k),
                        NEW t \in 0 .. k, t <= n, NEW i \in 1 .. k
                 PROVE  Remainders(gen, e)[n - t][i] = IF i <= t THEN e[n - t + i] ELSE 0
      BY Zenon
    <3> HIDE DEF r
    <3> QED
      BY BeforeZero
  <2>2. m \in 0 .. L /\ 16 \in 0 .. 16 /\ 16 <= m
    OBVIOUS
  <2>3. \A i \in 1 .. 16 : r[m - 16][i] = IF i <= 16 THEN e[m - 16 + i] ELSE 0
    BY <1>1, <1>3, <2>1, <2>2, Zenon
  <2>4. \A i \in 1 .. 16 : e[m - 16 + i] = IF i = 16 THEN 1 ELSE 0
    OBVIOUS
  <2>5. \A i \in 1 .. 16 : r[m - 16][i] = Ones({16})[i]
    BY <2>3, <2>4 DEF Ones
  <2> HIDE DEF r
  <2>6. r[m - 16] \in Registers(16)
    BY <1>2, <2>2
  <2>7. Ones({16}) \in Registers(16)
    BY DEF Ones, Registers, Bit
  <2> QED
    BY <2>5, <2>6, <2>7, SameBits
<1>17. ASSUME j <= m - 17 PROVE r[m - 17] = Ones({1, 5, 12})
  <2> DEFINE n == m - 16
  <2>1. n \in 1 .. L /\ e[n] = 0 /\ n - 1 = m - 17
    BY <1>17
  <2>2. r[n] = Ones({16})
    BY <1>16, <1>17
  <2> HIDE DEF n
  <2>3. r[n - 1] = Ones({1, 5, 12})
    BY <2>1, <2>2, OnesBack
  <2> QED
    BY <2>1, <2>3
<1>18. ASSUME j <= m - 18 PROVE r[m - 18] = Ones({2, 6, 13})
  <2> DEFINE n == m - 17
  <2>1. n \in 1 .. L /\ e[n] = 0 /\ n - 1 = m - 18
    BY <1>18
  <2>2. r[n] = Ones({1, 5, 12})
    BY <1>17, <1>18
  <2> HIDE DEF n
  <2>3. r[n - 1] = Ones({2, 6, 13})
    BY <2>1, <2>2, OnesBack
  <2> QED
    BY <2>1, <2>3
<1>19. ASSUME j <= m - 19 PROVE r[m - 19] = Ones({3, 7, 14})
  <2> DEFINE n == m - 18
  <2>1. n \in 1 .. L /\ e[n] = 0 /\ n - 1 = m - 19
    BY <1>19
  <2>2. r[n] = Ones({2, 6, 13})
    BY <1>18, <1>19
  <2> HIDE DEF n
  <2>3. r[n - 1] = Ones({3, 7, 14})
    BY <2>1, <2>2, OnesBack
  <2> QED
    BY <2>1, <2>3
<1>20. ASSUME j <= m - 20 PROVE r[m - 20] = Ones({4, 8, 15})
  <2> DEFINE n == m - 19
  <2>1. n \in 1 .. L /\ e[n] = 0 /\ n - 1 = m - 20
    BY <1>20
  <2>2. r[n] = Ones({3, 7, 14})
    BY <1>19, <1>20
  <2> HIDE DEF n
  <2>3. r[n - 1] = Ones({4, 8, 15})
    BY <2>1, <2>2, OnesBack
  <2> QED
    BY <2>1, <2>3
<1>21. ASSUME j <= m - 21 PROVE r[m - 21] = Ones({5, 9, 16})
  <2> DEFINE n == m - 20
  <2>1. n \in 1 .. L /\ e[n] = 0 /\ n - 1 = m - 21
    BY <1>21
  <2>2. r[n] = Ones({4, 8, 15})
    BY <1>20, <1>21
  <2> HIDE DEF n
  <2>3. r[n - 1] = Ones({5, 9, 16})
    BY <2>1, <2>2, OnesBack
  <2> QED
    BY <2>1, <2>3
<1>22. ASSUME j <= m - 22 PROVE r[m - 22] = Ones({1, 5, 6, 10, 12})
  <2> DEFINE n == m - 21
  <2>1. n \in 1 .. L /\ e[n] = 0 /\ n - 1 = m - 22
    BY <1>22
  <2>2. r[n] = Ones({5, 9, 16})
    BY <1>21, <1>22
  <2> HIDE DEF n
  <2>3. r[n - 1] = Ones({1, 5, 6, 10, 12})
    BY <2>1, <2>2, OnesBack
  <2> QED
    BY <2>1, <2>3
<1>23. ASSUME j <= m - 23 PROVE r[m - 23] = Ones({2, 6, 7, 11, 13})
  <2> DEFINE n == m - 22
  <2>1. n \in 1 .. L /\ e[n] = 0 /\ n - 1 = m - 23
    BY <1>23
  <2>2. r[n] = Ones({1, 5, 6, 10, 12})
    BY <1>22, <1>23
  <2> HIDE DEF n
  <2>3. r[n - 1] = Ones({2, 6, 7, 11, 13})
    BY <2>1, <2>2, OnesBack
  <2> QED
    BY <2>1, <2>3
<1> HIDE DEF r
<1>24. m - j \in {16, 17, 18, 19, 20, 21, 22, 23}
  OBVIOUS
<1>25. Ones({4, 11, 16})[4] = 1 /\ Ones({4, 11, 16})[11] = 1 /\ Ones({4, 11, 16})[16] = 1
  BY DEF Ones
<1> QED
  <2>16. CASE m - j = 16
    <3>1. m - 16 = j /\ Ones({16})[4] = 0
      BY <2>16 DEF Ones
    <3> QED
      BY <1>4, <1>16, <1>25, <3>1
  <2>17. CASE m - j = 17
    <3>1. m - 17 = j /\ Ones({1, 5, 12})[4] = 0
      BY <2>17 DEF Ones
    <3> QED
      BY <1>4, <1>17, <1>25, <3>1
  <2>18. CASE m - j = 18
    <3>1. m - 18 = j /\ Ones({2, 6, 13})[4] = 0
      BY <2>18 DEF Ones
    <3> QED
      BY <1>4, <1>18, <1>25, <3>1
  <2>19. CASE m - j = 19
    <3>1. m - 19 = j /\ Ones({3, 7, 14})[4] = 0
      BY <2>19 DEF Ones
    <3> QED
      BY <1>4, <1>19, <1>25, <3>1
  <2>20. CASE m - j = 20
    <3>1. m - 20 = j /\ Ones({4, 8, 15})[11] = 0
      BY <2>20 DEF Ones
    <3> QED
      BY <1>4, <1>20, <1>25, <3>1
  <2>21. CASE m - j = 21
    <3>1. m - 21 = j /\ Ones({5, 9, 16})[4] = 0
      BY <2>21 DEF Ones
    <3> QED
      BY <1>4, <1>21, <1>25, <3>1
  <2>22. CASE m - j = 22
    <3>1. m - 22 = j /\ Ones({1, 5, 6, 10, 12})[4] = 0
      BY <2>22 DEF Ones
    <3> QED
      BY <1>4, <1>22, <1>25, <3>1
  <2>23. CASE m - j = 23
    <3>1. m - 23 = j /\ Ones({2, 6, 7, 11, 13})[4] = 0
      BY <2>23 DEF Ones
    <3> QED
      BY <1>4, <1>23, <1>25, <3>1
  <2> QED
    BY <1>24, <2>16, <2>17, <2>18, <2>19, <2>20, <2>21, <2>22, <2>23

-----------------------------------------------------------------------------
(* What the driver's CRC16 is worth                                        *)

LEMMA Crc16IsRemainder ==
  ASSUME NEW L \in Nat, L % 8 = 0, NEW bits \in Registers(L)
  PROVE  SdCardCalculateCrc16(bits) = Remainder(Poly16, bits)
<1>1. \A k \in Nat : \A poly \in Registers(k) :
        k >= 8 => CrcRegister(poly, bits) = Remainder(poly, bits)
  BY CrcIsRemainder
<1>2. 16 \in Nat /\ 16 >= 8 /\ Poly16 \in Registers(16)
  BY Poly16Bits
<1> QED
  BY <1>1, <1>2, Zenon DEF SdCardCalculateCrc16

\* An error that leaves a remainder is seen, whatever the data.
LEMMA LeftIsSeen ==
  ASSUME NEW L \in Nat, L % 8 = 0, NEW d \in Registers(L), NEW e \in Registers(L),
         Remainders(Poly16, e)[L] # Zero(16)
  PROVE  SdCardCalculateCrc16(XorBits(d, e)) # Remainder(Poly16, d)
<1> DEFINE x  == XorBits(d, e)
           rd == Remainders(Poly16, d)[L]
           re == Remainders(Poly16, e)[L]
<1>1. 16 \in Nat \ {0} /\ Poly16 \in Registers(16) /\ L \in 0 .. L
  BY Poly16Bits
<1>2. x \in Registers(L) /\ Len(x) = L /\ Len(d) = L
  BY Xored DEF Registers
<1>3. rd \in Registers(16) /\ re \in Registers(16)
  <2>1. \A k \in Nat \ {0} : \A gen \in Registers(k) :
          /\ Remainders(gen, d) \in [0 .. L -> Registers(k)]
          /\ Remainders(gen, e) \in [0 .. L -> Registers(k)]
    BY RemaindersUnfold
  <2>2. /\ Remainders(Poly16, d) \in [0 .. L -> Registers(16)]
        /\ Remainders(Poly16, e) \in [0 .. L -> Registers(16)]
    BY <1>1, <2>1, Zenon
  <2> QED
    BY <1>1, <2>2
<1>4. Remainders(Poly16, x)[L] = XorBits(rd, re)
  <2>1. \A k \in Nat \ {0} : \A gen \in Registers(k) :
          Remainders(gen, x)[L] = XorBits(Remainders(gen, d)[L], Remainders(gen, e)[L])
    BY RemaindersXored
  <2> QED
    BY <1>1, <2>1, Zenon
<1>5. SdCardCalculateCrc16(x) = Remainders(Poly16, x)[L]
  <2> HIDE DEF x
  <2> QED
    BY <1>2, Crc16IsRemainder DEF Remainder
<1>6. Remainder(Poly16, d) = rd
  BY <1>2 DEF Remainder
<1>7. re # Zero(16)
  OBVIOUS
<1> HIDE DEF x, rd, re
<1>8. XorBits(rd, re) = [i \in 1 .. 16 |-> IF rd[i] = re[i] THEN 0 ELSE 1]
  <2>1. \A k \in Nat : \A a \in Registers(k), b \in Registers(k) :
          XorBits(a, b) = [i \in 1 .. k |-> IF a[i] = b[i] THEN 0 ELSE 1]
    BY Xored
  <2>2. 16 \in Nat
    OBVIOUS
  <2> QED
    BY <1>3, <2>1, <2>2, Zenon
<1>9. PICK i \in 1 .. 16 : re[i] # 0
  <2>1. re = [i \in 1 .. 16 |-> re[i]]
    BY <1>3 DEF Registers
  <2> QED
    BY <1>7, <2>1 DEF Zero
<1>10. rd[i] \in Bit /\ re[i] \in Bit
  BY <1>3 DEF Registers
<1>11. XorBits(rd, re)[i] # rd[i]
  BY <1>8, <1>9, <1>10 DEF Bit
<1> QED
  BY <1>4, <1>5, <1>6, <1>11 DEF x

\* In a block of any length, noise that stays within sixteen bits in a row
\* never passes the CRC16 that SdCardReadDataBlockSpi compares.
THEOREM BurstsAreSeen ==
  ASSUME NEW L \in Nat, L % 8 = 0, NEW d \in Registers(L), NEW e \in Registers(L),
         NEW j \in 1 .. L, e[j] = 1, \A i \in 1 .. L : e[i] # 0 => i \in j .. j + 15
  PROVE  SdCardCalculateCrc16(XorBits(d, e)) # Remainder(Poly16, d)
<1>1. \A k \in Nat \ {0} : \A gen \in Registers(k) :
        gen[k] = 1 /\ (\A i \in 1 .. L : e[i] # 0 => i \in j .. j + (k - 1))
          => Remainders(gen, e)[L] # Zero(k)
  BY BurstLeaves
<1>2. 16 \in Nat \ {0} /\ Poly16 \in Registers(16) /\ Poly16[16] = 1
  BY Poly16Bits
<1>3. \A i \in 1 .. L : e[i] # 0 => i \in j .. j + (16 - 1)
  OBVIOUS
<1>4. Remainders(Poly16, e)[L] # Zero(16)
  BY <1>1, <1>2, <1>3, Zenon
<1> QED
  BY <1>4, LeftIsSeen

\* Nor do two wrong bits that are up to 23 bits apart: those of a block of
\* three bytes, wherever they are.
THEOREM PairsAreSeen ==
  ASSUME NEW L \in Nat, L % 8 = 0, NEW d \in Registers(L), NEW e \in Registers(L),
         NEW j \in 1 .. L, NEW m \in 1 .. L, m - j \in 0 .. 23, e[j] = 1, e[m] = 1,
         \A i \in 1 .. L : i \notin {j, m} => e[i] = 0
  PROVE  SdCardCalculateCrc16(XorBits(d, e)) # Remainder(Poly16, d)
<1>1. CASE m - j \in 0 .. 15
  <2>1. \A i \in 1 .. L : e[i] # 0 => i \in j .. j + 15
    BY <1>1
  <2> QED
    BY <2>1, BurstsAreSeen
<1>2. CASE m - j \in 16 .. 23
  BY <1>2, PairLeaves, LeftIsSeen
<1> QED
  BY <1>1, <1>2

-----------------------------------------------------------------------------
(* Odd numbers of errors                                                   *)

\* How many bits of a register are set, by fours.
Four(r, k) == ((r[k + 1] + r[k + 2]) + r[k + 3]) + r[k + 4]

BitsSet(r) == ((Four(r, 0) + Four(r, 4)) + Four(r, 8)) + Four(r, 12)

LEMMA BitsSetType == ASSUME NEW r \in Registers(16) PROVE BitsSet(r) \in Int
<1>1. \A i \in 1 .. 16 : r[i] \in Int
  BY DEF Registers, Bit
<1>2. \A k \in 0 .. 12 : Four(r, k) \in Int
  BY <1>1 DEF Four
<1> QED
  BY <1>2 DEF BitsSet

\* The terms of x^16 + x^12 + x^5 + 1 are four, so a turn of the division
\* keeps the parity of the register and the bits divided so far.
LEMMA ParityTurn ==
  ASSUME NEW r \in Registers(16), NEW b \in Bit
  PROVE  BitsSet(Divide(r, b, Poly16)) % 2 = (BitsSet(r) + b) % 2
<1> DEFINE s == Divide(r, b, Poly16)
<1>1. Poly16 \in Registers(16) /\ 16 \in Nat \ {0}
        /\ \A i \in 1 .. 16 : Poly16[i] = IF i \in {4, 11, 16} THEN 1 ELSE 0
  BY Poly16Bits
<1>2. Len(Poly16) = 16
  BY <1>1 DEF Registers
<1>3. \A k \in Nat \ {0} : \A gen \in Registers(k), q \in Registers(k), c \in Bit :
        \A i \in 1 .. k : Divide(q, c, gen)[i] = Divided(q, c, gen, i)
  BY DivideBits
<1>4. \A i \in 1 .. 16 : s[i] = Divided(r, b, Poly16, i)
  BY <1>1, <1>3, Zenon
<1> HIDE DEF s
<1>5. r[1] \in Bit /\ \A i \in 1 .. 16 : r[i] \in Bit
  BY DEF Registers
<1>6. \A i \in 1 .. 15 : r[i + 1] \in Bit
  BY <1>5
<1>7. \A i \in 1 .. 16 : r[i] \in Int
  BY <1>5 DEF Bit
<1>8. BitsSet(r) \in Int
  BY BitsSetType
<1>9. Four(r, 0) \in Int /\ Four(r, 4) \in Int /\ Four(r, 8) \in Int /\ Four(r, 12) \in Int
  BY <1>7 DEF Four
<1>10. CASE r[1] = b
  <2>1. s[16] = 0 /\ \A i \in 1 .. 15 : s[i] = r[i + 1]
    BY <1>1, <1>2, <1>4, <1>6, <1>10 DEF Divided, Bit
  <2>2. /\ s[1] = r[2] /\ s[2] = r[3] /\ s[3] = r[4] /\ s[4] = r[5]
        /\ s[5] = r[6] /\ s[6] = r[7] /\ s[7] = r[8] /\ s[8] = r[9]
        /\ s[9] = r[10] /\ s[10] = r[11] /\ s[11] = r[12] /\ s[12] = r[13]
        /\ s[13] = r[14] /\ s[14] = r[15] /\ s[15] = r[16] /\ s[16] = 0
    BY <2>1
  <2>3. BitsSet(s) = BitsSet(r) - b
    <3>1. /\ Four(s, 0) = (Four(r, 0) - r[1]) + r[5] /\ Four(s, 4) = (Four(r, 4) - r[5]) + r[9]
          /\ Four(s, 8) = (Four(r, 8) - r[9]) + r[13] /\ Four(s, 12) = Four(r, 12) - r[13]
      BY <1>7, <2>2 DEF Four
    <3> QED
      BY <1>10, <1>7, <1>9, <3>1 DEF BitsSet
  <2>4. (BitsSet(r) - b) % 2 = (BitsSet(r) + b) % 2
    BY <1>8 DEF Bit
  <2> QED
    BY <2>3, <2>4 DEF s
<1>11. CASE r[1] # b
  <2>1. /\ s[16] = 1 /\ s[4] = 1 - r[5] /\ s[11] = 1 - r[12]
        /\ \A i \in 1 .. 15 : i \notin {4, 11} => s[i] = r[i + 1]
    BY <1>1, <1>2, <1>4, <1>6, <1>11 DEF Divided, Bit
  <2>2. b = 1 - r[1] /\ b \in Int
    BY <1>5, <1>11 DEF Bit
  <2>3. PICK x \in Int : x = 1 - (r[5] + r[12])
    BY <1>7
  <2>4. /\ s[1] = r[2] /\ s[2] = r[3] /\ s[3] = r[4] /\ s[4] = 1 - r[5]
        /\ s[5] = r[6] /\ s[6] = r[7] /\ s[7] = r[8] /\ s[8] = r[9]
        /\ s[9] = r[10] /\ s[10] = r[11] /\ s[11] = 1 - r[12] /\ s[12] = r[13]
        /\ s[13] = r[14] /\ s[14] = r[15] /\ s[15] = r[16] /\ s[16] = 1
    BY <2>1
  <2>5. BitsSet(s) = (BitsSet(r) + b) + 2 * x
    <3>1. /\ Four(s, 0) = (Four(r, 0) - r[1]) + (1 - r[5])
          /\ Four(s, 4) = (Four(r, 4) - r[5]) + r[9]
          /\ Four(s, 8) = (Four(r, 8) - r[9]) + ((r[13] + 1) - 2 * r[12])
          /\ Four(s, 12) = (Four(r, 12) - r[13]) + 1
      BY <1>7, <2>4 DEF Four
    <3>2. ((((Four(r, 0) - r[1]) + (1 - r[5])) + ((Four(r, 4) - r[5]) + r[9]))
             + ((Four(r, 8) - r[9]) + ((r[13] + 1) - 2 * r[12])))
            + ((Four(r, 12) - r[13]) + 1) = (BitsSet(r) + (1 - r[1])) + 2 * (1 - (r[5] + r[12]))
      BY <1>7, <1>9 DEF BitsSet
    <3>3. BitsSet(s) = ((((Four(r, 0) - r[1]) + (1 - r[5])) + ((Four(r, 4) - r[5]) + r[9]))
             + ((Four(r, 8) - r[9]) + ((r[13] + 1) - 2 * r[12])))
            + ((Four(r, 12) - r[13]) + 1)
      BY <3>1, Zenon DEF BitsSet
    <3> QED
      BY <2>2, <2>3, <3>2, <3>3
  <2>6. \A m, y \in Int : (m + 2 * y) % 2 = m % 2
    OBVIOUS
  <2>7. ((BitsSet(r) + b) + 2 * x) % 2 = (BitsSet(r) + b) % 2
    BY <1>8, <2>2, <2>6
  <2> QED
    BY <2>5, <2>7 DEF s
<1> QED
  BY <1>10, <1>11

\* The wrong bits among the first n.
Wrong(e, n) == {i \in 1 .. n : e[i] = 1}

LEMMA OneMore ==
  ASSUME NEW L \in Nat, NEW e \in Registers(L), NEW n \in 0 .. L - 1
  PROVE  /\ IsFiniteSet(Wrong(e, n)) /\ Cardinality(Wrong(e, n)) \in Nat
         /\ Cardinality(Wrong(e, n + 1)) = Cardinality(Wrong(e, n)) + e[n + 1]
<1>1. IsFiniteSet(Wrong(e, n))
  <2>1. IsFiniteSet(1 .. n)
    BY FS_Interval
  <2> QED
    BY <2>1, FS_Subset DEF Wrong
<1>2. Cardinality(Wrong(e, n)) \in Nat
  BY <1>1, FS_CardinalityType
<1>3. CASE e[n + 1] = 1
  <2>1. Wrong(e, n + 1) = Wrong(e, n) \union {n + 1} /\ n + 1 \notin Wrong(e, n)
    BY <1>3 DEF Wrong
  <2> QED
    BY <1>1, <1>2, <1>3, <2>1, FS_AddElement
<1>4. CASE e[n + 1] = 0
  <2>1. Wrong(e, n + 1) = Wrong(e, n)
    BY <1>4 DEF Wrong
  <2> QED
    BY <1>1, <1>2, <1>4, <2>1
<1>5. e[n + 1] \in Bit
  BY DEF Registers
<1> QED
  BY <1>1, <1>2, <1>3, <1>4, <1>5 DEF Bit

\* Any odd number of wrong bits is seen too, in a block of any length and
\* wherever they are.
THEOREM OddErrorsAreSeen ==
  ASSUME NEW L \in Nat, L % 8 = 0, NEW d \in Registers(L), NEW e \in Registers(L),
         Cardinality({i \in 1 .. L : e[i] = 1}) % 2 = 1
  PROVE  SdCardCalculateCrc16(XorBits(d, e)) # Remainder(Poly16, d)
<1> DEFINE r == Remainders(Poly16, e)
           S == {n \in 0 .. L : BitsSet(r[n]) % 2 = Cardinality(Wrong(e, n)) % 2}
<1>1. Poly16 \in Registers(16) /\ 16 \in Nat \ {0}
  BY Poly16Bits
<1>2. /\ r \in [0 .. L -> Registers(16)] /\ r[0] = Zero(16)
      /\ \A n \in 1 .. L : r[n] = Divide(r[n - 1], e[n], Poly16)
  <2>1. \A k \in Nat \ {0} : \A gen \in Registers(k) :
          /\ Remainders(gen, e) \in [0 .. L -> Registers(k)]
          /\ Remainders(gen, e)[0] = Zero(k)
          /\ \A n \in 1 .. L : Remainders(gen, e)[n] = Divide(Remainders(gen, e)[n - 1], e[n], gen)
    BY RemaindersUnfold
  <2> QED
    BY <1>1, <2>1, Zenon
<1>3. BitsSet(Zero(16)) = 0
  BY DEF BitsSet, Four, Zero
<1> HIDE DEF r
<1>4. 0 \in S
  <2>1. Wrong(e, 0) = {}
    BY DEF Wrong
  <2>2. Cardinality({}) = 0 /\ 0 \in 0 .. L
    BY FS_EmptySet
  <2> QED
    BY <1>2, <1>3, <2>1, <2>2
<1>5. ASSUME NEW n \in 0 .. L - 1, n \in S PROVE n + 1 \in S
  <2>1. e[n + 1] \in Bit /\ r[n] \in Registers(16) /\ r[n + 1] = Divide(r[n], e[n + 1], Poly16)
    BY <1>2 DEF Registers
  <2>2. BitsSet(r[n + 1]) % 2 = (BitsSet(r[n]) + e[n + 1]) % 2
    BY <2>1, ParityTurn
  <2>3. BitsSet(r[n]) \in Int
    BY <2>1, BitsSetType
  <2>4. /\ Cardinality(Wrong(e, n)) \in Nat
        /\ Cardinality(Wrong(e, n + 1)) = Cardinality(Wrong(e, n)) + e[n + 1]
    BY OneMore
  <2>5. BitsSet(r[n]) % 2 = Cardinality(Wrong(e, n)) % 2
    BY <1>5
  <2>6. (BitsSet(r[n]) + e[n + 1]) % 2 = (Cardinality(Wrong(e, n)) + e[n + 1]) % 2
    BY <2>1, <2>3, <2>4, <2>5 DEF Bit
  <2> QED
    BY <2>2, <2>4, <2>6
<1> HIDE DEF S
<1>6. 0 .. L \subseteq S
  BY <1>4, <1>5, UpTo
<1>7. BitsSet(r[L]) % 2 = 1
  BY <1>6 DEF S, Wrong
<1>8. r[L] # Zero(16)
  BY <1>3, <1>7
<1> QED
  BY <1>8, LeftIsSeen DEF r

-----------------------------------------------------------------------------
(* The CSD register                                                        *)

LEMMA FieldUnfold ==
  ASSUME NEW M \in Nat, NEW csd \in [0 .. M -> Bit],
         NEW hi \in 0 .. M, NEW lo \in 0 .. M, lo <= hi
  PROVE  \E v \in [lo .. hi -> Nat] :
           /\ Field(csd, hi, lo) = v[lo]
           /\ v[hi] = csd[hi]
           /\ \A k \in lo .. hi - 1 : v[k] = csd[k] + 2 * v[k + 1]
<1> DEFINE body(g) == [k \in lo .. hi |-> csd[k] + (IF k = hi THEN 0 ELSE 2 * g[k + 1])]
           v    == CHOOSE g : g = body(g)
           N    == hi - lo
           V    == Nat
           step == [x \in (1 .. N) \X V |-> csd[hi - x[1]] + 2 * x[2]]
<1>1. Field(csd, hi, lo) = v[lo]
  BY Zenon DEF Field
<1>2. \A k \in lo .. hi : csd[k] \in V
  BY DEF Bit
<1>3. N \in Nat /\ \A n \in 0 .. N : hi - n \in lo .. hi
  OBVIOUS
<1>4. step \in [(1 .. N) \X V -> V]
  <2>1. ASSUME NEW x \in (1 .. N) \X V PROVE csd[hi - x[1]] + 2 * x[2] \in V
    <3>1. x[1] \in 1 .. N /\ x[2] \in Nat
      OBVIOUS
    <3> QED
      BY <1>2, <3>1
  <2> QED
    BY <2>1
<1> HIDE DEF step, V, N
<1>5. PICK g \in [0 .. N -> V] :
        g[0] = csd[hi] /\ \A n \in 1 .. N : g[n] = step[<<n, g[n - 1]>>]
  <2>1. csd[hi] \in V
    BY <1>2, <1>3
  <2>2. Unwinds(N, V, csd[hi], step)
    BY <1>3, <1>4, <2>1, Recursion
  <2> QED
    BY <2>2 DEF Unwinds
<1>6. ASSUME NEW n \in 1 .. N PROVE g[n] = csd[hi - n] + 2 * g[n - 1]
  <2>1. <<n, g[n - 1]>> \in (1 .. N) \X V
    BY <1>3
  <2>2. step[<<n, g[n - 1]>>] = csd[hi - n] + 2 * g[n - 1]
    BY <2>1 DEF step
  <2> QED
    BY <1>5, <2>2
<1> DEFINE f == [k \in lo .. hi |-> g[hi - k]]
<1>7. f = body(f)
  <2> SUFFICES ASSUME NEW k \in lo .. hi
               PROVE  g[hi - k] = csd[k] + (IF k = hi THEN 0 ELSE 2 * f[k + 1])
    OBVIOUS
  <2>1. CASE k = hi
    <3>1. csd[hi] \in Nat
      BY <1>2 DEF V
    <3> QED
      BY <1>5, <2>1, <3>1
  <2>2. CASE k # hi
    <3>1. hi - k \in 1 .. N /\ hi - (hi - k) = k /\ hi - (k + 1) = (hi - k) - 1 /\ k + 1 \in lo .. hi
      BY <2>2 DEF N
    <3>2. g[hi - k] = csd[hi - (hi - k)] + 2 * g[(hi - k) - 1]
      BY <1>6, <3>1
    <3>3. f[k + 1] = g[hi - (k + 1)]
      BY <3>1
    <3> HIDE DEF f
    <3> QED
      BY <2>2, <3>1, <3>2, <3>3
  <2> QED
    BY <2>1, <2>2
<1> HIDE DEF f
<1>8. v = body(v)
  BY <1>7, Zenon
<1> HIDE DEF v
<1>9. v[hi] = csd[hi]
  <2>1. csd[hi] \in Nat /\ hi \in lo .. hi
    BY <1>2 DEF V
  <2>2. v[hi] = csd[hi] + 0
    BY <1>8, <2>1
  <2> QED
    BY <2>1, <2>2
<1>10. ASSUME NEW k \in lo .. hi - 1 PROVE v[k] = csd[k] + 2 * v[k + 1]
  <2>1. k \in lo .. hi /\ k # hi
    OBVIOUS
  <2> QED
    BY <1>8, <2>1
<1>11. \A k \in lo .. hi : v[k] \in Nat
  <2> DEFINE S == {n \in 0 .. N : v[hi - n] \in Nat}
  <2>1. 0 \in S
    BY <1>2, <1>3, <1>9 DEF V
  <2>2. ASSUME NEW n \in 0 .. N - 1, n \in S PROVE n + 1 \in S
    <3>1. hi - (n + 1) \in lo .. hi - 1 /\ hi - (n + 1) + 1 = hi - n /\ n + 1 \in 0 .. N
      BY DEF N
    <3>2. v[hi - (n + 1)] = csd[hi - (n + 1)] + 2 * v[hi - n] /\ csd[hi - (n + 1)] \in Nat
      BY <1>2, <1>10, <3>1 DEF V
    <3>3. v[hi - n] \in Nat
      BY <2>2
    <3> QED
      BY <3>1, <3>2, <3>3
  <2> HIDE DEF S
  <2>3. 0 .. N \subseteq S
    BY <1>3, <2>1, <2>2, UpTo
  <2> SUFFICES ASSUME NEW k \in lo .. hi PROVE v[k] \in Nat
    OBVIOUS
  <2>4. hi - k \in 0 .. N /\ hi - (hi - k) = k
    BY DEF N
  <2>5. hi - k \in S
    BY <2>3, <2>4
  <2> QED
    BY <2>4, <2>5 DEF S
<1>12. v = [k \in lo .. hi |-> v[k]]
  BY <1>8
<1>13. v \in [lo .. hi -> Nat]
  BY <1>11, <1>12
<1> QED
  BY <1>1, <1>9, <1>10, <1>13

\* A field is a number, below eight if it has three bits and below sixteen
\* if it has four.
LEMMA FieldType ==
  ASSUME NEW M \in Nat, NEW csd \in [0 .. M -> Bit],
         NEW hi \in 0 .. M, NEW lo \in 0 .. M, lo <= hi
  PROVE  /\ Field(csd, hi, lo) \in Nat
         /\ hi = lo + 2 => Field(csd, hi, lo) \in 0 .. 7
         /\ hi = lo + 3 => Field(csd, hi, lo) \in 0 .. 15
<1>1. PICK v \in [lo .. hi -> Nat] :
        /\ Field(csd, hi, lo) = v[lo]
        /\ v[hi] = csd[hi]
        /\ \A k \in lo .. hi - 1 : v[k] = csd[k] + 2 * v[k + 1]
  BY FieldUnfold
<1>2. \A k \in lo .. hi : csd[k] \in 0 .. 1
  BY DEF Bit
<1>3. v[lo] \in Nat
  OBVIOUS
<1>4. ASSUME hi = lo + 2 PROVE v[lo] \in 0 .. 7
  <2>1. lo \in lo .. hi - 1 /\ lo + 1 \in lo .. hi - 1 /\ lo + 1 + 1 = hi
    BY <1>4
  <2>2. v[lo] = csd[lo] + 2 * v[lo + 1] /\ v[lo + 1] = csd[lo + 1] + 2 * v[hi]
    BY <1>1, <2>1
  <2>3. csd[lo] \in 0 .. 1 /\ csd[lo + 1] \in 0 .. 1 /\ v[hi] \in 0 .. 1
    BY <1>1, <1>2, <2>1
  <2> QED
    BY <2>2, <2>3
<1>5. ASSUME hi = lo + 3 PROVE v[lo] \in 0 .. 15
  <2>1. lo \in lo .. hi - 1 /\ lo + 1 \in lo .. hi - 1 /\ lo + 2 \in lo .. hi - 1
          /\ lo + 1 + 1 = lo + 2 /\ lo + 2 + 1 = hi
    BY <1>5
  <2>2. /\ v[lo] = csd[lo] + 2 * v[lo + 1] /\ v[lo + 1] = csd[lo + 1] + 2 * v[lo + 2]
        /\ v[lo + 2] = csd[lo + 2] + 2 * v[hi]
    BY <1>1, <2>1
  <2>3. csd[lo] \in 0 .. 1 /\ csd[lo + 1] \in 0 .. 1 /\ csd[lo + 2] \in 0 .. 1 /\ v[hi] \in 0 .. 1
    BY <1>1, <1>2, <2>1
  <2>4. /\ \A b, x \in 0 .. 1 : b + 2 * x \in 0 .. 3
        /\ \A b \in 0 .. 1, x \in 0 .. 3 : b + 2 * x \in 0 .. 7
        /\ \A b \in 0 .. 1, x \in 0 .. 7 : b + 2 * x \in 0 .. 15
    OBVIOUS
  <2>5. v[lo + 2] \in 0 .. 3
    BY <2>2, <2>3, <2>4
  <2>6. v[lo + 1] \in 0 .. 7
    BY <2>2, <2>3, <2>4, <2>5, Zenon
  <2> QED
    BY <2>2, <2>3, <2>4, <2>6, Zenon
<1> QED
  BY <1>1, <1>3, <1>4, <1>5

LEMMA StandardBlocksType ==
  ASSUME NEW cSize \in Nat, NEW mult \in 0 .. 7, NEW len \in 0 .. 15
  PROVE  StandardBlocks(cSize, mult, len) \in Nat
<1>1. mult + 2 \in 0 .. 15
  OBVIOUS
<1> DEFINE a == 2^(mult + 2)
           b == 2^len
<1>2. a \in Nat /\ b \in Nat
  BY <1>1, Powers
<1> HIDE DEF a, b
<1>3. \A x, y \in Nat : x * y \in Nat
  OBVIOUS
<1>4. (cSize + 1) * a * b \in Nat
  <2>1. cSize + 1 \in Nat
    OBVIOUS
  <2>2. (cSize + 1) * a \in Nat
    BY <1>2, <1>3, <2>1
  <2> QED
    BY <1>2, <1>3, <2>2
<1>5. \A n \in Nat : n \div 512 \in Nat
  OBVIOUS
<1>6. StandardBlocks(cSize, mult, len) = ((cSize + 1) * a * b) \div 512
  BY DEF StandardBlocks, a, b
<1> QED
  BY <1>4, <1>5, <1>6

\* Whatever the CSD register holds, DriverLib.c parses it to a capacity or
\* refuses it.
LEMMA ParsedType ==
  ASSUME NEW csd \in [0 .. 127 -> Bit]
  PROVE  SdCardParseCsdRegister(csd) \in
           [st : {"SUCCESS", "UNSUPPORTED"}, high : BOOLEAN, blocks : Nat]
<1>1. \A hi, lo \in 0 .. 127 : lo <= hi =>
        /\ Field(csd, hi, lo) \in Nat
        /\ hi = lo + 2 => Field(csd, hi, lo) \in 0 .. 7
        /\ hi = lo + 3 => Field(csd, hi, lo) \in 0 .. 15
  <2>1. 127 \in Nat
    OBVIOUS
  <2>2. \A M \in Nat : csd \in [0 .. M -> Bit] => \A hi, lo \in 0 .. M : lo <= hi =>
          /\ Field(csd, hi, lo) \in Nat
          /\ hi = lo + 2 => Field(csd, hi, lo) \in 0 .. 7
          /\ hi = lo + 3 => Field(csd, hi, lo) \in 0 .. 15
    BY FieldType
  <2> QED
    BY <2>1, <2>2, Zenon
<1>2. Field(csd, 73, 62) \in Nat /\ Field(csd, 49, 47) \in 0 .. 7
        /\ Field(csd, 83, 80) \in 0 .. 15 /\ Field(csd, 69, 48) \in Nat
  BY <1>1
<1>3. StandardCapacity(csd) \in Nat
  BY <1>2, StandardBlocksType DEF StandardCapacity
<1>4. HighCapacity(csd) \in Nat
  BY <1>2 DEF HighCapacity
<1> QED
  BY <1>3, <1>4 DEF SdCardParseCsdRegister, Parsed, Refused

LEMMA WordType ==
  ASSUME NEW csd \in [0 .. 127 -> Bit], NEW shift \in {0, 8}, NEW w \in 0 .. 3
  PROVE  Word(csd, shift, w) \in [0 .. 31 -> Bit]
<1> SUFFICES ASSUME NEW k \in 0 .. 31
             PROVE  LET b == 32 * w + shift + Swapped(k)
                    IN (IF b > 127 THEN 0 ELSE csd[b]) \in Bit
  BY DEF Word
<1>1. Swapped(k) \in Nat
  <2>1. k \div 8 \in 0 .. 3 /\ k % 8 \in Nat
    OBVIOUS
  <2> QED
    BY <2>1 DEF Swapped
<1>2. 32 * w + shift + Swapped(k) \in Nat
  BY <1>1
<1> QED
  BY <1>2 DEF Bit

\* So does the parser of HostIo.c, whatever part of the register a response
\* holds.
LEMMA HostParsedType ==
  ASSUME NEW csd \in [0 .. 127 -> Bit], NEW shift \in {0, 8}
  PROVE  ParseCsdRegister(csd, shift) \in
           [st : {"SUCCESS", "UNSUPPORTED"}, high : BOOLEAN, blocks : Nat]
<1> DEFINE word2 == Word(csd, shift, 2)
           word3 == Word(csd, shift, 3)
<1>1. word2 \in [0 .. 31 -> Bit] /\ word3 \in [0 .. 31 -> Bit]
  BY WordType
<1> HIDE DEF word2, word3
<1>2. \A word \in [0 .. 31 -> Bit] : \A hi, lo \in 0 .. 31 : lo <= hi =>
        /\ Field(word, hi, lo) \in Nat
        /\ hi = lo + 2 => Field(word, hi, lo) \in 0 .. 7
        /\ hi = lo + 3 => Field(word, hi, lo) \in 0 .. 15
  <2>1. 31 \in Nat
    OBVIOUS
  <2>2. \A M \in Nat : \A word \in [0 .. M -> Bit] : \A hi, lo \in 0 .. M : lo <= hi =>
          /\ Field(word, hi, lo) \in Nat
          /\ hi = lo + 2 => Field(word, hi, lo) \in 0 .. 7
          /\ hi = lo + 3 => Field(word, hi, lo) \in 0 .. 15
    BY FieldType
  <2> QED
    BY <2>1, <2>2, Zenon
<1>3. /\ Field(word3, 13, 12) \in Nat /\ Field(word3, 9, 0) \in Nat
      /\ Field(word2, 9, 7) \in 0 .. 7 /\ Field(word2, 19, 16) \in 0 .. 15
      /\ Field(word3, 27, 6) \in Nat
  BY <1>1, <1>2
<1>4. 1024 * Field(word3, 13, 12) + Field(word3, 9, 0) \in Nat
  BY <1>3
<1>5. StandardBlocks(1024 * Field(word3, 13, 12) + Field(word3, 9, 0),
                     Field(word2, 9, 7), Field(word2, 19, 16)) \in Nat
  <2> DEFINE size == 1024 * Field(word3, 13, 12) + Field(word3, 9, 0)
             mult == Field(word2, 9, 7)
             len  == Field(word2, 19, 16)
  <2>1. size \in Nat /\ mult \in 0 .. 7 /\ len \in 0 .. 15
    BY <1>3, <1>4
  <2> HIDE DEF size, mult, len
  <2>2. StandardBlocks(size, mult, len) \in Nat
    BY <2>1, StandardBlocksType
  <2> QED
    BY <2>2 DEF size, mult, len
<1>6. ((Field(word3, 27, 6) + 1) % 2^22) * 1024 \in Nat
  <2>1. 2^22 = 4194304
    OBVIOUS
  <2> QED
    BY <1>3, <2>1
<1> QED
  BY <1>5, <1>6 DEF ParseCsdRegister, Parsed, Refused, word2, word3
=============================================================================
