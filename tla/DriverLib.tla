------------------------------ MODULE DriverLib ------------------------------
(***************************************************************************)
(* The pure helpers of DriverLib.c: the two CRCs, the command frame, the   *)
(* CSD parser and the arithmetic of bounce buffers, with the CSD parser    *)
(* that HostIo.c has of its own.                                           *)
(*                                                                         *)
(* Data on the wire is a sequence of bits, the first one sent first.  A    *)
(* register of the card is a function from the bit numbers of the SD       *)
(* specification, 127 to 0, to bits.                                       *)
(***************************************************************************)
EXTENDS Integers, Sequences

Bits8(n) == [i \in 1 .. 8 |-> (n \div 2^(8 - i)) % 2]

XorBits(a, b) == [i \in DOMAIN a |-> (a[i] + b[i]) % 2]

-----------------------------------------------------------------------------
(* CRC                                                                     *)

Poly7  == Bits8(137)                  \* 0x89
Poly16 == Bits8(16) \o Bits8(33)      \* 0x1021

\* One turn of the inner loop.
CrcShift(crc, poly) ==
  IF Head(crc) = 1 THEN XorBits(Tail(crc) \o <<0>>, poly) ELSE Tail(crc) \o <<0>>

\* A byte that begins with bit n is added to the top of the register.
AddByte(crc, bits, n) ==
  [i \in DOMAIN crc |-> IF n % 8 = 1 /\ i <= 8 THEN (crc[i] + bits[n - 1 + i]) % 2
                                              ELSE crc[i]]

\* The register after each bit of a string of bytes.
CrcRegisters(poly, bits) ==
  LET after[n \in 0 .. Len(bits)] ==
        IF n = 0 THEN [i \in DOMAIN poly |-> 0]
        ELSE CrcShift(AddByte(after[n - 1], bits, n), poly)
  IN after

CrcRegister(poly, bits) == CrcRegisters(poly, bits)[Len(bits)]

SdCardCalculateCrc7(bits)  == Tail(CrcRegister(Poly7, bits)) \o <<1>>
SdCardCalculateCrc16(bits) == CrcRegister(Poly16, bits)

\* The CRC of the SD specification: the remainder of a division by "gen".
Divide(crc, bit, gen) ==
  LET next == Tail(crc) \o <<0>>
  IN IF Head(crc) # bit THEN XorBits(next, gen) ELSE next

Remainders(gen, bits) ==
  LET after[n \in 0 .. Len(bits)] ==
        IF n = 0 THEN [i \in DOMAIN gen |-> 0]
        ELSE Divide(after[n - 1], bits[n], gen)
  IN after

Remainder(gen, bits) == Remainders(gen, bits)[Len(bits)]

\* The frame of command index cmd with the four bytes of its argument.
SdCardPackCommand(cmd, arg) ==
  LET frame == Bits8(64 + cmd) \o Bits8(arg[1]) \o Bits8(arg[2])
                 \o Bits8(arg[3]) \o Bits8(arg[4])
  IN frame \o SdCardCalculateCrc7(frame)

-----------------------------------------------------------------------------
(* The CSD register.  Capacities are in blocks of 512 bytes.               *)

Field(csd, hi, lo) ==
  LET value[k \in lo .. hi] ==
        csd[k] + (IF k = hi THEN 0 ELSE 2 * value[k + 1])
  IN value[lo]

StandardBlocks(cSize, mult, readBlLen) ==
  ((cSize + 1) * 2^(mult + 2) * 2^readBlLen) \div 512

StandardCapacity(csd) ==
  StandardBlocks(Field(csd, 73, 62), Field(csd, 49, 47), Field(csd, 83, 80))

HighCapacity(csd) == (Field(csd, 69, 48) + 1) * 1024

Refused == [st |-> "UNSUPPORTED", high |-> FALSE, blocks |-> 0]
Parsed(high, blocks) == [st |-> "SUCCESS", high |-> high, blocks |-> blocks]

SdCardParseCsdRegister(csd) ==
  IF Field(csd, 127, 126) = 1      THEN Parsed(TRUE, HighCapacity(csd))
  ELSE IF Field(csd, 127, 126) = 0 THEN Parsed(FALSE, StandardCapacity(csd))
  ELSE Refused

(* HostIo.c.  Bit k of word w after SwapBytes32 is bit Swapped(k) of the   *)
(* word Resp<w>, which holds the register from bit 32 * w on, or from bit  *)
(* 32 * w + 8 on if the controller drops the CRC byte ("shift").           *)
Swapped(k) == 8 * (3 - k \div 8) + (k % 8)

Word(csd, shift, w) ==
  [k \in 0 .. 31 |-> LET b == 32 * w + shift + Swapped(k)
                     IN IF b > 127 THEN 0 ELSE csd[b]]

\* Block counts are multiplied in 32 bits: 2^22 * 1024 is 0.
ParseCsdRegister(csd, shift) ==
  LET word2 == Word(csd, shift, 2)
      word3 == Word(csd, shift, 3)
      structure == Field(word3, 19, 18)
  IN  IF structure = 0
      THEN Parsed(FALSE, StandardBlocks(1024 * Field(word3, 13, 12) + Field(word3, 9, 0),
                                        Field(word2, 9, 7), Field(word2, 19, 16)))
      ELSE IF structure = 1
      THEN Parsed(TRUE, ((Field(word3, 27, 6) + 1) % 2^22) * 1024)
      ELSE Refused

-----------------------------------------------------------------------------
(* Bounce buffers                                                          *)

\* For an alignment that is a power of two.
SdCardIsBufferAligned(buffer, alignment) == buffer % alignment = 0

\* Where in the block at address pool the bounce buffer begins.
BounceBufferIn(pool, alignment) ==
  ((pool + alignment - 1) \div alignment) * alignment
=============================================================================
