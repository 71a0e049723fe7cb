----------------------------- MODULE MCSdCardHost -----------------------------
(* Model checking instances of SdCardHost: the CSD registers of three      *)
(* cards.  V1 and SC have READ_BL_LEN 9, C_SIZE_MULT 2 and C_SIZE 7 (128   *)
(* blocks) and C_SIZE 15 (256 blocks), HC has C_SIZE 4 (5120 blocks).      *)
EXTENDS SdCardHost

\* A field of a register: bits hi to lo hold value.
Holds(b, hi, lo, value) == IF b \in lo .. hi THEN (value \div 2^(b - lo)) % 2 ELSE 0

Standard(cSize) ==
  [b \in 0 .. 127 |-> Holds(b, 83, 80, 9) + Holds(b, 73, 62, cSize) + Holds(b, 49, 47, 2)]

High(cSize) ==
  [b \in 0 .. 127 |-> Holds(b, 127, 126, 1) + Holds(b, 83, 80, 9) + Holds(b, 69, 48, cSize)]

MCCsd == [V1 |-> Standard(7), SC |-> Standard(15), HC |-> High(4)]

MCRcas == {{16}, {24}}
=============================================================================
