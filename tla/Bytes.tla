--------------------------------- MODULE Bytes ---------------------------------
(***************************************************************************)
(* The operator ^ of C on bytes.  Bitwise has it, too, but as a RECURSIVE   *)
(* operator, which no theorem may reach.                                   *)
(***************************************************************************)
EXTENDS Integers, FiniteSetsExt

Bit(x, i) == (x \div 2 ^ i) % 2

Xor(x, y) == MapThenSumSet(LAMBDA i : 2 ^ i * ((Bit(x, i) + Bit(y, i)) % 2), 0 .. 7)
=============================================================================
