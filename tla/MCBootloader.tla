----------------------------- MODULE MCBootloader -----------------------------
(***************************************************************************)
(* Bootloader for TLC: sectors and packets of two half-words, images of    *)
(* two sectors, the vector in the second half-word.                        *)
(***************************************************************************)
EXTENDS Bootloader

\* Bitwise or of numbers below 16.
MCOr(m, n) == LET bit(k, b) == (k \div b) % 2
                  part(b) == IF bit(m, b) + bit(n, b) > 0 THEN b ELSE 0
              IN  part(1) + part(2) + part(4) + part(8)

MCUint32 == 0 .. 15

CONSTANTS A, B
BytesAB == [v \in {A, B} |-> IF v = A THEN 12 ELSE 7]
=============================================================================
