------------------------------ MODULE MCAT24C02 ------------------------------
(***************************************************************************)
(* AT24C02 for TLC: bytes of three bits, in which 100 and 101 address the  *)
(* chip, as 0xA0 and 0xA1 do in eight.                                     *)
(***************************************************************************)
EXTENDS AT24C02

\* 5 is the chip's address for reading: as data it must not be taken for one.
MCBuffers == {<< >>, <<5>>, <<5, 6>>}
MCProbeBuffers == {<<5>>, <<6, 5>>}
=============================================================================
