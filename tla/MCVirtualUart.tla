---------------------------- MODULE MCVirtualUart ----------------------------
(***************************************************************************)
(* VirtualUart for TLC: frames of three data bits.  The host sends the two *)
(* ends of a line, the zero byte and one letter; frames read from the      *)
(* middle give the other patterns too.                                     *)
(***************************************************************************)
EXTENDS VirtualUart

MCCR == <<1, 0, 1>>
MCLF == <<0, 1, 0>>
MCNUL == <<0, 0, 0>>
MCChars == {MCCR, MCLF, MCNUL, <<0, 1, 1>>}
=============================================================================
