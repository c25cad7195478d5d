---------------------------- MODULE MCFlashDriver ----------------------------
(***************************************************************************)
(* FlashDriver for TLC: sectors of two words, buffers of distinct           *)
(* neighbours that reach into a third sector, with erased words in them.   *)
(***************************************************************************)
EXTENDS FlashDriver

CONSTANTS d1, d2

\* From the second word of a sector on, four words end in a third sector.
MCBuffers == {SubSeq(<<d1, d2, FFFF, d2>>, 1, n) : n \in {0, 1, 4}}
=============================================================================
