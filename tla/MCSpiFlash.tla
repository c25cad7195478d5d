----------------------------- MODULE MCSpiFlash ------------------------------
(***************************************************************************)
(* SpiFlash for TLC: two sectors of two pages of two bytes; buffers of a   *)
(* byte to more than a page.                                               *)
(***************************************************************************)
EXTENDS SpiFlash

CONSTANTS d1, d2

MCBuffers == {<<d1>>, <<FF, FF>>, <<d1, d2>>, <<d2, d1, d1>>}
=============================================================================
