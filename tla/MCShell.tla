------------------------------- MODULE MCShell -------------------------------
(***************************************************************************)
(* Shell for TLC: two commands with a common beginning and the reset, and  *)
(* a heap that is full one line after the count has passed HOIS_SIZE.  The *)
(* blocks but the first are alike.                                         *)
(***************************************************************************)
EXTENDS Shell

CONSTANTS head, b1, b2, b3, a, b

MCNames == {<<a, a>>, <<a, b>>, <<b>>}
MCReset == <<b>>
MCStray == << >>
MCEntries == MCNames \cup {MCStray}
Symmetry == Permutations({b1, b2, b3})
=============================================================================
