\* as MCShell.cfg: an entry that is no command
CONSTANTS
  b1 = b1
  b2 = b2
  b3 = b3
  head = head
  a = a
  b = b
  HeadNode = head
  Blocks = {head, b1, b2, b3}
  ESC = ESC
  Bracket = Bracket
  NUL = NUL
  Letters = {a, b, ESC, Bracket, NUL}
  Names <- MCNames
  RESET <- MCReset
  Stray <- MCStray
  Entries <- MCEntries
  HOIS_SIZE = 3
  SIZE = 4
SYMMETRY Symmetry
SPECIFICATION Spec
INVARIANT
  OnlyCommandsKept
CHECK_DEADLOCK FALSE
