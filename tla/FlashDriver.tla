------------------------------ MODULE FlashDriver ------------------------------
(***************************************************************************)
(* The driver of the internal flash (flash.c): flash_write reads a sector, *)
(* erases it if the words to be written are not all erased, and programs   *)
(* it back half-word by half-word, sector after sector.  Between any two   *)
(* operations of the flash the power may go; an operation may fail, which  *)
(* latches an error bit nothing clears, or be given up by the timeout.     *)
(*                                                                         *)
(* Addresses count half-words from FLASH_BASE: callers pass even ones.     *)
(***************************************************************************)
EXTENDS Integers, Sequences

CONSTANTS
  SectorWords,        \* SECTOR_SIZE / 2
  Sectors,            \* sectors of the first bank
  BANK1,              \* the sectors flash_write admits
  Words, FFFF,        \* values of a half-word, and the erased one
  Buffers,            \* what callers write
  MaxCalls, MaxFaults, MaxReboots

ASSUME GeometryAssumption ==
  /\ SectorWords \in Nat \ {0} /\ Sectors \in Nat \ {0}
  /\ BANK1 \in 0 .. Sectors
  /\ FFFF \in Words /\ Buffers \subseteq Seq(Words)
  /\ MaxCalls \in Nat /\ MaxFaults \in Nat /\ MaxReboots \in Nat

Cells == 0 .. Sectors * SectorWords - 1
SectorIds == 0 .. Sectors - 1
SectorOf(c) == c \div SectorWords
SectorRead(f, s) == [k \in 0 .. SectorWords - 1 |-> f[s * SectorWords + k]]

VARIABLES
  pc,           \* where flash_write is
  addr, buf,    \* its arguments: what remains to be written, and where to
  secpos, secoff, secremain,
  base, page,   \* the arguments of Flash_WritePageWord
  i,            \* and its loop index
  flash,
  sts,          \* FLASH->STS: PRGMFLR or WRPRTFLR is set
  before, goal, \* history: the flash at the call, and with the call done
  clean,        \* history: no operation of this call failed, no power loss
  refused,      \* history: the call was out of range
  calls, faults, reboots

args == <<addr, buf, secpos, secoff, secremain>>
writer == <<base, page, i>>
history == <<before, goal, refused>>
counters == <<calls, faults, reboots>>
vars == <<pc, args, writer, flash, sts, history, clean, counters>>

\* Types; among them that flash_write's position stays inside the bank and its
\* page index inside the page, over every split of a buffer into sectors.
TypeOK ==
  /\ pc \in {"idle", "scan", "erase", "program"}
  /\ addr \in Cells \cup {Sectors * SectorWords} /\ buf \in Seq(Words)
  /\ secpos \in SectorIds /\ secoff \in 0 .. SectorWords - 1
  /\ secremain \in 0 .. SectorWords
  /\ base \in Cells /\ page \in Seq(Words) /\ i \in 0 .. Len(page)
  /\ flash \in [Cells -> Words] /\ before \in [Cells -> Words]
  /\ goal \in [Cells -> Words]
  /\ sts \in BOOLEAN /\ clean \in BOOLEAN /\ refused \in BOOLEAN
  /\ calls \in 0 .. MaxCalls /\ faults \in 0 .. MaxFaults
  /\ reboots \in 0 .. MaxReboots

Init ==
  /\ pc = "idle" /\ addr = 0 /\ buf = << >>
  /\ secpos = 0 /\ secoff = 0 /\ secremain = 0
  /\ base = 0 /\ page = << >> /\ i = 0
  /\ flash \in [Cells -> Words] /\ before = flash /\ goal = flash
  /\ sts = FALSE /\ clean = TRUE /\ refused = FALSE
  /\ calls = 0 /\ faults = 0 /\ reboots = 0

Smaller(m, n) == IF m <= n THEN m ELSE n

\* secremain: the words of n that fit between a and the end of its sector
Remain(a, n) == Smaller(n, SectorWords - (a % SectorWords))

Overwrite(f, a, b) ==
  [c \in Cells |-> IF a <= c /\ c < a + Len(b) THEN b[c - a + 1] ELSE f[c]]

\* flash_write asks where a call starts, not where it ends.
InRange(a) == a < BANK1 * SectorWords

\* A call that stays within the bank.
Call(a, b) ==
  /\ pc = "idle" /\ calls < MaxCalls /\ calls' = calls + 1
  /\ a + Len(b) <= Sectors * SectorWords
  /\ before' = flash /\ goal' = Overwrite(flash, a, b)
  /\ refused' = ~InRange(a)
  /\ clean' = ~sts
  /\ IF InRange(a)
     THEN /\ pc' = "scan"
          /\ addr' = a /\ buf' = b
          /\ secpos' = SectorOf(a) /\ secoff' = a % SectorWords
          /\ secremain' = Remain(a, Len(b))
     ELSE UNCHANGED <<pc, args>>
  /\ UNCHANGED <<writer, flash, sts, faults, reboots>>

\* mutant: only the first word is looked at
MutDirty == secremain > 0 /\ flash[secpos * SectorWords + secoff] # FFFF

\* Some word to be written is not erased.
Dirty ==
  \E k \in 0 .. secremain - 1 : flash[secpos * SectorWords + secoff + k] # FFFF

\* FLASH_BUF as it is programmed back: the sector with the new words in it
Merged ==
  [k \in 1 .. SectorWords |->
     IF k > secoff /\ k <= secoff + secremain THEN buf[k - secoff]
     ELSE flash[secpos * SectorWords + k - 1]]

\* flash_read of the sector into FLASH_BUF and the search for a written word.
Scan ==
  /\ pc = "scan"
  /\ i' = 0
  /\ IF Dirty
     THEN pc' = "erase" /\ base' = secpos * SectorWords /\ page' = Merged
     ELSE pc' = "program" /\ base' = addr /\ page' = SubSeq(buf, 1, secremain)
  /\ UNCHANGED <<args, flash, sts, history, clean, counters>>

\* An operation of the flash, Flash_WaitProcess before and behind it: it is
\* skipped while an error is latched, and else done, or given up at the
\* timeout (and done late, or never), or answered with an error.
Operate(done) ==
  \/ sts /\ clean' = FALSE /\ UNCHANGED <<flash, sts, faults>>
  \/ ~sts /\ done /\ UNCHANGED <<sts, clean, faults>>
  \/ /\ ~sts /\ faults < MaxFaults /\ faults' = faults + 1
     /\ clean' = FALSE
     /\ \/ sts' = FALSE /\ done
        \/ sts' \in BOOLEAN /\ UNCHANGED flash

\* mutant: the sector after the one in work is erased
MutErase ==
  /\ pc = "erase" /\ pc' = "program"
  /\ Operate(flash' = [c \in Cells |-> IF SectorOf(c) = (secpos + 1) % Sectors
                                       THEN FFFF ELSE flash[c]])
  /\ UNCHANGED <<args, writer, history, calls, reboots>>

Erase ==
  /\ pc = "erase" /\ pc' = "program"
  /\ Operate(flash' = [c \in Cells |-> IF SectorOf(c) = secpos THEN FFFF ELSE flash[c]])
  /\ UNCHANGED <<args, writer, history, calls, reboots>>

\* mutant: a half-word that met an error is tried again
MutProgram ==
  /\ pc = "program" /\ i < Len(page)
  /\ \/ flash[base + i] = FFFF /\ Operate(flash' = [flash EXCEPT ![base + i] = page[i + 1]])
     \/ /\ flash[base + i] # FFFF /\ clean' = FALSE
        /\ sts' = TRUE /\ UNCHANGED <<flash, faults>>
  /\ i' = IF sts' THEN i ELSE i + 1
  /\ UNCHANGED <<pc, args, base, page, history, calls, reboots>>

\* Flash_WriteHalfWord: a word that is not erased cannot be programmed.
Program ==
  /\ pc = "program" /\ i < Len(page) /\ i' = i + 1
  /\ \/ flash[base + i] = FFFF /\ Operate(flash' = [flash EXCEPT ![base + i] = page[i + 1]])
     \/ /\ flash[base + i] # FFFF /\ clean' = FALSE
        /\ sts' = TRUE /\ UNCHANGED <<flash, faults>>
  /\ UNCHANGED <<pc, args, base, page, history, calls, reboots>>

Written == pc = "program" /\ i = Len(page)

\* mutant: the loop also goes on when len and secremain are equal
MutMore == Len(buf) >= secremain

\* len # secremain
More == Len(buf) # secremain

\* mutant: the start of the buffer is kept
MutRest == SubSeq(buf, 1, Len(buf) - secremain)

\* buf += secremain, len -= secremain
Rest == SubSeq(buf, secremain + 1, Len(buf))

Return ==
  /\ Written /\ ~More
  /\ pc' = "idle"
  /\ UNCHANGED <<args, writer, flash, sts, history, clean, counters>>

NextSector ==
  /\ Written /\ More
  /\ pc' = "scan"
  /\ secpos' = secpos + 1 /\ secoff' = 0
  /\ addr' = addr + secremain
  /\ buf' = Rest
  /\ secremain' = Smaller(Len(buf'), SectorWords)
  /\ UNCHANGED <<writer, flash, sts, history, clean, counters>>

flash_write == Scan \/ Erase \/ Program \/ Return \/ NextSector

\* RAM and the error bits are lost, the flash stays as it is.
PowerLoss ==
  /\ reboots < MaxReboots /\ reboots' = reboots + 1
  /\ pc' = "idle" /\ sts' = FALSE /\ clean' = (clean /\ pc = "idle")
  /\ UNCHANGED <<args, writer, flash, history, calls, faults>>

Next ==
  \/ \E a \in Cells, b \in Buffers : Call(a, b)
  \/ flash_write
  \/ PowerLoss

Spec == Init /\ [][Next]_vars

\* A processor that runs finishes the call: every wait is bounded by TIMEOUT.
FairSpec == Spec /\ WF_vars(flash_write)

-----------------------------------------------------------------------------
(***************************************************************************)
(* The driver never latches an error by itself: it programs no word that   *)
(* is not erased, whatever earlier calls and power losses left in flash.   *)
(***************************************************************************)
NoErrorOfItsOwn == faults = 0 => ~sts

(***************************************************************************)
(* Power may go at any time and as often as it likes: as long as the flash *)
(* works, all sectors but one hold what they held or what they should.     *)
(***************************************************************************)
AtMostOneSectorTorn ==
  faults = 0 =>
    \E s \in SectorIds : \A c \in Cells :
      /\ SectorOf(c) < s => flash[c] = goal[c] \/ refused
      /\ SectorOf(c) > s => flash[c] = before[c]

(***************************************************************************)
(* A call returns whatever fails in it.                                    *)
(***************************************************************************)
Returns == (pc # "idle") ~> (pc = "idle")

-----------------------------------------------------------------------------
(* flash_write implements SectorStore: the sector in work counts as        *)
(* untouched until its last word was programmed.                           *)

InWorkSector(s) == pc # "idle" /\ s = secpos
LastSector == SectorOf(addr + Len(buf) - 1)
ToDo == IF pc = "idle" THEN {} ELSE secpos .. LastSector

Store == INSTANCE SectorStore WITH
  SectorIds <- SectorIds,
  Contents <- [0 .. SectorWords - 1 -> Words],
  store <- [s \in SectorIds |-> SectorRead(IF InWorkSector(s) THEN before ELSE flash, s)],
  job <- [s \in ToDo |-> SectorRead(goal, s)]

(***************************************************************************)
(* Every step of the driver is a step of SectorStore or none.              *)
(***************************************************************************)
ImplementsStore == Store!StoreSpec
=============================================================================
