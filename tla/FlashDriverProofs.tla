--------------------------- MODULE FlashDriverProofs ---------------------------
(***************************************************************************)
(* flash_write, for every geometry of the flash and every buffer: types,   *)
(* no error of its own, and what a power loss costs.                       *)
(***************************************************************************)
EXTENDS FlashDriver, SequenceTheorems, TLAPS

USE GeometryAssumption DEF GeometryAssumption

-----------------------------------------------------------------------------
(* Sectors and cells.                                                      *)

LEMMA Ordered ==
  ASSUME NEW m \in Int, NEW n \in Int, NEW w \in Nat, m <= n PROVE m * w <= n * w
<1>1. (n - m) * w \in Nat
  OBVIOUS
<1>2. (n - m) * w = n * w - m * w
  OBVIOUS
<1> QED BY <1>1, <1>2

LEMMA NextBase == ASSUME NEW s \in Int
                  PROVE /\ (s + 1) * SectorWords = s * SectorWords + SectorWords
                        /\ s * SectorWords \in Int /\ (s + 1) * SectorWords \in Int
  OBVIOUS

LEMMA SectorInBank ==
  ASSUME NEW s \in SectorIds
  PROVE  /\ s * SectorWords \in Cells
         /\ s * SectorWords \in Nat
         /\ s * SectorWords + SectorWords <= Sectors * SectorWords
<1>1. s \in Int /\ 0 <= s /\ s + 1 <= Sectors
  BY DEF SectorIds
<1>2. (s + 1) * SectorWords <= Sectors * SectorWords /\ 0 * SectorWords <= s * SectorWords
  BY <1>1, Ordered
<1>3. s * SectorWords \in Int /\ Sectors * SectorWords \in Int
  BY <1>1
<1> QED BY <1>1, <1>2, <1>3, NextBase DEF Cells

LEMMA BankSize == Sectors * SectorWords \in Nat /\ 0 \in Cells /\ 0 \in SectorIds
<1>1. 0 \in SectorIds
  BY DEF SectorIds
<1> QED BY <1>1, SectorInBank DEF Cells

LEMMA RoomForSector ==
  ASSUME NEW s \in Nat, s * SectorWords < Sectors * SectorWords PROVE s \in SectorIds
<1>1. CASE s < Sectors
  BY <1>1 DEF SectorIds
<1>2. CASE Sectors <= s
  BY <1>2, Ordered, NextBase
<1> QED BY <1>1, <1>2

LEMMA Division ==
  ASSUME NEW c \in Cells
  PROVE  /\ SectorOf(c) \in Nat /\ c \in Nat /\ c < Sectors * SectorWords
         /\ c % SectorWords \in 0 .. SectorWords - 1
         /\ c = SectorOf(c) * SectorWords + (c % SectorWords)
<1>1. c \in Nat /\ c < Sectors * SectorWords
  BY BankSize DEF Cells
<1>2. c % SectorWords \in 0 .. SectorWords - 1
  BY <1>1
<1>3. c = SectorWords * (c \div SectorWords) + (c % SectorWords)
  BY <1>1
<1>4. c \div SectorWords \in Nat
  BY <1>1
<1> QED BY <1>1, <1>2, <1>3, <1>4 DEF SectorOf

LEMMA Between ==
  ASSUME NEW q \in Nat, NEW s \in Nat, NEW c \in Nat,
         q * SectorWords <= c, c < q * SectorWords + SectorWords
  PROVE  /\ q < s <=> c < s * SectorWords
         /\ q > s <=> c >= s * SectorWords + SectorWords
<1>1. /\ q * SectorWords \in Int /\ s * SectorWords \in Int
      /\ (q + 1) * SectorWords = q * SectorWords + SectorWords
      /\ (s + 1) * SectorWords = s * SectorWords + SectorWords
  BY NextBase
<1>2. CASE q < s
  <2>1. (q + 1) * SectorWords <= s * SectorWords
    BY <1>2, Ordered
  <2> QED BY <1>1, <1>2, <2>1
<1>3. CASE q = s
  BY <1>1, <1>3
<1>4. CASE q > s
  <2>1. (s + 1) * SectorWords <= q * SectorWords
    BY <1>4, Ordered
  <2> QED BY <1>1, <1>4, <2>1
<1> QED BY <1>2, <1>3, <1>4

LEMMA Inside ==
  ASSUME NEW c \in Cells
  PROVE  /\ SectorOf(c) * SectorWords \in Int
         /\ SectorOf(c) * SectorWords <= c
         /\ c < SectorOf(c) * SectorWords + SectorWords
<1> DEFINE q == SectorOf(c)
<1>1. /\ q \in Nat /\ c \in Nat /\ c % SectorWords \in 0 .. SectorWords - 1
      /\ c = q * SectorWords + (c % SectorWords)
  BY Division
<1> HIDE DEF q
<1>2. q * SectorWords \in Int
  BY <1>1
<1>3. q * SectorWords <= c /\ c < q * SectorWords + SectorWords
  BY <1>1, <1>2
<1> QED BY <1>2, <1>3 DEF q

LEMMA Border ==
  ASSUME NEW c \in Cells, NEW s \in Nat
  PROVE  /\ SectorOf(c) < s <=> c < s * SectorWords
         /\ SectorOf(c) > s <=> c >= s * SectorWords + SectorWords
<1> DEFINE q == SectorOf(c)
<1>1. q \in Nat /\ c \in Nat
  BY Division
<1>2. q * SectorWords <= c /\ c < q * SectorWords + SectorWords
  BY Inside
<1> HIDE DEF q
<1>3. (q < s <=> c < s * SectorWords) /\ (q > s <=> c >= s * SectorWords + SectorWords)
  BY <1>1, <1>2, Between
<1> QED BY <1>3 DEF q

LEMMA SectorOfCell == ASSUME NEW c \in Cells PROVE SectorOf(c) \in SectorIds
<1>1. SectorOf(c) \in Nat /\ c < Sectors * SectorWords
  BY Division
<1>2. SectorOf(c) < Sectors
  BY <1>1, Border
<1> QED BY <1>1, <1>2 DEF SectorIds

-----------------------------------------------------------------------------
(* The inductive invariant.                                                *)

\* The position of a call: its arguments name the part of the sector in work.
Going ==
  pc # "idle" =>
    /\ addr = secpos * SectorWords + secoff
    /\ addr + Len(buf) <= Sectors * SectorWords
    /\ secremain = Smaller(Len(buf), SectorWords - secoff)

\* The page lies in the sector in work; behind an erase it is all of it.
InPage ==
  /\ pc = "erase" => base = secpos * SectorWords /\ Len(page) = SectorWords /\ i = 0
  /\ pc = "program" => /\ secpos * SectorWords <= base
                       /\ base + Len(page) <= secpos * SectorWords + SectorWords

\* A call that met no failure so far programs erased words only, and a call can
\* only meet one that is not the driver's.
Kept == pc # "idle" /\ faults = 0 => clean

Erased == clean /\ pc = "program" => \A k \in i .. Len(page) - 1 : flash[base + k] = FFFF

\* Below the sector in work all is done, above it nothing.
Below == faults = 0 => \A c \in Cells : SectorOf(c) < secpos => flash[c] = goal[c] \/ refused
Above == \A c \in Cells : SectorOf(c) > secpos => flash[c] = before[c]

\* What is left of the buffer is what the goal has from addr on.
Aim ==
  pc # "idle" =>
    \A c \in Cells :
      SectorOf(c) >= secpos =>
        goal[c] = IF addr <= c /\ c < addr + Len(buf) THEN buf[c - addr + 1] ELSE before[c]

\* The sector in work before its first operation, and while it is programmed.
Untouched == pc = "scan" => \A c \in Cells : SectorOf(c) = secpos => flash[c] = before[c]

PageIsGoal ==
  pc \in {"erase", "program"} => \A k \in 0 .. Len(page) - 1 : page[k + 1] = goal[base + k]

Programmed ==
  pc = "program" /\ clean =>
    \A c \in Cells : SectorOf(c) = secpos /\ (c < base + i \/ base + Len(page) <= c) =>
      flash[c] = goal[c]

\* A call for no words does nothing.
NoWords ==
  pc # "idle" /\ Len(buf) = 0 => /\ flash = before /\ pc # "erase"
                                 /\ pc = "program" => Len(page) = 0

Frame == Going /\ InPage
Faultless == NoErrorOfItsOwn /\ Kept /\ Erased
Around == Below /\ Above
Work == Aim /\ Untouched /\ PageIsGoal /\ Programmed /\ NoWords
IInv == TypeOK /\ Frame /\ Faultless /\ Around /\ Work

-----------------------------------------------------------------------------
(* Types and the position in the call.                                     *)

\* What the position of a call says about its buffer and its sector.
LEMMA Position ==
  ASSUME TypeOK, Going, pc # "idle"
  PROVE  /\ secpos \in Nat /\ secpos * SectorWords \in Nat /\ Len(buf) \in Nat
         /\ secpos * SectorWords + SectorWords <= Sectors * SectorWords
         /\ addr \in Cells /\ addr \in Nat /\ addr = secpos * SectorWords + secoff
         /\ secoff \in Nat /\ secremain \in 0 .. Len(buf) /\ secoff + secremain <= SectorWords
         /\ secremain # Len(buf) => secoff + secremain = SectorWords /\ secremain < Len(buf)
<1>1. /\ secpos \in Nat /\ secpos * SectorWords \in Nat
      /\ secpos * SectorWords + SectorWords <= Sectors * SectorWords
  BY SectorInBank DEF TypeOK, SectorIds
<1>2. Len(buf) \in Nat /\ secoff \in 0 .. SectorWords - 1
  BY DEF TypeOK
<1>3. addr = secpos * SectorWords + secoff /\ secremain = Smaller(Len(buf), SectorWords - secoff)
  BY DEF Going
<1>4. addr \in Nat /\ addr \in Cells
  BY <1>1, <1>2, <1>3, BankSize DEF Cells
<1> QED BY <1>1, <1>2, <1>3, <1>4 DEF Smaller

LEMMA OverwriteType ==
  ASSUME NEW f \in [Cells -> Words], NEW a \in Cells, NEW b \in Seq(Words)
  PROVE  Overwrite(f, a, b) \in [Cells -> Words]
<1>1. ASSUME NEW c \in Cells, a <= c, c < a + Len(b) PROVE b[c - a + 1] \in Words
  <2>1. a \in Nat /\ c \in Nat /\ Len(b) \in Nat
    BY Division
  <2>2. c - a + 1 \in 1 .. Len(b)
    BY <1>1, <2>1
  <2> QED BY <2>2
<1> QED BY <1>1 DEF Overwrite

LEMMA CallTypes ==
  ASSUME TypeOK, Frame, NEW a \in Cells, NEW b \in Buffers, Call(a, b)
  PROVE  TypeOK' /\ Frame'
<1>1. b \in Seq(Words) /\ Len(b) \in Nat
  OBVIOUS
<1>2. goal' \in [Cells -> Words] /\ before' \in [Cells -> Words]
  BY <1>1, OverwriteType DEF Call, TypeOK
<1>3. SectorOf(a) \in SectorIds /\ a \in Nat /\ a % SectorWords \in 0 .. SectorWords - 1
      /\ a = SectorOf(a) * SectorWords + (a % SectorWords)
  BY Division, SectorOfCell
<1>4. CASE InRange(a)
  <2>1. secremain' \in 0 .. SectorWords
    BY <1>1, <1>3, <1>4 DEF Call, Remain, Smaller
  <2>2. TypeOK'
    BY <1>1, <1>2, <1>3, <1>4, <2>1 DEF Call, TypeOK, writer, InRange
  <2>3. Going'
    BY <1>1, <1>3, <1>4 DEF Call, Going, Remain
  <2> QED BY <1>4, <2>2, <2>3 DEF Call, Frame, InPage
<1>5. CASE ~InRange(a)
  <2>1. TypeOK'
    BY <1>1, <1>2, <1>5 DEF Call, TypeOK, args, writer, InRange
  <2> QED BY <1>5, <2>1 DEF Call, Frame, InPage, Going, args
<1> QED BY <1>4, <1>5

LEMMA MergedType ==
  ASSUME TypeOK, Going, pc # "idle"
  PROVE  Merged \in Seq(Words) /\ Len(Merged) = SectorWords
<1>1. ASSUME NEW k \in 1 .. SectorWords PROVE Merged[k] \in Words
  <2>1. CASE k > secoff /\ k <= secoff + secremain
    BY <2>1, Position DEF Merged, TypeOK
  <2>2. CASE ~(k > secoff /\ k <= secoff + secremain)
    <3>1. secpos * SectorWords + k - 1 \in Cells
      BY Position DEF Cells
    <3> QED BY <2>2, <3>1 DEF Merged, TypeOK
  <2> QED BY <2>1, <2>2
<1>2. Merged = [k \in 1 .. SectorWords |-> Merged[k]]
  BY DEF Merged
<1>3. Merged \in [1 .. SectorWords -> Words]
  BY <1>1, <1>2
<1> QED BY <1>3

LEMMA ScanTypes == ASSUME TypeOK, Frame, Scan PROVE TypeOK' /\ Frame'
<1>0. Going /\ pc = "scan"
  BY DEF Frame, Scan
<1>1. CASE Dirty
  <2>1. page' \in Seq(Words) /\ Len(page') = SectorWords /\ base' = secpos * SectorWords
    BY <1>0, <1>1, MergedType DEF Scan
  <2>2. base' \in Cells
    BY <2>1, SectorInBank DEF TypeOK
  <2>3. TypeOK'
    BY <1>1, <2>1, <2>2 DEF Scan, TypeOK, args, history, counters
  <2> QED BY <1>0, <1>1, <2>1, <2>3 DEF Scan, Frame, Going, InPage, args
<1>2. CASE ~Dirty
  <2>1. page' \in Seq(Words) /\ Len(page') = secremain
    <3>1. secremain \in 0 .. Len(buf) /\ Len(buf) \in Nat
      BY <1>0, Position
    <3> QED BY <1>2, <3>1, SubSeqProperties DEF Scan, TypeOK
  <2>2. base' = addr /\ addr \in Cells
    BY <1>0, <1>2, Position DEF Scan
  <2>3. TypeOK'
    BY <1>2, <2>1, <2>2 DEF Scan, TypeOK, args, history, counters
  <2>4. InPage'
    BY <1>0, <1>2, <2>1, <2>2, Position DEF Scan, InPage, args
  <2> QED BY <1>0, <1>2, <2>3, <2>4 DEF Scan, Frame, Going, args
<1> QED BY <1>1, <1>2

LEMMA EraseTypes == ASSUME TypeOK, Frame, Erase PROVE TypeOK' /\ Frame'
<1>1. flash' \in [Cells -> Words]
  BY DEF Erase, Operate, TypeOK
<1>2. sts' \in BOOLEAN /\ clean' \in BOOLEAN /\ faults' \in 0 .. MaxFaults
  <2>1. sts' \in BOOLEAN
    BY Zenon DEF Erase, Operate, TypeOK
  <2>2. clean' \in BOOLEAN
    BY Zenon DEF Erase, Operate, TypeOK
  <2>3. faults' \in 0 .. MaxFaults
    BY DEF Erase, Operate, TypeOK
  <2> QED BY <2>1, <2>2, <2>3
<1>3. TypeOK'
  BY <1>1, <1>2 DEF Erase, TypeOK, args, writer, history
<1>4. Frame'
  <2>1. Going'
    BY DEF Erase, Frame, Going, args
  <2>2. base = secpos * SectorWords /\ Len(page) = SectorWords /\ secpos * SectorWords \in Nat
    BY SectorInBank DEF Erase, Frame, InPage, TypeOK
  <2>3. pc' = "program" /\ base' = base /\ page' = page /\ secpos' = secpos
    BY DEF Erase, args, writer
  <2>4. InPage'
    BY <2>2, <2>3 DEF InPage
  <2> QED BY <2>1, <2>4 DEF Frame
<1> QED BY <1>3, <1>4

LEMMA ProgramTypes == ASSUME TypeOK, Frame, Program PROVE TypeOK' /\ Frame'
<1>1. i' \in 0 .. Len(page') /\ page' = page /\ page[i + 1] \in Words
  BY DEF Program, TypeOK
<1>2. flash' \in [Cells -> Words]
  BY <1>1 DEF Program, Operate, TypeOK
<1>3. sts' \in BOOLEAN /\ clean' \in BOOLEAN /\ faults' \in 0 .. MaxFaults
  <2>1. sts' \in BOOLEAN
    BY Zenon DEF Program, Operate, TypeOK
  <2>2. clean' \in BOOLEAN
    BY Zenon DEF Program, Operate, TypeOK
  <2>3. faults' \in 0 .. MaxFaults
    BY DEF Program, Operate, TypeOK
  <2> QED BY <2>1, <2>2, <2>3
<1>4. TypeOK'
  BY <1>1, <1>2, <1>3 DEF Program, TypeOK, args, history
<1>5. Frame'
  BY DEF Program, Frame, Going, InPage, args
<1> QED BY <1>4, <1>5

LEMMA ReturnTypes == ASSUME TypeOK, Frame, Return PROVE TypeOK' /\ Frame'
  BY DEF Return, Written, TypeOK, Frame, Going, InPage, args, writer, history, counters

LEMMA NextSectorTypes == ASSUME TypeOK, Frame, NextSector PROVE TypeOK' /\ Frame'
<1>0. Going /\ pc # "idle" /\ secremain # Len(buf)
  BY DEF Frame, NextSector, Written, More
<1>1. /\ secoff + secremain = SectorWords /\ secremain < Len(buf)
      /\ addr = secpos * SectorWords + secoff /\ secpos \in Nat
      /\ secremain \in Nat /\ Len(buf) \in Nat /\ secoff \in Nat
      /\ secpos * SectorWords \in Nat
  BY <1>0, Position
<1>2. buf' \in Seq(Words) /\ Len(buf') = Len(buf) - secremain
  <2>1. buf \in Seq(Words) /\ buf' = SubSeq(buf, secremain + 1, Len(buf))
    BY DEF NextSector, Rest, TypeOK
  <2>2. \A k \in secremain + 1 .. Len(buf) : buf[k] \in Words
    BY <1>1, <2>1
  <2> QED BY <1>1, <2>1, <2>2, SubSeqProperties
<1>3. addr' = secpos' * SectorWords /\ secpos' = secpos + 1 /\ secoff' = 0
      /\ addr' \in Nat /\ addr' = addr + secremain
  BY <1>1, NextBase DEF NextSector
<1>4. addr' + Len(buf') <= Sectors * SectorWords /\ Len(buf') > 0
  BY <1>0, <1>1, <1>2, <1>3, BankSize DEF Going
<1>5. secpos' \in SectorIds
  <2>1. secpos' * SectorWords < Sectors * SectorWords
    BY <1>2, <1>3, <1>4, <1>1, BankSize
  <2> QED BY <1>1, <1>3, <2>1, RoomForSector
<1>6. secremain' = Smaller(Len(buf'), SectorWords - secoff') /\ secremain' \in 0 .. SectorWords
  BY <1>1, <1>2, <1>3 DEF NextSector, Smaller
<1>7. addr' \in Cells
  BY <1>1, <1>2, <1>3, <1>4, BankSize DEF Cells
<1>8. TypeOK'
  BY <1>2, <1>3, <1>5, <1>6, <1>7 DEF NextSector, TypeOK, writer, history, counters
<1> QED BY <1>3, <1>4, <1>6, <1>8 DEF Frame, Going, InPage, NextSector

LEMMA PowerLossTypes == ASSUME TypeOK, Frame, PowerLoss PROVE TypeOK' /\ Frame'
<1>1. clean' \in BOOLEAN /\ sts' \in BOOLEAN
  BY Zenon DEF PowerLoss
<1>2. reboots' \in 0 .. MaxReboots
  BY DEF PowerLoss, TypeOK
<1>3. TypeOK'
  BY <1>1, <1>2 DEF PowerLoss, TypeOK, args, writer, history
<1> QED BY <1>3 DEF PowerLoss, Frame, Going, InPage, args, writer

LEMMA StepTypes == ASSUME TypeOK, Frame, [Next]_vars PROVE TypeOK' /\ Frame'
<1>1. ASSUME NEW a \in Cells, NEW b \in Buffers, Call(a, b) PROVE TypeOK' /\ Frame'
  BY <1>1, CallTypes
<1>2. CASE flash_write
  BY <1>2, ScanTypes, EraseTypes, ProgramTypes, ReturnTypes, NextSectorTypes DEF flash_write
<1>3. CASE PowerLoss
  BY <1>3, PowerLossTypes
<1>4. CASE UNCHANGED vars
  BY <1>4 DEF vars, TypeOK, Frame, Going, InPage, args, writer, history, counters
<1> QED BY <1>1, <1>2, <1>3, <1>4 DEF Next

-----------------------------------------------------------------------------
(* No error of the driver's own: what it programs is erased.               *)

\* The cells of the page lie in the sector in work.
LEMMA PageCells ==
  ASSUME TypeOK, Frame, pc \in {"erase", "program"}, NEW k \in 0 .. Len(page) - 1
  PROVE  base + k \in Cells /\ SectorOf(base + k) = secpos
<1>1. /\ secpos \in Nat /\ secpos * SectorWords \in Nat /\ Len(page) \in Nat /\ base \in Int
      /\ secpos * SectorWords + SectorWords <= Sectors * SectorWords
  BY Position, BankSize DEF Frame, TypeOK, Cells
<1>2. /\ secpos * SectorWords <= base + k
      /\ base + k < secpos * SectorWords + SectorWords
  BY <1>1 DEF Frame, InPage
<1>3. base + k \in Cells
  BY <1>1, <1>2, BankSize DEF Cells
<1>4. ~(SectorOf(base + k) < secpos) /\ ~(SectorOf(base + k) > secpos)
  <2> DEFINE c == base + k
  <2>1. c \in Cells /\ secpos * SectorWords <= c /\ c < secpos * SectorWords + SectorWords
    BY <1>2, <1>3
  <2>2. c \in Int
    BY <1>1
  <2> HIDE DEF c
  <2>3. ~(SectorOf(c) < secpos) /\ ~(SectorOf(c) > secpos)
    BY <1>1, <2>1, <2>2, Border
  <2> QED BY <2>3 DEF c
<1>5. SectorOf(base + k) \in Nat
  BY <1>3, Division
<1> QED BY <1>1, <1>3, <1>4, <1>5

\* What an operation does to the flash at all, and what it does when it is clean.
LEMMA OtherSectors ==
  ASSUME TypeOK, Frame, Erase \/ Program, NEW c \in Cells, SectorOf(c) # secpos
  PROVE  flash'[c] = flash[c]
<1>1. CASE Erase
  BY <1>1 DEF Erase, Operate
<1>2. CASE Program
  <2>1. base + i \in Cells /\ SectorOf(base + i) = secpos
    BY <1>2, PageCells DEF Program, TypeOK
  <2> QED BY <1>2, <2>1 DEF Program, Operate, TypeOK
<1> QED BY <1>1, <1>2

LEMMA EraseClean ==
  ASSUME TypeOK, Erase, clean'
  PROVE  /\ clean /\ sts' = sts /\ faults' = faults
         /\ flash' = [c \in Cells |-> IF SectorOf(c) = secpos THEN FFFF ELSE flash[c]]
  BY DEF Erase, Operate

LEMMA ProgramClean ==
  ASSUME TypeOK, Program, clean'
  PROVE  /\ clean /\ sts' = sts /\ faults' = faults
         /\ flash' = [flash EXCEPT ![base + i] = page[i + 1]]
  BY DEF Program, Operate

LEMMA NoFaultIsClean ==
  ASSUME TypeOK, Faultless, Erase \/ Program, faults' = 0
  PROVE  clean' /\ faults = 0
<1>1. faults \in Nat
  BY DEF TypeOK
<1>2. faults = 0
  BY <1>1 DEF Erase, Program, Operate
<1>3. clean /\ ~sts
  BY <1>2 DEF Faultless, Kept, NoErrorOfItsOwn, Erase, Program
<1>4. faults' # faults + 1
  BY <1>2
<1>5. CASE Erase
  BY Zenon, <1>2, <1>3, <1>4, <1>5 DEF Erase, Operate
<1>6. CASE Program
  <2>1. flash[base + i] = FFFF
    BY <1>3, <1>6 DEF Program, Faultless, Erased, TypeOK
  <2> QED BY Zenon, <1>2, <1>3, <1>4, <1>6, <2>1 DEF Program, Operate
<1> QED BY <1>2, <1>5, <1>6

LEMMA StepFaultless == ASSUME TypeOK, Frame, Faultless, [Next]_vars PROVE Faultless'
<1>1. ASSUME NEW a \in Cells, NEW b \in Buffers, Call(a, b) PROVE Faultless'
  <2>1. faults' = faults /\ sts' = sts /\ clean' = ~sts /\ pc' \in {"idle", "scan"}
    BY <1>1 DEF Call
  <2> QED BY <2>1 DEF Faultless, NoErrorOfItsOwn, Kept, Erased
<1>2. CASE Scan
  <2>0. sts' = sts /\ faults' = faults /\ clean' = clean /\ pc # "idle" /\ flash' = flash
    BY <1>2 DEF Scan, counters
  <2>1. Erased'
    <3>1. CASE Dirty
      BY <1>2, <3>1 DEF Scan, Erased
    <3>2. CASE ~Dirty
      <4>1. /\ secremain \in 0 .. Len(buf) /\ Len(buf) \in Nat
            /\ addr = secpos * SectorWords + secoff
        BY <2>0, Position DEF Frame
      <4>2. base' = addr /\ i' = 0 /\ page' = SubSeq(buf, 1, secremain)
        BY <1>2, <3>2 DEF Scan
      <4>3. Len(page') = secremain
        <5>1. \A k \in 1 .. secremain : buf[k] \in Words
          BY <4>1 DEF TypeOK
        <5> QED BY <4>1, <4>2, <5>1, SubSeqProperties
      <4>4. \A k \in 0 .. secremain - 1 : flash[addr + k] = FFFF
        BY <3>2, <4>1 DEF Dirty
      <4> QED BY <2>0, <4>2, <4>3, <4>4 DEF Erased
    <3> QED BY <3>1, <3>2
  <2> QED BY <2>0, <2>1 DEF Faultless, NoErrorOfItsOwn, Kept
<1>3. CASE Erase
  <2>1. Erased'
    <3> SUFFICES ASSUME clean'
                 PROVE  \A k \in i' .. Len(page') - 1 : flash'[base' + k] = FFFF
      BY DEF Erased
    <3>1. flash' = [c \in Cells |-> IF SectorOf(c) = secpos THEN FFFF ELSE flash[c]]
      BY <1>3, EraseClean
    <3>2. i = 0 /\ i' = i /\ page' = page /\ base' = base /\ pc = "erase"
      BY <1>3 DEF Erase, writer, Frame, InPage
    <3>3. \A k \in 0 .. Len(page) - 1 : base + k \in Cells /\ SectorOf(base + k) = secpos
      BY <3>2, PageCells
    <3> QED BY <3>1, <3>2, <3>3
  <2>2. faults' = 0 => ~sts' /\ clean'
    BY <1>3, NoFaultIsClean, EraseClean DEF Faultless, NoErrorOfItsOwn
  <2> QED BY <2>1, <2>2 DEF Faultless, NoErrorOfItsOwn, Kept
<1>4. CASE Program
  <2>1. Erased'
    <3> SUFFICES ASSUME clean'
                 PROVE  \A k \in i' .. Len(page') - 1 : flash'[base' + k] = FFFF
      BY DEF Erased
    <3>1. clean /\ flash' = [flash EXCEPT ![base + i] = page[i + 1]]
      BY <1>4, ProgramClean
    <3>2. i' = i + 1 /\ page' = page /\ base' = base /\ pc = "program"
      BY <1>4 DEF Program
    <3>3. i \in Nat /\ base \in Int /\ Len(page) \in Nat /\ flash \in [Cells -> Words]
      BY BankSize DEF TypeOK, Cells
    <3>4. ASSUME NEW k \in i' .. Len(page') - 1 PROVE flash'[base' + k] = FFFF
      <4>1. flash[base + k] = FFFF /\ base + k # base + i
        BY <3>1, <3>2, <3>3 DEF Faultless, Erased
      <4>2. base + k \in Cells
        BY <3>2, <3>3, PageCells
      <4> QED BY <3>1, <3>2, <3>3, <4>1, <4>2
    <3> QED BY <3>4
  <2>2. faults' = 0 => ~sts' /\ clean'
    BY <1>4, NoFaultIsClean, ProgramClean DEF Faultless, NoErrorOfItsOwn
  <2> QED BY <2>1, <2>2 DEF Faultless, NoErrorOfItsOwn, Kept
<1>5. CASE Return \/ NextSector
  BY <1>5 DEF Return, NextSector, Written, Faultless, NoErrorOfItsOwn, Kept, Erased, counters
<1>6. CASE PowerLoss
  BY <1>6 DEF PowerLoss, Faultless, NoErrorOfItsOwn, Kept, Erased
<1>7. CASE UNCHANGED vars
  BY <1>7 DEF vars, writer, counters, Faultless, NoErrorOfItsOwn, Kept, Erased
<1> QED BY <1>1, <1>2, <1>3, <1>4, <1>5, <1>6, <1>7 DEF Next, flash_write

-----------------------------------------------------------------------------
(* What is done and what is untouched.                                     *)

LEMMA CallWork ==
  ASSUME TypeOK, Around, Work, NEW a \in Cells, NEW b \in Buffers, Call(a, b)
  PROVE  Around' /\ Work'
<1>0. /\ flash' = flash /\ before' = flash /\ goal' = Overwrite(flash, a, b)
      /\ refused' = ~InRange(a) /\ faults' = faults /\ pc = "idle"
  BY DEF Call
<1>1. b \in Seq(Words) /\ Len(b) \in Nat /\ a \in Nat
  BY Division
<1>2. \A c \in Cells : c \in Nat /\ SectorOf(c) \in Nat
  BY Division
<1>3. CASE InRange(a)
  <2>1. pc' = "scan" /\ addr' = a /\ buf' = b /\ secpos' = SectorOf(a)
    BY <1>3 DEF Call
  <2>2. ASSUME NEW c \in Cells, SectorOf(c) < SectorOf(a) PROVE c < a
    <3>1. SectorOf(a) \in Nat /\ SectorOf(a) * SectorWords \in Int
          /\ SectorOf(a) * SectorWords <= a
      BY Division, Inside
    <3>2. c < SectorOf(a) * SectorWords
      BY <2>2, <3>1, Border
    <3> QED BY <1>1, <1>2, <3>1, <3>2
  <2>3. Around'
    BY <1>0, <1>1, <1>2, <2>1, <2>2 DEF Around, Below, Above, Overwrite
  <2>4. Aim'
    BY <1>0, <1>1, <2>1 DEF Aim, Overwrite
  <2> QED BY <1>0, <2>1, <2>3, <2>4 DEF Work, Untouched, PageIsGoal, Programmed, NoWords
<1>4. CASE ~InRange(a)
  <2>1. pc' = "idle" /\ refused' = TRUE
    BY <1>0, <1>4 DEF Call
  <2>2. Around'
    BY <1>0, <2>1 DEF Around, Below, Above
  <2> QED BY <2>1, <2>2 DEF Work, Aim, Untouched, PageIsGoal, Programmed, NoWords
<1> QED BY <1>3, <1>4

LEMMA ScanWork == ASSUME TypeOK, Frame, Around, Work, Scan PROVE Around' /\ Work'
<1>0. /\ pc = "scan" /\ Going /\ flash' = flash /\ i' = 0 /\ faults' = faults
      /\ addr' = addr /\ buf' = buf /\ secpos' = secpos /\ secoff' = secoff
      /\ before' = before /\ goal' = goal /\ refused' = refused /\ pc' \in {"erase", "program"}
  BY DEF Scan, Frame, args, history, counters
<1>1. /\ secpos \in Nat /\ secpos * SectorWords \in Nat /\ Len(buf) \in Nat
      /\ secpos * SectorWords + SectorWords <= Sectors * SectorWords
      /\ addr \in Cells /\ addr \in Nat /\ addr = secpos * SectorWords + secoff
      /\ secoff \in Nat /\ secremain \in 0 .. Len(buf) /\ secoff + secremain <= SectorWords
      /\ secremain # Len(buf) => secoff + secremain = SectorWords /\ secremain < Len(buf)
  BY <1>0, Position
<1>2. Around' /\ Aim' /\ Untouched'
  BY <1>0 DEF Around, Below, Above, Aim, Work, Untouched
\* In the sector in work the goal is the buffer's part of it in what was there.
<1>3. ASSUME NEW c \in Cells, SectorOf(c) = secpos
      PROVE  goal[c] = IF addr <= c /\ c < addr + secremain
                       THEN buf[c - addr + 1] ELSE flash[c]
  <2>1. goal[c] = IF addr <= c /\ c < addr + Len(buf) THEN buf[c - addr + 1] ELSE before[c]
    <3>1. SectorOf(c) >= secpos
      BY <1>1, <1>3
    <3> QED BY <1>0, <3>1 DEF Work, Aim
  <2>2. flash[c] = before[c]
    BY <1>0, <1>3 DEF Work, Untouched
  <2>3. c < secpos * SectorWords + SectorWords /\ c \in Nat
    BY <1>3, Inside, Division
  <2>4. addr + secremain = addr + Len(buf) \/ c < addr + secremain
    BY <1>1, <2>3
  <2>5. c < addr + Len(buf) <=> c < addr + secremain
    BY <1>1, <2>3, <2>4
  <2> QED BY <2>1, <2>2, <2>5
<1>4. CASE Dirty
  <2>1. pc' = "erase" /\ base' = secpos * SectorWords /\ page' = Merged
    BY <1>4 DEF Scan
  <2>2. Len(Merged) = SectorWords
    BY <1>0, MergedType
  <2>3. ASSUME NEW k \in 0 .. SectorWords - 1
        PROVE  Merged[k + 1] = goal[secpos * SectorWords + k]
    <3> DEFINE d == secpos * SectorWords + k
    <3>1. d \in Cells /\ d \in Nat
      BY <1>1, BankSize DEF Cells
    <3>2. SectorOf(d) = secpos
      <4> HIDE DEF d
      <4>1. secpos * SectorWords <= d /\ d < secpos * SectorWords + SectorWords
        BY <1>1 DEF d
      <4>2. ~(SectorOf(d) < secpos) /\ ~(SectorOf(d) > secpos)
        BY <1>1, <3>1, <4>1, Border
      <4>3. SectorOf(d) \in Nat
        BY <3>1, Division
      <4> QED BY <1>1, <4>2, <4>3
    <3>3. goal[d] = IF addr <= d /\ d < addr + secremain THEN buf[d - addr + 1] ELSE flash[d]
      <4> HIDE DEF d
      <4> QED BY <1>3, <2>3, <3>1, <3>2
    <3>4. Merged[k + 1] = IF k + 1 > secoff /\ k + 1 <= secoff + secremain
                          THEN buf[k + 1 - secoff] ELSE flash[d]
      BY <1>1 DEF Merged
    <3>5. CASE k + 1 > secoff /\ k + 1 <= secoff + secremain
      <4>1. addr <= d /\ d < addr + secremain /\ d - addr + 1 = k + 1 - secoff
        BY <1>1, <3>5
      <4> QED BY <3>3, <3>4, <3>5, <4>1
    <3>6. CASE ~(k + 1 > secoff /\ k + 1 <= secoff + secremain)
      <4>1. ~(addr <= d /\ d < addr + secremain)
        BY <1>1, <3>6
      <4> QED BY <3>3, <3>4, <3>6, <4>1
    <3> QED BY <3>5, <3>6
  <2>4. PageIsGoal'
    BY <1>0, <2>1, <2>2, <2>3 DEF PageIsGoal
  <2>5. Len(buf) # 0
    BY <1>1, <1>4 DEF Dirty
  <2> QED BY <1>0, <1>2, <2>1, <2>4, <2>5 DEF Work, Programmed, NoWords
<1>5. CASE ~Dirty
  <2>1. pc' = "program" /\ base' = addr /\ page' = SubSeq(buf, 1, secremain)
    BY <1>5 DEF Scan
  <2>2. Len(page') = secremain /\ \A k \in 1 .. secremain : page'[k] = buf[k]
    <3>1. \A k \in 1 .. secremain : buf[k] \in Words
      BY <1>1 DEF TypeOK
    <3> QED BY <1>1, <2>1, <3>1, SubSeqProperties
  <2>3. PageIsGoal'
    <3> SUFFICES ASSUME NEW k \in 0 .. secremain - 1
                 PROVE  page'[k + 1] = goal[addr + k]
      BY <1>0, <2>1, <2>2 DEF PageIsGoal
    <3>1. addr + k \in Cells
      BY <1>1, BankSize DEF Cells
    <3>2. goal[addr + k] = buf[addr + k - addr + 1]
      <4> DEFINE c == addr + k
      <4>1. SectorOf(c) >= secpos
        <5>1. secpos * SectorWords <= c /\ c \in Int
          BY <1>1
        <5> HIDE DEF c
        <5>2. c \in Cells
          BY <3>1 DEF c
        <5>3. ~(SectorOf(c) < secpos) /\ SectorOf(c) \in Nat
          BY <1>1, <5>1, <5>2, Border, Division
        <5> QED BY <1>1, <5>3
      <4> QED BY <1>0, <1>1, <3>1, <4>1 DEF Work, Aim
    <3> QED BY <1>1, <2>2, <3>2
  <2>4. Programmed'
    <3> SUFFICES ASSUME NEW c \in Cells, SectorOf(c) = secpos,
                        c < addr \/ addr + secremain <= c
                 PROVE  flash[c] = goal[c]
      BY <1>0, <1>1, <2>1, <2>2 DEF Programmed
    <3>1. c \in Nat
      BY Division
    <3>2. ~(addr <= c /\ c < addr + secremain)
      BY <1>1, <3>1
    <3> QED BY <1>3, <3>2
  <2>5. NoWords'
    BY <1>0, <1>1, <2>1, <2>2 DEF NoWords, Work
  <2> QED BY <1>2, <2>3, <2>4, <2>5 DEF Work
<1> QED BY <1>4, <1>5

LEMMA OperationAround ==
  ASSUME TypeOK, Frame, Faultless, Around, Erase \/ Program PROVE Around'
<1>1. /\ secpos' = secpos /\ before' = before /\ goal' = goal /\ refused' = refused
  BY DEF Erase, Program, args, history
<1>2. secpos \in Nat /\ \A c \in Cells : SectorOf(c) \in Nat
  BY Division DEF TypeOK, SectorIds
<1>3. \A c \in Cells : (SectorOf(c) < secpos \/ SectorOf(c) > secpos) => flash'[c] = flash[c]
  BY <1>2, OtherSectors
<1>4. faults' = 0 => faults = 0
  BY NoFaultIsClean
<1> QED BY <1>1, <1>3, <1>4 DEF Around, Below, Above

LEMMA EraseWork == ASSUME TypeOK, Frame, Faultless, Around, Work, Erase PROVE Work'
<1>0. /\ pc = "erase" /\ pc' = "program" /\ addr' = addr /\ buf' = buf /\ secpos' = secpos
      /\ base' = base /\ page' = page /\ i' = i /\ before' = before /\ goal' = goal
  BY DEF Erase, args, writer, history
<1>1. i = 0 /\ base = secpos * SectorWords /\ Len(page) = SectorWords
  BY <1>0 DEF Frame, InPage
<1>2. Aim' /\ Untouched' /\ PageIsGoal' /\ NoWords'
  BY <1>0 DEF Work, Aim, Untouched, PageIsGoal, NoWords
\* The page is the whole sector.
<1>3. Programmed'
  <2> SUFFICES ASSUME NEW c \in Cells, SectorOf(c) = secpos,
                      c < base \/ base + SectorWords <= c
               PROVE  FALSE
    BY <1>0, <1>1, BankSize DEF Programmed, TypeOK, Cells
  <2>1. secpos * SectorWords <= c /\ c < secpos * SectorWords + SectorWords
    BY Inside
  <2>2. c \in Nat /\ secpos * SectorWords \in Int
    BY Division, NextBase DEF TypeOK, SectorIds
  <2> QED BY <1>1, <2>1, <2>2
<1> QED BY <1>2, <1>3 DEF Work

LEMMA ProgramWork == ASSUME TypeOK, Frame, Faultless, Around, Work, Program PROVE Work'
<1>0. /\ pc = "program" /\ pc' = pc /\ addr' = addr /\ buf' = buf /\ secpos' = secpos
      /\ base' = base /\ page' = page /\ i' = i + 1 /\ before' = before /\ goal' = goal
      /\ i < Len(page)
  BY DEF Program, args, history
<1>1. i \in Nat /\ Len(page) \in Nat /\ base \in Int /\ flash \in [Cells -> Words]
  BY BankSize DEF TypeOK, Cells
<1>2. Aim' /\ Untouched' /\ PageIsGoal'
  BY <1>0 DEF Work, Aim, Untouched, PageIsGoal
<1>3. NoWords'
  <2>1. Len(buf) # 0
    BY <1>0, <1>1 DEF Work, NoWords
  <2> QED BY <1>0, <2>1 DEF NoWords
<1>4. Programmed'
  <2> SUFFICES ASSUME clean', NEW c \in Cells, SectorOf(c) = secpos,
                      c < base + (i + 1) \/ base + Len(page) <= c
               PROVE  flash'[c] = goal[c]
    BY <1>0 DEF Programmed
  <2>1. clean /\ flash' = [flash EXCEPT ![base + i] = page[i + 1]]
    BY ProgramClean
  <2>2. page[i + 1] = goal[base + i]
    BY <1>0, <1>1 DEF PageIsGoal, Work
  <2>3. CASE c = base + i
    BY <1>1, <2>1, <2>2, <2>3
  <2>4. CASE c # base + i
    <3>0. c \in Nat
      BY Division
    <3>1. c < base + i \/ base + Len(page) <= c
      BY <1>1, <2>4, <3>0
    <3>2. flash[c] = goal[c]
      BY <1>0, <2>1, <3>1 DEF Programmed, Work
    <3> QED BY <1>1, <2>1, <2>4, <3>2
  <2> QED BY <2>3, <2>4
<1> QED BY <1>2, <1>3, <1>4 DEF Work

\* Behind the last word of a page its sector is what it should be.
LEMMA SectorDone ==
  ASSUME TypeOK, Frame, Work, Written, clean, NEW c \in Cells, SectorOf(c) = secpos
  PROVE  flash[c] = goal[c]
  BY BankSize, Division DEF Written, Work, Programmed, TypeOK, Cells

LEMMA ReturnWork == ASSUME TypeOK, Frame, Around, Work, Return PROVE Around' /\ Work'
<1>1. Around'
  BY DEF Return, Around, Below, Above, args, history, counters
<1> QED BY <1>1 DEF Return, Work, Aim, Untouched, PageIsGoal, Programmed, NoWords

LEMMA NextSectorWork ==
  ASSUME TypeOK, Frame, Faultless, Around, Work, NextSector PROVE Around' /\ Work'
<1>0. /\ pc # "idle" /\ pc' = "scan" /\ Written /\ Going /\ secremain # Len(buf)
      /\ secpos' = secpos + 1 /\ addr' = addr + secremain /\ buf' = Rest
      /\ flash' = flash /\ before' = before /\ goal' = goal /\ refused' = refused
      /\ faults' = faults
  BY DEF NextSector, Written, More, Frame, history, counters
<1>1. /\ secpos \in Nat /\ Len(buf) \in Nat /\ addr \in Nat /\ secremain \in Nat
      /\ secremain < Len(buf)
  BY <1>0, Position
<1>2. Len(buf') = Len(buf) - secremain /\ \A k \in 1 .. Len(buf') : buf'[k] = buf[secremain + k]
  <2>1. \A k \in secremain + 1 .. Len(buf) : buf[k] \in Words
    BY <1>1 DEF TypeOK
  <2> QED BY <1>0, <1>1, <2>1, SubSeqProperties DEF Rest
<1>3. \A c \in Cells : c \in Nat /\ SectorOf(c) \in Nat
  BY Division
<1>4. Around'
  <2> SUFFICES ASSUME NEW c \in Cells
               PROVE  /\ faults = 0 /\ SectorOf(c) < secpos + 1 => flash[c] = goal[c] \/ refused
                      /\ SectorOf(c) > secpos + 1 => flash[c] = before[c]
    BY <1>0 DEF Around, Below, Above
  <2>1. SectorOf(c) < secpos + 1 => SectorOf(c) < secpos \/ SectorOf(c) = secpos
    BY <1>1, <1>3
  <2>2. SectorOf(c) > secpos + 1 => SectorOf(c) > secpos
    BY <1>1, <1>3
  <2>3. faults = 0 => clean
    BY <1>0 DEF Faultless, Kept
  <2> QED BY <1>0, <2>1, <2>2, <2>3, SectorDone DEF Around, Below, Above
<1>5. Aim'
  <2> SUFFICES ASSUME NEW c \in Cells, SectorOf(c) >= secpos + 1
               PROVE  goal[c] = IF addr + secremain <= c /\ c < addr + secremain + Len(buf')
                                THEN buf'[c - (addr + secremain) + 1] ELSE before[c]
    BY <1>0 DEF Aim
  <2>1. goal[c] = IF addr <= c /\ c < addr + Len(buf) THEN buf[c - addr + 1] ELSE before[c]
    BY <1>0, <1>1, <1>3 DEF Work, Aim
  \* A later sector lies behind what was written.
  <2>2. addr + secremain <= c
    <3>1. addr = secpos * SectorWords + secoff /\ secoff + secremain = SectorWords
          /\ secoff \in Nat /\ secpos * SectorWords \in Nat
      BY <1>0, Position
    <3>2. c >= secpos * SectorWords + SectorWords
      <4>1. SectorOf(c) > secpos
        BY <1>1, <1>3
      <4> QED BY <1>1, <4>1, Border
    <3> QED BY <1>1, <1>3, <3>1, <3>2
  <2>3. CASE c < addr + Len(buf)
    <3>1. c - (addr + secremain) + 1 \in 1 .. Len(buf')
      BY <1>1, <1>2, <1>3, <2>2, <2>3
    <3>2. buf'[c - (addr + secremain) + 1] = buf[secremain + (c - (addr + secremain) + 1)]
      BY <1>2, <3>1
    <3>3. secremain + (c - (addr + secremain) + 1) = c - addr + 1
      BY <1>1, <1>3
    <3> QED BY <1>1, <1>2, <1>3, <2>1, <2>2, <2>3, <3>2, <3>3
  <2>4. CASE ~(c < addr + Len(buf))
    BY <1>1, <1>2, <1>3, <2>1, <2>4
  <2> QED BY <2>3, <2>4
<1>6. Untouched'
  BY <1>0, <1>1 DEF Untouched, Around, Above
<1>7. NoWords'
  BY <1>1, <1>2 DEF NoWords
<1> QED BY <1>0, <1>4, <1>5, <1>6, <1>7 DEF Work, PageIsGoal, Programmed

LEMMA StepWork ==
  ASSUME TypeOK, Frame, Faultless, Around, Work, [Next]_vars PROVE Around' /\ Work'
<1>1. ASSUME NEW a \in Cells, NEW b \in Buffers, Call(a, b) PROVE Around' /\ Work'
  BY <1>1, CallWork
<1>2. CASE Erase \/ Program
  BY <1>2, OperationAround, EraseWork, ProgramWork
<1>3. CASE Scan \/ Return \/ NextSector
  BY <1>3, ScanWork, ReturnWork, NextSectorWork
<1>4. CASE PowerLoss
  BY <1>4 DEF PowerLoss, args, writer, history, Around, Below, Above, Work, Aim, Untouched,
     PageIsGoal, Programmed, NoWords
<1>5. CASE UNCHANGED vars
  BY <1>5 DEF vars, args, writer, history, counters, Around, Below, Above, Work, Aim,
     Untouched, PageIsGoal, Programmed, NoWords
<1> QED BY <1>1, <1>2, <1>3, <1>4, <1>5 DEF Next, flash_write

-----------------------------------------------------------------------------
(* The theorems.                                                           *)

LEMMA InitInv == Init => IInv
<1> SUFFICES ASSUME Init PROVE IInv
  OBVIOUS
<1>1. TypeOK
  BY BankSize DEF Init, TypeOK
<1> QED BY <1>1 DEF Init, IInv, Frame, Going, InPage, Faultless, NoErrorOfItsOwn, Kept, Erased,
           Around, Below, Above, Work, Aim, Untouched, PageIsGoal, Programmed, NoWords

LEMMA Invariance == Spec => []IInv
<1>1. IInv /\ [Next]_vars => IInv'
  BY StepTypes, StepFaultless, StepWork DEF IInv
<1> QED BY <1>1, InitInv, PTL DEF Spec

\* For every geometry of the flash and every buffer, flash_write keeps its place
\* inside the bank and its page, over every split of the buffer into sectors.
THEOREM TypeCorrect == Spec => []TypeOK
<1>1. IInv => TypeOK
  BY DEF IInv
<1> QED BY <1>1, Invariance, PTL

\* flash_write programs erased words only, whatever flash it finds and whenever
\* the power went before: an error bit is latched by a fault, or not at all.
THEOREM ProgramsErasedOnly == Spec => []NoErrorOfItsOwn
<1>1. IInv => NoErrorOfItsOwn
  BY DEF IInv, Faultless
<1> QED BY <1>1, Invariance, PTL

\* As long as the flash works, power losses at any moment leave all sectors but
\* the one in work as they were or as they should be.
THEOREM OneSectorAtRisk == Spec => []AtMostOneSectorTorn
<1>1. ASSUME IInv PROVE AtMostOneSectorTorn
  <2>1. secpos \in SectorIds
    BY <1>1 DEF IInv, TypeOK
  <2> QED BY <1>1, <2>1 DEF IInv, Around, Below, Above, AtMostOneSectorTorn
<1> QED BY <1>1, Invariance, PTL

-----------------------------------------------------------------------------
(* flash_write implements SectorStore.                                     *)

LEMMA NoSector == ASSUME NEW g(_), NEW S, S = {} PROVE [s \in S |-> g(s)] = << >>
  OBVIOUS

\* The job's sectors.
LEMMA LastBounds ==
  ASSUME TypeOK, Going, pc # "idle"
  PROVE  /\ LastSector \in Int /\ LastSector < Sectors
         /\ Len(buf) > 0 => secpos <= LastSector
         /\ secremain = Len(buf) => LastSector <= secpos
<1> DEFINE e == addr + Len(buf) - 1
           l == e \div SectorWords
<1>1. /\ secpos \in Nat /\ Len(buf) \in Nat /\ addr \in Nat /\ secoff \in Nat
      /\ secpos * SectorWords \in Nat /\ Sectors * SectorWords \in Nat
      /\ addr = secpos * SectorWords + secoff /\ secoff + secremain <= SectorWords
      /\ addr + Len(buf) <= Sectors * SectorWords
  BY Position, BankSize DEF Going
<1>2. e \in Int
  BY <1>1
<1>3. l \in Int /\ e = SectorWords * l + (e % SectorWords) /\ e % SectorWords \in 0 .. SectorWords - 1
  <2> HIDE DEF e
  <2> QED BY <1>2
<1>4. LastSector = l
  BY DEF LastSector, SectorOf
<1>5. e < Sectors * SectorWords
  BY <1>1
<1>6. Len(buf) > 0 => secpos * SectorWords <= e
  BY <1>1
<1>7. secremain = Len(buf) => e < secpos * SectorWords + SectorWords
  BY <1>1
<1> HIDE DEF e, l
<1>8. l * SectorWords \in Int /\ l * SectorWords <= e /\ e < l * SectorWords + SectorWords
  <2>1. l * SectorWords \in Int /\ l * SectorWords = SectorWords * l
    BY <1>3
  <2> QED BY <1>2, <1>3, <2>1
<1>9. \A s \in Int : l < s => (l + 1) * SectorWords <= s * SectorWords
  BY <1>3, Ordered
<1>10. \A s \in Int : s <= l => s * SectorWords <= l * SectorWords
  BY <1>3, Ordered
<1>11. \A s \in Int : s < l => (s + 1) * SectorWords <= l * SectorWords
  BY <1>3, Ordered
<1>12. l < Sectors
  BY <1>1, <1>2, <1>3, <1>5, <1>8, <1>10
<1>13. Len(buf) > 0 => secpos <= l
  <2> SUFFICES ASSUME Len(buf) > 0, l < secpos PROVE FALSE
    BY <1>1, <1>3
  <2>1. (l + 1) * SectorWords = l * SectorWords + SectorWords
    BY <1>3, NextBase
  <2> QED BY <1>1, <1>2, <1>6, <1>8, <1>9, <2>1
<1>14. secremain = Len(buf) => l <= secpos
  <2> SUFFICES ASSUME secremain = Len(buf), secpos < l PROVE FALSE
    BY <1>1, <1>3
  <2>1. (secpos + 1) * SectorWords = secpos * SectorWords + SectorWords
    BY <1>1, NextBase
  <2> QED BY <1>1, <1>2, <1>7, <1>8, <1>11, <2>1
<1> QED BY <1>3, <1>4, <1>12, <1>13, <1>14

LEMMA ToDoSectors == ASSUME TypeOK, Going PROVE ToDo \subseteq SectorIds
<1>1. CASE pc = "idle"
  BY <1>1 DEF ToDo
<1>2. CASE pc # "idle"
  BY <1>2, LastBounds DEF ToDo, TypeOK, SectorIds
<1> QED BY <1>1, <1>2

\* Contents of a sector are functions of the words in it.
LEMMA Reading ==
  ASSUME NEW f \in [Cells -> Words], NEW s \in SectorIds
  PROVE  /\ SectorRead(f, s) \in [0 .. SectorWords - 1 -> Words]
         /\ \A k \in 0 .. SectorWords - 1 : /\ s * SectorWords + k \in Cells
                                            /\ SectorOf(s * SectorWords + k) = s
<1>1. /\ s \in Nat /\ s * SectorWords \in Nat
      /\ s * SectorWords + SectorWords <= Sectors * SectorWords
  BY SectorInBank DEF SectorIds
<1>2. ASSUME NEW k \in 0 .. SectorWords - 1
      PROVE  s * SectorWords + k \in Cells /\ SectorOf(s * SectorWords + k) = s
  <2> DEFINE c == s * SectorWords + k
  <2>1. c \in Cells /\ c \in Nat
    BY <1>1, BankSize DEF Cells
  <2>2. s * SectorWords <= c /\ c < s * SectorWords + SectorWords
    BY <1>1
  <2> HIDE DEF c
  <2>3. ~(SectorOf(c) < s) /\ ~(SectorOf(c) > s) /\ SectorOf(c) \in Nat
    BY <1>1, <2>1, <2>2, Border, Division
  <2>4. SectorOf(c) = s
    BY <1>1, <2>3
  <2> QED BY <2>1, <2>4 DEF c
<1>3. SectorRead(f, s) \in [0 .. SectorWords - 1 -> Words]
  BY <1>2 DEF SectorRead
<1> QED BY <1>2, <1>3

LEMMA SameSector ==
  ASSUME NEW f \in [Cells -> Words], NEW g \in [Cells -> Words], NEW s \in SectorIds,
         \A c \in Cells : SectorOf(c) = s => f[c] = g[c]
  PROVE  SectorRead(f, s) = SectorRead(g, s)
  BY Reading DEF SectorRead

\* The mapped variables.
StoreOf == [s \in SectorIds |-> SectorRead(IF InWorkSector(s) THEN before ELSE flash, s)]
JobOf == [s \in ToDo |-> SectorRead(goal, s)]
Step == [Store!StoreNext]_(Store!storeVars)

LEMMA Stutters == ASSUME StoreOf' = StoreOf, JobOf' = JobOf, clean' = clean PROVE Step
  BY DEF StoreOf, JobOf, Step, Store!storeVars

LEMMA Fails ==
  ASSUME StoreOf' = StoreOf, JobOf' = JobOf, ToDo # {}, clean' = FALSE PROVE Step
<1>1. DOMAIN JobOf = ToDo
  BY DEF JobOf
<1>2. Store!Fail
  BY <1>1 DEF StoreOf, JobOf, Store!Fail, Store!Pending
<1> QED BY <1>2 DEF Step, Store!StoreNext

LEMMA Begins ==
  ASSUME StoreOf' = StoreOf, ToDo = {}, ToDo' \subseteq SectorIds,
         \A s, t \in ToDo' : s .. t \subseteq ToDo',
         goal' \in [Cells -> Words], clean' \in BOOLEAN
  PROVE  Step
<1>1. JobOf' \in [ToDo' -> [0 .. SectorWords - 1 -> Words]]
  BY Reading DEF JobOf
<1>2. DOMAIN JobOf = {}
  BY DEF JobOf
<1>3. Store!Begin
  <2>1. \E S \in SUBSET SectorIds :
          /\ \A s, t \in S : s .. t \subseteq S
          /\ JobOf' \in [S -> [0 .. SectorWords - 1 -> Words]]
    BY <1>1
  <2> QED BY <1>2, <2>1 DEF StoreOf, JobOf, Store!Begin, Store!Pending
<1> QED BY <1>3 DEF Step, Store!StoreNext

LEMMA Finishes ==
  ASSUME flash \in [Cells -> Words], goal \in [Cells -> Words], secpos \in SectorIds,
         secpos \in ToDo, \A t \in ToDo : secpos <= t,
         StoreOf' = [StoreOf EXCEPT ![secpos] = SectorRead(flash, secpos)],
         ToDo' = ToDo \ {secpos}, goal' = goal, clean' = clean,
         clean => SectorRead(flash, secpos) = SectorRead(goal, secpos)
  PROVE  Step
<1>1. /\ DOMAIN JobOf = ToDo /\ JobOf[secpos] = SectorRead(goal, secpos)
      /\ JobOf' = [t \in ToDo \ {secpos} |-> JobOf[t]]
  BY DEF JobOf
<1>2. SectorRead(flash, secpos) \in [0 .. SectorWords - 1 -> Words]
  BY Reading
<1>3. Store!Finish(secpos, SectorRead(flash, secpos))
  BY <1>1 DEF StoreOf, JobOf, Store!Finish, Store!InWork, Store!Pending
<1>4. CASE clean
  <2>1. Store!Finish(secpos, JobOf[secpos])
    BY <1>1, <1>3, <1>4
  <2>2. Store!Commit
    BY <1>1, <2>1 DEF JobOf, Store!Commit, Store!Pending
  <2> QED BY <2>2 DEF Step, Store!StoreNext
<1>5. CASE ~clean
  <2>1. Store!Spoil
    BY <1>1, <1>2, <1>3, <1>5 DEF JobOf, Store!Spoil, Store!Pending
  <2> QED BY <2>1 DEF Step, Store!StoreNext
<1> QED BY <1>4, <1>5

LEMMA Crashes ==
  ASSUME flash \in [Cells -> Words], secpos \in SectorIds,
         secpos \in ToDo, \A t \in ToDo : secpos <= t,
         StoreOf' = [StoreOf EXCEPT ![secpos] = SectorRead(flash, secpos)],
         ToDo' = {}, clean' = FALSE
  PROVE  Step
<1>1. DOMAIN JobOf = ToDo
  BY DEF JobOf
<1>2. JobOf' = << >>
  BY NoSector DEF JobOf
<1>3. SectorRead(flash, secpos) \in [0 .. SectorWords - 1 -> Words]
  BY Reading
<1>4. Store!Crash
  BY <1>1, <1>2, <1>3 DEF StoreOf, JobOf, Store!Crash, Store!InWork, Store!Pending
<1> QED BY <1>4 DEF Step, Store!StoreNext

LEMMA InitStore == Init => Store!StoreInit
<1> SUFFICES ASSUME Init PROVE Store!StoreInit
  OBVIOUS
<1>1. pc = "idle" /\ flash \in [Cells -> Words] /\ clean = TRUE
  BY DEF Init
<1>2. JobOf = << >>
  BY <1>1, NoSector DEF JobOf, ToDo
<1>3. StoreOf \in [SectorIds -> [0 .. SectorWords - 1 -> Words]]
  BY <1>1, Reading DEF StoreOf, InWorkSector
<1> QED BY <1>1, <1>2, <1>3 DEF StoreOf, JobOf, Store!StoreInit

LEMMA JobRange ==
  TypeOK /\ Going => ToDo \subseteq SectorIds /\ \A s, t \in ToDo : s .. t \subseteq ToDo
<1> SUFFICES ASSUME TypeOK, Going, NEW s \in ToDo, NEW t \in ToDo PROVE s .. t \subseteq ToDo
  BY ToDoSectors
<1>1. pc # "idle" /\ ToDo = secpos .. LastSector
  BY DEF ToDo
<1>2. secpos \in Int /\ LastSector \in Int
  BY <1>1, LastBounds DEF TypeOK, SectorIds
<1> QED BY <1>1, <1>2

LEMMA InJob ==
  ASSUME TypeOK, Going, pc # "idle"
  PROVE  /\ \A t \in ToDo : secpos <= t
         /\ Len(buf) # 0 => secpos \in ToDo
<1>1. secpos \in Int /\ LastSector \in Int /\ Len(buf) \in Nat
  BY LastBounds DEF TypeOK, SectorIds
<1>2. ToDo = secpos .. LastSector
  BY DEF ToDo
<1>3. Len(buf) # 0 => secpos <= LastSector
  BY <1>1, LastBounds
<1> QED BY <1>1, <1>2, <1>3

LEMMA SameJob ==
  ASSUME pc # "idle", pc' # "idle", UNCHANGED args, UNCHANGED history
  PROVE  ToDo' = ToDo /\ JobOf' = JobOf
<1>1. ToDo' = ToDo
  BY DEF ToDo, LastSector, SectorOf, args
<1> QED BY <1>1 DEF JobOf, history

LEMMA CallStore ==
  ASSUME TypeOK, Frame, NEW a \in Cells, NEW b \in Buffers, Call(a, b) PROVE Step
<1>1. TypeOK' /\ Going'
  BY CallTypes DEF Frame
<1>2. ToDo' \subseteq SectorIds /\ \A s, t \in ToDo' : s .. t \subseteq ToDo'
  <2>1. (TypeOK /\ Going => /\ ToDo \subseteq SectorIds
                            /\ \A s, t \in ToDo : s .. t \subseteq ToDo)'
    BY JobRange, PTL
  <2> QED BY <1>1, <2>1
<1>3. pc = "idle" /\ flash' = flash /\ before' = flash
  BY DEF Call
<1>4. ToDo = {} /\ StoreOf' = StoreOf
  BY <1>3 DEF ToDo, StoreOf, InWorkSector
<1> QED BY <1>1, <1>2, <1>4, Begins DEF TypeOK

LEMMA ScanStore == ASSUME Scan PROVE Step
<1>1. /\ pc # "idle" /\ pc' # "idle" /\ UNCHANGED args /\ UNCHANGED history
      /\ flash' = flash /\ clean' = clean
  BY DEF Scan
<1>2. StoreOf' = StoreOf
  BY <1>1 DEF StoreOf, InWorkSector, args, history
<1> QED BY <1>1, <1>2, SameJob, Stutters

LEMMA OperationStore ==
  ASSUME TypeOK, Frame, Work, flash' \in [Cells -> Words], Erase \/ Program PROVE Step
<1>1. /\ pc # "idle" /\ pc' # "idle" /\ UNCHANGED args /\ UNCHANGED history
  BY DEF Erase, Program
<1>2. clean' = clean \/ clean' = FALSE
  BY Zenon DEF Erase, Program, Operate
<1>3. StoreOf' = StoreOf
  <2>1. secpos' = secpos /\ before' = before
    BY <1>1 DEF args, history
  <2>2. ASSUME NEW s \in SectorIds, s # secpos PROVE SectorRead(flash', s) = SectorRead(flash, s)
    BY <2>2, OtherSectors, SameSector DEF TypeOK
  <2>3. \A s \in SectorIds : SectorRead(IF pc' # "idle" /\ s = secpos' THEN before' ELSE flash', s)
                              = SectorRead(IF pc # "idle" /\ s = secpos THEN before ELSE flash, s)
    BY <1>1, <2>1, <2>2
  <2> QED BY <2>3 DEF StoreOf, InWorkSector
<1>4. ToDo # {}
  <2>1. Len(buf) # 0
    BY DEF Work, NoWords, Erase, Program, TypeOK
  <2> QED BY <1>1, <2>1, InJob DEF Frame
<1> QED BY <1>1, <1>2, <1>3, <1>4, SameJob, Stutters, Fails

\* The flash of the sector in work becomes what the caller sees.
LEMMA Revealed ==
  ASSUME TypeOK, pc # "idle", flash' = flash, before' = before,
         pc' = "idle" \/ (pc' # "idle" /\ secpos' # secpos /\ secpos' \in SectorIds
                          /\ SectorRead(flash, secpos') = SectorRead(before, secpos'))
  PROVE  StoreOf' = [StoreOf EXCEPT ![secpos] = SectorRead(flash, secpos)]
<1>1. secpos \in SectorIds
  BY DEF TypeOK
<1>2. ASSUME NEW s \in SectorIds
      PROVE  SectorRead(IF pc' # "idle" /\ s = secpos' THEN before' ELSE flash', s)
             = IF s = secpos THEN SectorRead(flash, secpos)
               ELSE SectorRead(IF pc # "idle" /\ s = secpos THEN before ELSE flash, s)
  <2>1. CASE pc' # "idle" /\ s = secpos'
    BY <2>1
  <2>2. CASE ~(pc' # "idle" /\ s = secpos')
    BY <2>2
  <2> QED BY <2>1, <2>2
<1> QED BY <1>1, <1>2 DEF StoreOf, InWorkSector

\* A call for no words has nothing to reveal.
LEMMA NothingRevealed ==
  ASSUME TypeOK, Frame, Work, pc # "idle", secpos \notin ToDo
  PROVE  /\ ToDo = {}
         /\ [StoreOf EXCEPT ![secpos] = SectorRead(flash, secpos)] = StoreOf
<1>1. Len(buf) = 0 /\ flash = before
  BY InJob DEF Frame, Work, NoWords
<1>2. ToDo = {}
  <2>1. secremain = Len(buf)
    BY <1>1, Position DEF Frame
  <2>2. LastSector \in Int /\ secpos \in Int /\ LastSector <= secpos
    BY <2>1, LastBounds DEF Frame, TypeOK, SectorIds
  <2> QED BY <2>2 DEF ToDo
<1> QED BY <1>1, <1>2 DEF StoreOf, InWorkSector

LEMMA ReturnStore == ASSUME TypeOK, Frame, Work, Return PROVE Step
<1>1. /\ pc # "idle" /\ pc' = "idle" /\ flash' = flash /\ before' = before /\ goal' = goal
      /\ clean' = clean /\ Written /\ secremain = Len(buf)
  BY DEF Return, Written, More, history
<1>2. StoreOf' = [StoreOf EXCEPT ![secpos] = SectorRead(flash, secpos)]
  BY <1>1, Revealed
<1>3. ToDo' = {}
  BY <1>1 DEF ToDo
<1>4. CASE secpos \in ToDo
  <2>1. ToDo' = ToDo \ {secpos}
    <3>1. LastSector \in Int /\ secpos \in Int /\ LastSector <= secpos
      BY <1>1, LastBounds DEF Frame, TypeOK, SectorIds
    <3> QED BY <1>1, <1>3, <3>1 DEF ToDo
  <2>2. clean => SectorRead(flash, secpos) = SectorRead(goal, secpos)
    BY <1>1, SectorDone, SameSector DEF TypeOK
  <2>3. \A t \in ToDo : secpos <= t
    BY <1>1, InJob DEF Frame
  <2> QED BY <1>1, <1>2, <1>4, <2>1, <2>2, <2>3, Finishes DEF TypeOK
<1>5. CASE secpos \notin ToDo
  <2>1. ToDo = {} /\ StoreOf' = StoreOf
    BY <1>1, <1>2, <1>5, NothingRevealed
  <2>2. JobOf' = JobOf
    BY <1>3, <2>1, NoSector DEF JobOf
  <2> QED BY <1>1, <2>1, <2>2, Stutters
<1> QED BY <1>4, <1>5

LEMMA NextSectorStore == ASSUME TypeOK, Frame, Around, Work, NextSector PROVE Step
<1>1. /\ pc # "idle" /\ pc' # "idle" /\ flash' = flash /\ before' = before /\ goal' = goal
      /\ clean' = clean /\ Written /\ secremain # Len(buf) /\ secpos' = secpos + 1
      /\ addr' = addr + secremain /\ buf' = Rest
  BY DEF NextSector, Written, More, history
<1>2. secpos' \in SectorIds /\ secpos \in SectorIds /\ secpos \in Int
  BY NextSectorTypes DEF TypeOK, SectorIds
<1>3. SectorRead(flash, secpos') = SectorRead(before, secpos')
  <2>1. \A c \in Cells : SectorOf(c) = secpos' => flash[c] = before[c]
    BY <1>1, <1>2 DEF Around, Above
  <2> QED BY <1>2, <2>1, SameSector DEF TypeOK
<1>4. StoreOf' = [StoreOf EXCEPT ![secpos] = SectorRead(flash, secpos)]
  BY <1>1, <1>2, <1>3, Revealed
<1>5. Len(buf) \in Nat /\ secremain \in Nat /\ secremain < Len(buf) /\ addr \in Nat
  BY <1>1, Position DEF Frame
<1>6. Len(buf') = Len(buf) - secremain
  <2>1. \A k \in secremain + 1 .. Len(buf) : buf[k] \in Words
    BY <1>5 DEF TypeOK
  <2> QED BY <1>1, <1>5, <2>1, SubSeqProperties DEF Rest
<1>7. LastSector' = LastSector
  <2>1. addr' + Len(buf') - 1 = addr + Len(buf) - 1
    BY <1>1, <1>5, <1>6
  <2> QED BY <2>1 DEF LastSector, SectorOf
<1>8. ToDo' = ToDo \ {secpos}
  <2>1. LastSector \in Int
    BY <1>1, LastBounds DEF Frame
  <2>2. ToDo' = secpos + 1 .. LastSector /\ ToDo = secpos .. LastSector
    BY <1>1, <1>7 DEF ToDo
  <2> QED BY <1>2, <2>1, <2>2
<1>9. secpos \in ToDo /\ \A t \in ToDo : secpos <= t
  BY <1>1, <1>5, InJob DEF Frame
<1>10. clean => SectorRead(flash, secpos) = SectorRead(goal, secpos)
  BY <1>1, SectorDone, SameSector DEF TypeOK
<1> QED BY <1>1, <1>2, <1>4, <1>8, <1>9, <1>10, Finishes DEF TypeOK

LEMMA PowerLossStore == ASSUME TypeOK, Frame, Work, PowerLoss PROVE Step
<1>1. /\ pc' = "idle" /\ flash' = flash /\ before' = before /\ goal' = goal
      /\ UNCHANGED args
  BY DEF PowerLoss, history
<1>2. ToDo' = {}
  BY <1>1 DEF ToDo
<1>3. CASE pc = "idle"
  <2>1. clean' = clean
    BY Zenon, <1>3 DEF PowerLoss, TypeOK
  <2>2. StoreOf' = StoreOf
    BY <1>1, <1>3 DEF StoreOf, InWorkSector
  <2>3. ToDo = {}
    BY <1>3 DEF ToDo
  <2>4. JobOf' = JobOf
    BY <1>2, <2>3, NoSector DEF JobOf
  <2> QED BY <2>1, <2>2, <2>4, Stutters
<1>4. CASE pc # "idle"
  <2>1. clean' = FALSE
    BY Zenon, <1>4 DEF PowerLoss
  <2>2. StoreOf' = [StoreOf EXCEPT ![secpos] = SectorRead(flash, secpos)]
    BY <1>1, <1>4, Revealed
  <2>3. CASE secpos \in ToDo
    <3>1. \A t \in ToDo : secpos <= t
      BY <1>4, InJob DEF Frame
    <3> QED BY <1>2, <2>1, <2>2, <2>3, <3>1, Crashes DEF TypeOK
  <2>4. CASE secpos \notin ToDo
    <3>1. ToDo = {} /\ StoreOf' = StoreOf
      BY <1>4, <2>2, <2>4, NothingRevealed
    <3> QED BY <1>1, <1>2, <2>1, <3>1, Begins DEF TypeOK
  <2> QED BY <2>3, <2>4
<1> QED BY <1>3, <1>4

LEMMA StepStore == ASSUME IInv, [Next]_vars PROVE Step
<1>0. TypeOK /\ Frame /\ Around /\ Work /\ TypeOK'
  BY StepTypes DEF IInv
<1>1. ASSUME NEW a \in Cells, NEW b \in Buffers, Call(a, b) PROVE Step
  BY <1>0, <1>1, CallStore
<1>2. CASE Erase \/ Program
  BY <1>0, <1>2, OperationStore DEF TypeOK
<1>3. CASE Scan \/ Return \/ NextSector
  BY <1>0, <1>3, ScanStore, ReturnStore, NextSectorStore
<1>4. CASE PowerLoss
  BY <1>0, <1>4, PowerLossStore
<1>5. CASE UNCHANGED vars
  <2>1. StoreOf' = StoreOf /\ JobOf' = JobOf /\ clean' = clean
    BY <1>5 DEF vars, args, history, StoreOf, JobOf, InWorkSector, ToDo, LastSector, SectorOf
  <2> QED BY <2>1, Stutters
<1> QED BY <1>1, <1>2, <1>3, <1>4, <1>5 DEF Next, flash_write

\* For every geometry and every buffer, with operations that fail and power lost at any
\* moment, each step of flash_write is one of SectorStore, or invisible there.
THEOREM WritesSectors == Spec => ImplementsStore
<1>1. IInv /\ [Next]_vars => [Store!StoreNext]_(Store!storeVars)
  BY StepStore DEF Step
<1> QED BY <1>1, InitStore, Invariance, PTL DEF Spec, ImplementsStore, Store!StoreSpec
=============================================================================
