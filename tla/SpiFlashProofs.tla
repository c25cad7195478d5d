---------------------------- MODULE SpiFlashProofs ----------------------------
(***************************************************************************)
(* The SPI flash driver, for every geometry of the chip: it leaves nothing *)
(* enabled, programs over erased bytes only, writes and reads what it says.*)
(***************************************************************************)
EXTENDS SpiFlash, SequenceTheorems, TLAPS

\* One sequence of four behind another.
LEMMA Joined ==
  ASSUME NEW S, NEW e \in Seq(S), NEW p \in Seq(S), Len(e) = 4, Len(p) = 4
  PROVE  /\ e \o p \in Seq(S) /\ Len(e \o p) = 8
         /\ (e \o p)[1] = e[1] /\ (e \o p)[2] = e[2]
         /\ (e \o p)[3] = e[3] /\ (e \o p)[4] = e[4]
         /\ (e \o p)[5] = p[1] /\ (e \o p)[6] = p[2]
         /\ (e \o p)[7] = p[3] /\ (e \o p)[8] = p[4]
<1> DEFINE q == e \o p
<1>1. /\ q \in Seq(S) /\ Len(q) = Len(e) + Len(p)
      /\ \A i \in 1 .. Len(e) + Len(p) : q[i] = IF i <= Len(e) THEN e[i] ELSE p[i - Len(e)]
  <2>1. e \o p \in Seq(S) /\ Len(e \o p) = Len(e) + Len(p)
    BY ConcatProperties, Zenon
  <2>2. \A i \in 1 .. Len(e) + Len(p) :
          (e \o p)[i] = IF i <= Len(e) THEN e[i] ELSE p[i - Len(e)]
    BY ConcatProperties, Zenon
  <2> QED BY <2>1, <2>2, Zenon
<1> HIDE DEF q
<1>2. Len(q) = 8 /\ \A i \in 1 .. 8 : q[i] = IF i <= 4 THEN e[i] ELSE p[i - 4]
  BY <1>1
<1>3. /\ q[1] = e[1] /\ q[2] = e[2] /\ q[3] = e[3] /\ q[4] = e[4]
      /\ q[5] = p[1] /\ q[6] = p[2] /\ q[7] = p[3] /\ q[8] = p[4]
  BY <1>2
<1>4. /\ q \in Seq(S) /\ Len(q) = 8
      /\ q[1] = e[1] /\ q[2] = e[2] /\ q[3] = e[3] /\ q[4] = e[4]
      /\ q[5] = p[1] /\ q[6] = p[2] /\ q[7] = p[3] /\ q[8] = p[4]
  BY <1>1, <1>2, <1>3
<1> QED BY <1>4, Zenon DEF q

LEMMA Elsewhere == \A n : n \in {1, 4, 5, 8} => n \notin {2, 3, 6, 7}
  OBVIOUS

USE SpiAssumption DEF SpiAssumption

-----------------------------------------------------------------------------
(* Cells, pages and sectors.                                               *)

LEMMA Ordered ==
  ASSUME NEW m \in Int, NEW n \in Int, NEW w \in Nat, m <= n PROVE m * w <= n * w
<1>1. (n - m) * w \in Nat
  OBVIOUS
<1>2. (n - m) * w = n * w - m * w
  OBVIOUS
<1> QED BY <1>1, <1>2

LEMMA Division ==
  ASSUME NEW x \in Nat, NEW w \in Nat \ {0}
  PROVE  /\ x \div w \in Nat /\ x % w \in 0 .. w - 1 /\ (x \div w) * w \in Nat
         /\ x = (x \div w) * w + (x % w)
<1>1. x \div w \in Nat /\ x % w \in 0 .. w - 1
  OBVIOUS
<1>2. x = w * (x \div w) + (x % w)
  OBVIOUS
<1> QED BY <1>1, <1>2

LEMMA Quotient ==
  ASSUME NEW x \in Nat, NEW w \in Nat \ {0}, NEW q \in Nat,
         q * w <= x, x < q * w + w
  PROVE  x \div w = q
<1> DEFINE p == x \div w
<1>1. /\ p \in Nat /\ p * w \in Nat /\ q * w \in Nat /\ x % w \in 0 .. w - 1
      /\ x = p * w + (x % w)
  <2>1. q * w \in Nat
    OBVIOUS
  <2>2. p \in Nat /\ p * w \in Nat /\ x % w \in 0 .. w - 1 /\ x = p * w + (x % w)
    BY Division
  <2> HIDE DEF p
  <2> QED BY <2>1, <2>2
<1> HIDE DEF p
<1>2. p * w <= x /\ x < p * w + w
  BY <1>1
<1>3. ~(p < q)
  <2>1. SUFFICES ASSUME p < q PROVE FALSE
    OBVIOUS
  <2>2. (p + 1) * w <= q * w
    BY <1>1, <2>1, Ordered
  <2>3. (p + 1) * w = p * w + w
    BY <1>1
  <2> QED BY <1>1, <1>2, <2>2, <2>3
<1>4. ~(q < p)
  <2>1. SUFFICES ASSUME q < p PROVE FALSE
    OBVIOUS
  <2>2. (q + 1) * w <= p * w
    BY <1>1, <2>1, Ordered
  <2>3. (q + 1) * w = q * w + w
    OBVIOUS
  <2> QED BY <1>1, <1>2, <2>2, <2>3
<1>5. p = q
  BY <1>1, <1>3, <1>4
<1> QED BY <1>5 DEF p

LEMMA Size == /\ SECSIZE * Sectors \in Nat \ {0} /\ Cells \subseteq Nat /\ 0 \in Cells
              /\ \A c \in Cells, x \in Nat : x <= c => x \in Cells
<1>1. 1 * Sectors <= SECSIZE * Sectors
  BY Ordered
<1>2. SECSIZE * Sectors \in Nat \ {0}
  BY <1>1
<1> QED BY <1>2 DEF Cells

LEMMA Base ==
  ASSUME NEW a \in Cells
  PROVE  SectorBase(a) \in Cells /\ SectorOf(SectorBase(a)) = SectorOf(a)
<1> DEFINE q == a \div SECSIZE
<1>1. /\ a \in Nat /\ q \in Nat /\ q * SECSIZE \in Nat /\ a % SECSIZE \in 0 .. SECSIZE - 1
      /\ a = q * SECSIZE + (a % SECSIZE)
  BY Division, Size
<1> HIDE DEF q
<1>2. q * SECSIZE <= a
  BY <1>1
<1>3. q * SECSIZE \in Cells
  BY <1>1, <1>2, Size
<1>4. (q * SECSIZE) \div SECSIZE = q
  <2> DEFINE b == q * SECSIZE
  <2>1. b \in Nat /\ b = q * SECSIZE
    BY <1>1
  <2> HIDE DEF b
  <2>2. b \div SECSIZE = q
    BY <1>1, <2>1, Quotient
  <2> QED BY <2>1, <2>2
<1> QED BY <1>3, <1>4 DEF q, SectorBase, SectorOf

LEMMA SectorIndex == ASSUME NEW c \in Cells PROVE SectorOf(c) \in 0 .. Sectors - 1
<1> DEFINE q == c \div SECSIZE
<1>1. /\ c \in Nat /\ q \in Nat /\ q * SECSIZE \in Nat /\ c % SECSIZE \in 0 .. SECSIZE - 1
      /\ c = q * SECSIZE + (c % SECSIZE)
  BY Division, Size
<1>2. c < SECSIZE * Sectors
  BY Size DEF Cells
<1> HIDE DEF q
<1>3. ~(Sectors <= q)
  <2>1. SUFFICES ASSUME Sectors <= q PROVE FALSE
    OBVIOUS
  <2>2. Sectors * SECSIZE <= q * SECSIZE
    BY <1>1, <2>1, Ordered
  <2>3. Sectors * SECSIZE = SECSIZE * Sectors /\ SECSIZE * Sectors \in Nat
    OBVIOUS
  <2> QED BY <1>1, <1>2, <2>2, <2>3
<1> QED BY <1>1, <1>3 DEF q, SectorOf

\* A sector is made of whole pages.
LEMMA PageInSector ==
  ASSUME NEW x \in Nat PROVE SectorOf(x) = PageOf(x) \div (SECSIZE \div PAGESIZE)
<1> DEFINE m == SECSIZE \div PAGESIZE
           q == x \div PAGESIZE
           s == q \div m
<1>1. m \in Nat /\ m * PAGESIZE = SECSIZE
  BY Division
<1>2. m \in Nat \ {0}
  BY <1>1
<1>3. /\ q \in Nat /\ q * PAGESIZE \in Nat /\ x % PAGESIZE \in 0 .. PAGESIZE - 1
      /\ x = q * PAGESIZE + (x % PAGESIZE)
  BY Division
<1> HIDE DEF m, q
<1>4. /\ s \in Nat /\ s * m \in Nat /\ q % m \in 0 .. m - 1
      /\ q = s * m + (q % m)
  BY <1>2, <1>3, Division
<1> HIDE DEF s
<1>5. (s * m) * PAGESIZE <= q * PAGESIZE
  BY <1>3, <1>4, Ordered
<1>6. q + 1 <= (s + 1) * m
  <2>1. (s + 1) * m = s * m + m
    BY <1>2, <1>4
  <2> QED BY <1>2, <1>3, <1>4, <2>1
<1>7. (q + 1) * PAGESIZE <= ((s + 1) * m) * PAGESIZE
  BY <1>2, <1>3, <1>4, <1>6, Ordered
<1>8. /\ (q + 1) * PAGESIZE = q * PAGESIZE + PAGESIZE
      /\ (s * m) * PAGESIZE = s * SECSIZE
      /\ ((s + 1) * m) * PAGESIZE = s * SECSIZE + SECSIZE
      /\ s * SECSIZE \in Nat
  <2>1. (q + 1) * PAGESIZE = q * PAGESIZE + PAGESIZE
    BY <1>3
  <2>2. (s * m) * PAGESIZE = s * (m * PAGESIZE)
    BY <1>2, <1>4
  <2>3. ((s + 1) * m) * PAGESIZE = (s + 1) * (m * PAGESIZE)
    BY <1>2, <1>4
  <2>4. (s + 1) * SECSIZE = s * SECSIZE + SECSIZE /\ s * SECSIZE \in Nat
    BY <1>4
  <2> QED BY <1>1, <2>1, <2>2, <2>3, <2>4
<1>9. s * SECSIZE <= x /\ x < s * SECSIZE + SECSIZE
  BY <1>3, <1>5, <1>7, <1>8
<1>10. x \div SECSIZE = s
  BY <1>4, <1>9, Quotient
<1> QED BY <1>10 DEF SectorOf, PageOf, s, q, m

\* A page program stays in its page.
LEMMA Placed ==
  ASSUME NEW a \in Cells, NEW k \in Nat \ {0}
  PROVE  /\ Place(a, k) \in Nat
         /\ SectorOf(Place(a, k)) = SectorOf(a)
         /\ PageOf(a + k - 1) = PageOf(a) => Place(a, k) = a + k - 1
<1> DEFINE q == a \div PAGESIZE
           y == a + k - 1
           r == y % PAGESIZE
<1>1. a \in Nat /\ q \in Nat /\ q * PAGESIZE \in Nat /\ y \in Nat
  <2>1. a \in Nat
    BY Size
  <2>2. q \in Nat /\ q * PAGESIZE \in Nat
    BY <2>1, Division
  <2>3. y \in Nat
    BY <2>1
  <2> QED BY <2>1, <2>2, <2>3
<1>2. r \in 0 .. PAGESIZE - 1 /\ y = (y \div PAGESIZE) * PAGESIZE + r
  BY <1>1, Division
<1>3. Place(a, k) = q * PAGESIZE + r
  BY DEF Place, PageOf
<1>4. y \div PAGESIZE = q => Place(a, k) = y
  BY <1>2, <1>3
<1>5. Place(a, k) \in Nat
  BY <1>1, <1>2, <1>3
<1>6. q * PAGESIZE <= Place(a, k) /\ Place(a, k) < q * PAGESIZE + PAGESIZE
  <2> HIDE DEF q, r
  <2> QED BY <1>1, <1>2, <1>3
<1>7. PageOf(Place(a, k)) = q
  <2> HIDE DEF q, r
  <2> QED BY <1>1, <1>5, <1>6, Quotient DEF PageOf
<1>8. SectorOf(Place(a, k)) = SectorOf(a)
  BY <1>1, <1>5, <1>7, PageInSector DEF PageOf
<1> QED BY <1>4, <1>5, <1>8 DEF PageOf

-----------------------------------------------------------------------------
(* The invariant.                                                          *)

Pages == {d \in Seq(Data) : Len(d) <= PAGESIZE}

Transactions ==
  [cmd : {"none", "wait", "enable", "disable", "release", "sleep", "id", "read", "erase",
          "program"},
   addr : Cells, data : Pages]

ChipTypes ==
  /\ mem \in [Cells -> Contents] /\ wel \in BOOLEAN /\ asleep \in BOOLEAN
  /\ running \in Transactions /\ running.cmd \in {"none", "erase", "program"}
  /\ running.cmd = "none" => running = Idle

CallerTypes ==
  /\ call \in {"none", "open", "read", "erase", "write", "close"}
  /\ addr \in Cells /\ buf \in Seq(Data) /\ (call = "write" => buf \in Buffers)
  /\ opened \in BOOLEAN /\ before \in [Cells -> Contents] /\ calls \in 0 .. MaxCalls

DriverTypes ==
  /\ todo \in Seq(Transactions) /\ rbuf \in Seq(Contents \cup {"garbage"})
  /\ device_id \in {ChipId} \cup Junk /\ late \in BOOLEAN

Types == ChipTypes /\ CallerTypes /\ DriverTypes

\* What a function sends in all, transaction by transaction, and where it is.
Total == IF call \in {"open", "close"} THEN 2 ELSE IF call = "erase" THEN 4 ELSE 8

Passed == IF call = "read" THEN Len(rbuf) ELSE Total - Len(todo)

EraseAt == Command("erase", IF call = "erase" THEN addr ELSE SectorBase(addr), << >>)
ProgramAt == Command("program", addr, Clip(buf))

Plan(i) ==
  CASE call = "open" -> IF i = 1 THEN Simple("release") ELSE Simple("id")
    [] call = "close" -> IF i = 1 THEN Simple("disable") ELSE Simple("sleep")
    [] call = "read" -> Command("read", addr + i - 1, << >>)
    [] OTHER -> IF i \in {1, 5} THEN Simple("enable")
                ELSE IF i = 3 THEN EraseAt ELSE IF i = 7 THEN ProgramAt ELSE Wait

OnPlan ==
  /\ call = "none" => todo = << >>
  /\ call # "read" => Len(todo) <= Total
  /\ \A k \in 1 .. Len(todo) : todo[k] = Plan(Passed + k)

Session ==
  /\ opened <=> call \in {"open", "read", "erase", "write"}
  /\ opened /\ asleep => call = "open" /\ Len(todo) = 2

\* Between an enable and the erase or program it is for.
Enabled ==
  << >> \notin Buffers /\ wel /\ running = Idle =>
    call \in {"erase", "write"} /\ Len(todo) \in {2, 3, 6, 7}

\* As long as no wait was given up, the chip is busy only behind an erase or a
\* program, and an enable was heard.
Ready ==
  ~late /\ running # Idle =>
    /\ call \in {"erase", "write"} /\ Len(todo) \in {1, 5}
    /\ running = IF call = "write" /\ Len(todo) = 1 THEN ProgramAt ELSE EraseAt
    /\ call = "erase" => Len(todo) = 1

Heard == ~late /\ call \in {"erase", "write"} /\ Len(todo) \in {2, 3, 6, 7} => wel

Clean == ~late => \A c \in Cells : mem[c] # Mixed /\ before[c] # Mixed

ReadSoFar ==
  ~late /\ call = "read" => \A k \in 1 .. Len(rbuf) : rbuf[k] = mem[addr + k - 1]

\* The memory behind the erase of a write, and behind its program.
Blank == [c \in Cells |-> IF SectorOf(c) = SectorOf(addr) THEN FF ELSE before[c]]

Written ==
  [c \in Cells |->
     IF \E k \in 1 .. Len(Clip(buf)) : Place(addr, k) = c
     THEN Clip(buf)[CHOOSE k \in 1 .. Len(Clip(buf)) : Place(addr, k) = c] ELSE Blank[c]]

WroteSoFar ==
  ~late /\ call = "write" =>
    mem = IF Len(todo) > 5 \/ (Len(todo) = 5 /\ running # Idle) THEN before
          ELSE IF Len(todo) > 1 \/ running # Idle THEN Blank ELSE Written

InTime == Ready /\ Heard /\ Clean /\ ReadSoFar /\ WroteSoFar

IInv == Types /\ OnPlan /\ Session /\ Enabled /\ InTime

-----------------------------------------------------------------------------
(* Types.                                                                  *)

LEMMA SimpleType ==
  /\ \A c \in {"none", "wait", "enable", "disable", "release", "sleep", "id"} :
       Simple(c) \in Transactions
  /\ Idle.cmd = "none" /\ Idle \in Transactions /\ Wait \in Transactions
<1>1. << >> \in Pages
  BY EmptySeq DEF Pages
<1> QED BY <1>1, Size DEF Simple, Command, Idle, Wait, Transactions

LEMMA ClipType ==
  ASSUME NEW b \in Seq(Data)
  PROVE  /\ Clip(b) \in Pages /\ Clip(b) \in Seq(Data)
         /\ Len(Clip(b)) = IF Len(b) > PAGESIZE THEN PAGESIZE ELSE Len(b)
         /\ \A k \in 1 .. Len(Clip(b)) : Clip(b)[k] = b[k] /\ b[k] \in Data
<1> DEFINE n == IF Len(b) > PAGESIZE THEN PAGESIZE ELSE Len(b)
<1>1. Len(b) \in Nat /\ \A k \in 1 .. Len(b) : b[k] \in Data
  BY LenProperties
<1>2. n \in Nat /\ n <= Len(b) /\ n <= PAGESIZE
  BY <1>1
<1> HIDE DEF n
<1>3. \A k \in 1 .. n : b[k] \in Data
  BY <1>1, <1>2
<1>4. /\ SubSeq(b, 1, n) \in Seq(Data)
      /\ Len(SubSeq(b, 1, n)) = n
      /\ \A k \in 1 .. n : SubSeq(b, 1, n)[k] = b[k]
  BY <1>2, <1>3, SubSeqProperties
<1> QED BY <1>2, <1>3, <1>4 DEF Clip, Pages, n

LEMMA EraseSeq ==
  ASSUME NEW a \in Cells
  PROVE  /\ spi_flash_erase(a) \in Seq(Transactions) /\ Len(spi_flash_erase(a)) = 4
         /\ spi_flash_erase(a)[1] = Simple("enable") /\ spi_flash_erase(a)[2] = Wait
         /\ spi_flash_erase(a)[3] = Command("erase", a, << >>)
         /\ spi_flash_erase(a)[4] = Wait
<1>1. Command("erase", a, << >>) \in Transactions
  BY EmptySeq DEF Command, Transactions, Pages
<1>2. Simple("enable") \in Transactions /\ Wait \in Transactions
  BY SimpleType
<1> HIDE DEF Transactions
<1> QED BY <1>1, <1>2 DEF spi_flash_erase

LEMMA WriteSeq ==
  ASSUME NEW a \in Cells, NEW b \in Seq(Data)
  PROVE  /\ spi_flash_write(a, b) \in Seq(Transactions) /\ Len(spi_flash_write(a, b)) = 8
         /\ \A k \in {1, 5} : spi_flash_write(a, b)[k] = Simple("enable")
         /\ \A k \in {2, 4, 6, 8} : spi_flash_write(a, b)[k] = Wait
         /\ spi_flash_write(a, b)[3] = Command("erase", SectorBase(a), << >>)
         /\ spi_flash_write(a, b)[7] = Command("program", a, Clip(b))
<1> DEFINE e == spi_flash_erase(SectorBase(a))
           p == <<Simple("enable"), Wait, Command("program", a, Clip(b)), Wait>>
<1>1. Command("program", a, Clip(b)) \in Transactions
  BY ClipType DEF Command, Transactions
<1>2. Simple("enable") \in Transactions /\ Wait \in Transactions
  BY SimpleType
<1>3. /\ p \in Seq(Transactions) /\ Len(p) = 4 /\ p[1] = Simple("enable") /\ p[2] = Wait
      /\ p[3] = Command("program", a, Clip(b)) /\ p[4] = Wait
  BY <1>1, <1>2
<1>4. /\ e \in Seq(Transactions) /\ Len(e) = 4 /\ e[1] = Simple("enable") /\ e[2] = Wait
      /\ e[3] = Command("erase", SectorBase(a), << >>) /\ e[4] = Wait
  BY Base, EraseSeq
<1>5. spi_flash_write(a, b) = e \o p
  BY DEF spi_flash_write
<1> HIDE DEF e, p, Transactions
<1>6. e \o p \in Seq(Transactions) /\ Len(e \o p) = 8
  BY <1>3, <1>4, Joined
<1>7. /\ (e \o p)[1] = e[1] /\ (e \o p)[2] = e[2] /\ (e \o p)[3] = e[3] /\ (e \o p)[4] = e[4]
      /\ (e \o p)[5] = p[1] /\ (e \o p)[6] = p[2] /\ (e \o p)[7] = p[3] /\ (e \o p)[8] = p[4]
  BY <1>3, <1>4, Joined
<1> QED BY <1>3, <1>4, <1>5, <1>6, <1>7

LEMMA ReadSeq ==
  ASSUME NEW a \in Cells, NEW n \in Lengths, a + n - 1 \in Cells \cup {-1}
  PROVE  [k \in 1 .. n |-> Command("read", a + k - 1, << >>)] \in Seq(Transactions)
<1>1. n \in Nat /\ a \in Nat
  BY Size
<1>2. ASSUME NEW k \in 1 .. n PROVE a + k - 1 \in Cells
  <2>1. a + k - 1 \in Nat /\ a + k - 1 <= a + n - 1 /\ a + n - 1 # -1
    BY <1>1
  <2> QED BY <2>1, Size
<1>3. \A k \in 1 .. n : Command("read", a + k - 1, << >>) \in Transactions
  BY <1>2, EmptySeq DEF Command, Transactions, Pages
<1> HIDE DEF Transactions
<1> QED BY <1>1, <1>3, SeqDef

\* What the chip makes of a transaction, case by case.
LEMMA Obeyed ==
  ASSUME NEW t, Obey(t)
  PROVE  \/ t.cmd = "enable" /\ Awake /\ wel' = TRUE /\ UNCHANGED <<mem, asleep, running>>
         \/ t.cmd = "disable" /\ Awake /\ wel' = FALSE /\ UNCHANGED <<mem, asleep, running>>
         \/ t.cmd = "sleep" /\ Awake /\ asleep' = TRUE /\ UNCHANGED <<mem, wel, running>>
         \/ t.cmd = "release" /\ asleep' = FALSE /\ UNCHANGED <<mem, wel, running>>
         \/ /\ t.cmd = "erase" \/ (t.cmd = "program" /\ t.data # << >>)
            /\ Awake /\ wel /\ running' = t /\ UNCHANGED <<mem, wel, asleep>>
         \/ /\ t.cmd \notin {"release"}
            /\ t.cmd \in {"enable", "disable", "sleep"} => ~Awake
            /\ t.cmd = "erase" => ~Awake \/ ~wel
            /\ t.cmd = "program" => ~Awake \/ ~wel \/ t.data = << >>
            /\ UNCHANGED chip
  BY DEF Obey

LEMMA ObeyTypes == ASSUME ChipTypes, NEW t \in Transactions, Obey(t) PROVE ChipTypes'
<1>1. wel' \in BOOLEAN /\ asleep' \in BOOLEAN
  BY Obeyed, Zenon DEF chip, ChipTypes
<1>2. mem' = mem /\ (running' = running \/ (running' = t /\ t.cmd \in {"erase", "program"}))
  BY Obeyed DEF chip
<1> QED BY <1>1, <1>2 DEF ChipTypes

LEMMA FinishTypes == ASSUME ChipTypes, Finish PROVE ChipTypes'
<1>1. wel' \in BOOLEAN /\ asleep' \in BOOLEAN
  BY Zenon DEF Finish, ChipTypes
<1>2. running' \in Transactions /\ running'.cmd = "none" /\ running' = Idle
  BY SimpleType DEF Finish
<1>3. \A c \in Cells : Programmed(running.addr, running.data)[c] \in Contents
  <2>1. SUFFICES ASSUME NEW c \in Cells
                 PROVE  Programmed(running.addr, running.data)[c] \in Contents
    OBVIOUS
  <2> DEFINE d == running.data
             K == 1 .. Len(d)
             k == CHOOSE i \in K : Place(running.addr, i) = c
  <2>2. CASE \E i \in K : Place(running.addr, i) = c
    <3>1. k \in K
      BY <2>2
    <3>2. d \in Seq(Data)
      BY DEF ChipTypes, Transactions, Pages
    <3>3. d[k] \in Data
      BY <3>1, <3>2, LenProperties
    <3>4. Programmed(running.addr, d)[c] = Over(mem[c], d[k])
      BY <2>2, Zenon DEF Programmed
    <3>5. mem[c] \in Contents
      BY DEF ChipTypes
    <3> QED BY <3>3, <3>4, <3>5 DEF Over, Contents
  <2>3. CASE ~ \E i \in K : Place(running.addr, i) = c
    <3>1. Programmed(running.addr, d)[c] = mem[c]
      BY <2>3, Zenon DEF Programmed
    <3> QED BY <3>1 DEF ChipTypes
  <2> QED BY <2>2, <2>3
<1>4. Programmed(running.addr, running.data) \in [Cells -> Contents]
  <2> DEFINE f(c) == IF \E k \in 1 .. Len(running.data) : Place(running.addr, k) = c
                     THEN Over(mem[c], running.data[CHOOSE k \in 1 .. Len(running.data) :
                                                      Place(running.addr, k) = c])
                     ELSE mem[c]
  <2>1. Programmed(running.addr, running.data) = [c \in Cells |-> f(c)]
    BY DEF Programmed
  <2> DEFINE p == Programmed(running.addr, running.data)
  <2>2. p = [c \in Cells |-> f(c)] /\ \A c \in Cells : p[c] \in Contents
    BY <1>3, <2>1
  <2> HIDE DEF f, p
  <2>3. p \in [Cells -> Contents]
    BY <2>2
  <2> QED BY <2>3 DEF p
<1>5. mem' \in [Cells -> Contents]
  <2>1. CASE running.cmd = "erase"
    BY <2>1 DEF Finish, ChipTypes, Contents
  <2>2. CASE running.cmd # "erase"
    BY <1>4, <2>2 DEF Finish
  <2> QED BY <2>1, <2>2
<1> QED BY <1>1, <1>2, <1>5 DEF ChipTypes

\* The transaction a driver step sends, and what is left behind it.
LEMMA Advance ==
  ASSUME Types, OnPlan, todo # << >>, todo' = Tail(todo)
  PROVE  /\ Len(todo) \in Nat \ {0} /\ Head(todo) \in Transactions
         /\ Head(todo) = Plan(Passed + 1)
         /\ todo' \in Seq(Transactions) /\ Len(todo') = Len(todo) - 1
         /\ \A k \in 1 .. Len(todo') : todo'[k] = Plan((Passed + 1) + k)
         /\ Passed \in Nat /\ call # "none"
<1>1. todo \in Seq(Transactions) /\ Len(todo) \in Nat \ {0}
  BY EmptySeq DEF Types, DriverTypes
<1>2. /\ Head(todo) \in Transactions /\ todo' \in Seq(Transactions)
      /\ Len(todo') = Len(todo) - 1 /\ \A k \in 1 .. Len(todo') : todo'[k] = todo[k + 1]
  BY <1>1, HeadTailProperties
<1>3. Head(todo) = todo[1]
  BY <1>1
<1>4. Passed \in Nat
  <2>1. Len(rbuf) \in Nat
    BY LenProperties DEF Types, DriverTypes
  <2> QED BY <1>1, <2>1 DEF Passed, OnPlan, Total
<1>5. Head(todo) = Plan(Passed + 1)
  BY <1>1, <1>3 DEF OnPlan
<1>6. ASSUME NEW k \in 1 .. Len(todo') PROVE todo'[k] = Plan((Passed + 1) + k)
  <2>1. k + 1 \in 1 .. Len(todo) /\ k \in Nat
    BY <1>1, <1>2
  <2>2. todo[k + 1] = Plan(Passed + (k + 1))
    BY <2>1 DEF OnPlan
  <2>3. Passed + (k + 1) = (Passed + 1) + k
    BY <1>4, <2>1
  <2> QED BY <1>2, <2>2, <2>3
<1> QED BY <1>1, <1>2, <1>4, <1>5, <1>6 DEF OnPlan

LEMMA DriverStep ==
  ASSUME Types, OnPlan, Driver
  PROVE  /\ todo # << >> /\ todo' = Tail(todo) /\ UNCHANGED caller
         /\ Len(rbuf') = Len(rbuf) + (IF Head(todo).cmd = "read" THEN 1 ELSE 0)
         /\ Types' /\ OnPlan'
<1>1. todo # << >> /\ todo' = Tail(todo) /\ UNCHANGED caller
  BY DEF Driver, Transact, ReadByte, ReadId, spi_flash_wait_busy, Done, Begins
<1>2. CallerTypes'
  BY <1>1 DEF caller, Types, CallerTypes
<1>3. ChipTypes'
  <2>1. CASE Transact
    BY <1>1, <2>1, Advance, ObeyTypes DEF Transact, Types
  <2>2. CASE UNCHANGED chip
    BY <2>2 DEF chip, Types, ChipTypes
  <2> QED BY <2>1, <2>2 DEF Driver, ReadByte, ReadId, spi_flash_wait_busy
<1>4. rbuf \in Seq(Contents \cup {"garbage"}) /\ Len(rbuf) \in Nat
  BY LenProperties DEF Types, DriverTypes
<1>5. ASSUME ReadByte
      PROVE  /\ rbuf' \in Seq(Contents \cup {"garbage"}) /\ Len(rbuf') = Len(rbuf) + 1
             /\ Head(todo).cmd = "read"
  <2> DEFINE v == IF Awake THEN mem[Head(todo).addr] ELSE "garbage"
  <2>1. Head(todo).addr \in Cells
    BY <1>1, Advance DEF Transactions
  <2>2. v \in Contents \cup {"garbage"}
    BY <2>1 DEF Types, ChipTypes
  <2>3. rbuf' = Append(rbuf, v) /\ Head(todo).cmd = "read"
    BY <1>5 DEF ReadByte, Begins
  <2> HIDE DEF v
  <2> QED BY <1>4, <2>2, <2>3, AppendProperties
<1>6. rbuf' \in Seq(Contents \cup {"garbage"})
  BY <1>4, <1>5 DEF Driver, Transact, ReadId, spi_flash_wait_busy
<1>7. Len(rbuf') = Len(rbuf) + (IF Head(todo).cmd = "read" THEN 1 ELSE 0)
  BY <1>4, <1>5 DEF Driver, Transact, ReadId, spi_flash_wait_busy, Begins
<1>8. device_id' \in {ChipId} \cup Junk
  BY DEF Driver, Transact, ReadByte, ReadId, spi_flash_wait_busy, Types, DriverTypes
<1>9. late' \in BOOLEAN
  BY Zenon DEF Driver, Transact, ReadByte, ReadId, spi_flash_wait_busy, Types, DriverTypes
<1>10. Types'
  BY <1>1, <1>2, <1>3, <1>6, <1>8, <1>9, Advance DEF Types, DriverTypes
<1>11. Head(todo).cmd = "read" <=> call = "read"
  <2>1. Head(todo) = Plan(Passed + 1) /\ call # "none"
    BY <1>1, Advance
  <2> QED BY <2>1 DEF Plan, Simple, Command, Wait, EraseAt, ProgramAt
<1>12. Passed' = Passed + 1
  <2>1. call' = call /\ Len(todo') = Len(todo) - 1 /\ Len(todo) \in Nat
    BY <1>1, Advance DEF caller
  <2> QED BY <1>4, <1>7, <1>11, <2>1 DEF Passed, Total
<1>13. \A i : Plan(i)' = Plan(i)
  BY <1>1 DEF caller, Plan, EraseAt, ProgramAt
<1>14. OnPlan'
  <2>1. call' = call /\ Len(todo') = Len(todo) - 1 /\ Len(todo) \in Nat /\ call # "none"
    BY <1>1, Advance DEF caller
  <2>2. call' # "read" => Len(todo') <= Total'
    BY <2>1 DEF OnPlan, Total
  <2>3. \A k \in 1 .. Len(todo') : todo'[k] = Plan((Passed + 1) + k)
    BY <1>1, Advance
  <2> QED BY <1>12, <1>13, <2>1, <2>2, <2>3 DEF OnPlan
<1> QED BY <1>1, <1>7, <1>10, <1>14

-----------------------------------------------------------------------------
(* A call.                                                                 *)

LEMMA CallStep ==
  ASSUME Types, NEW name \in {"open", "read", "erase", "write", "close"},
         NEW a \in Cells, NEW b \in Seq(Data), name = "write" => b \in Buffers,
         NEW tx \in Seq(Transactions), Call(name, a, b, tx), opened' \in BOOLEAN
  PROVE  Types' /\ Passed' = IF name = "read" THEN 0 ELSE Total' - Len(tx)
<1>1. ChipTypes'
  BY DEF Call, chip, Types, ChipTypes
<1>2. calls' \in 0 .. MaxCalls
  BY DEF Call, Types, CallerTypes
<1>3. CallerTypes'
  BY <1>2 DEF Call, Types, CallerTypes, ChipTypes
<1>4. rbuf' = << >> /\ rbuf' \in Seq(Contents \cup {"garbage"}) /\ Len(rbuf') = 0
  BY EmptySeq DEF Call
<1>5. DriverTypes'
  BY <1>4 DEF Call, Types, DriverTypes
<1> QED BY <1>1, <1>3, <1>4, <1>5 DEF Types, Call, Passed

LEMMA OpenStep == ASSUME Types, spi_flash_open
                  PROVE  Types' /\ OnPlan' /\ call' = "open" /\ Len(todo') = 2
<1> DEFINE tx == <<Simple("release"), Simple("id")>>
<1>1. tx \in Seq(Transactions) /\ Len(tx) = 2
  <2>1. Simple("release") \in Transactions /\ Simple("id") \in Transactions
    BY SimpleType
  <2> QED BY <2>1
<1>2. << >> \in Seq(Data) /\ 0 \in Cells /\ opened' \in BOOLEAN
  BY EmptySeq, Size DEF spi_flash_open
<1>3. Types' /\ Passed' = Total' - 2 /\ call' = "open" /\ todo' = tx
  BY <1>1, <1>2, CallStep DEF spi_flash_open, Call
<1> QED BY <1>1, <1>3 DEF OnPlan, Plan, Total

LEMMA CloseStep == ASSUME Types, spi_flash_close
                   PROVE  Types' /\ OnPlan' /\ call' = "close" /\ Len(todo') = 2
<1> DEFINE tx == <<Simple("disable"), Simple("sleep")>>
<1>1. tx \in Seq(Transactions) /\ Len(tx) = 2
  <2>1. Simple("disable") \in Transactions /\ Simple("sleep") \in Transactions
    BY SimpleType
  <2> QED BY <2>1
<1>2. << >> \in Seq(Data) /\ 0 \in Cells /\ opened' \in BOOLEAN
  BY EmptySeq, Size DEF spi_flash_close
<1>3. Types' /\ Passed' = Total' - 2 /\ call' = "close" /\ todo' = tx
  BY <1>1, <1>2, CallStep DEF spi_flash_close, Call
<1> QED BY <1>1, <1>3 DEF OnPlan, Plan, Total

LEMMA ReadStep == ASSUME Types, spi_flash_read
                  PROVE  /\ Types' /\ OnPlan' /\ call' = "read" /\ rbuf' = << >>
                         /\ \A k \in 1 .. Len(todo') : todo'[k].addr \in Cells
<1>1. PICK a \in Cells, n \in Lengths :
        /\ a + n - 1 \in Cells \cup {-1}
        /\ Call("read", a, << >>, [k \in 1 .. n |-> Command("read", a + k - 1, << >>)])
  BY DEF spi_flash_read
<1> DEFINE tx == [k \in 1 .. n |-> Command("read", a + k - 1, << >>)]
<1>2. tx \in Seq(Transactions) /\ Len(tx) = n /\ n \in Nat
  BY <1>1, ReadSeq
<1>3. << >> \in Seq(Data) /\ opened' \in BOOLEAN
  BY EmptySeq DEF spi_flash_read, Types, CallerTypes
<1>4. Types' /\ Passed' = 0
  BY <1>1, <1>2, <1>3, CallStep
<1>5. call' = "read" /\ addr' = a /\ todo' = tx /\ rbuf' = << >>
  BY <1>1 DEF Call
<1>6. \A k \in 1 .. n : tx[k] = Plan(0 + k)'
  BY <1>2, <1>5 DEF Plan
<1>7. OnPlan'
  BY <1>2, <1>4, <1>5, <1>6 DEF OnPlan
<1>8. \A k \in 1 .. n : tx[k] \in Transactions
  BY <1>2, LenProperties
<1>9. \A k \in 1 .. n : tx[k].addr \in Cells
  <2> HIDE DEF tx
  <2> QED BY <1>8 DEF Transactions
<1> QED BY <1>2, <1>4, <1>5, <1>7, <1>9

LEMMA EraseStep == ASSUME Types, Erase
                   PROVE  Types' /\ OnPlan' /\ call' = "erase" /\ Len(todo') = 4
<1>1. PICK a \in Cells : Call("erase", a, << >>, spi_flash_erase(a))
  BY DEF Erase
<1> DEFINE tx == spi_flash_erase(a)
<1>2. /\ tx \in Seq(Transactions) /\ Len(tx) = 4 /\ tx[1] = Simple("enable")
      /\ tx[2] = Wait /\ tx[3] = Command("erase", a, << >>) /\ tx[4] = Wait
  BY EraseSeq
<1>3. << >> \in Seq(Data) /\ opened' \in BOOLEAN
  BY EmptySeq DEF Erase, Types, CallerTypes
<1> HIDE DEF tx
<1>4. Types' /\ Passed' = Total' - 4 /\ call' = "erase" /\ todo' = tx /\ addr' = a
  BY <1>1, <1>2, <1>3, CallStep DEF Call, tx
<1>5. \A k \in 1 .. 4 : tx[k] = Plan(0 + k)'
  BY <1>2, <1>4 DEF Plan, EraseAt
<1>6. Total' = 4 /\ Passed' = 0
  BY <1>4 DEF Total
<1>8. call' = "erase" /\ Len(todo') = 4
  BY <1>2, <1>4, Zenon
<1>9. \A k \in 1 .. Len(todo') : todo'[k] = Plan(Passed + k)'
  BY <1>2, <1>4, <1>5, <1>6, <1>8
<1>10. call' # "none" /\ Len(todo') <= Total'
  BY <1>6, <1>8
<1>11. OnPlan'
  BY <1>9, <1>10 DEF OnPlan
<1> QED BY <1>4, <1>8, <1>11

LEMMA WriteStep == ASSUME Types, Write
                   PROVE  Types' /\ OnPlan' /\ call' = "write" /\ Len(todo') = 8
<1>1. PICK a \in Cells, b \in Buffers : Call("write", a, b, spi_flash_write(a, b))
  BY DEF Write
<1> DEFINE tx == spi_flash_write(a, b)
<1>2. /\ tx \in Seq(Transactions) /\ Len(tx) = 8
      /\ \A k \in {1, 5} : tx[k] = Simple("enable")
      /\ \A k \in {2, 4, 6, 8} : tx[k] = Wait
      /\ tx[3] = Command("erase", SectorBase(a), << >>)
      /\ tx[7] = Command("program", a, Clip(b))
  BY WriteSeq
<1>3. b \in Seq(Data) /\ opened' \in BOOLEAN
  BY DEF Write, Types, CallerTypes
<1> HIDE DEF tx
<1>4. /\ Types' /\ Passed' = Total' - 8 /\ call' = "write" /\ todo' = tx
      /\ addr' = a /\ buf' = b
  BY <1>1, <1>2, <1>3, CallStep DEF Call, tx
<1>5. EraseAt' = tx[3] /\ ProgramAt' = tx[7]
  BY <1>2, <1>4 DEF EraseAt, ProgramAt
<1>6. \A k \in 1 .. 8 : tx[k] = Plan(0 + k)'
  BY <1>2, <1>4, <1>5 DEF Plan
<1>7. Total' = 8 /\ Passed' = 0
  BY <1>4 DEF Total
<1>8. call' = "write" /\ Len(todo') = 8
  BY <1>2, <1>4, Zenon
<1>9. \A k \in 1 .. Len(todo') : todo'[k] = Plan(Passed + k)'
  BY <1>2, <1>4, <1>6, <1>7, <1>8
<1>10. call' # "none" /\ Len(todo') <= Total'
  BY <1>7, <1>8
<1>11. OnPlan'
  BY <1>9, <1>10 DEF OnPlan
<1> QED BY <1>4, <1>8, <1>11

LEMMA StepTypes == ASSUME Types, OnPlan, [Next]_vars PROVE Types' /\ OnPlan'
<1>1. CASE Driver
  BY <1>1, DriverStep
<1>2. CASE Finish
  <2>1. UNCHANGED <<todo, caller, rbuf, device_id, late>>
    BY <1>2 DEF Finish
  <2>2. ChipTypes'
    BY <1>2, FinishTypes DEF Types
  <2>3. CallerTypes' /\ DriverTypes'
    BY <2>1 DEF caller, CallerTypes, DriverTypes, Types
  <2>4. OnPlan'
    BY <2>1 DEF caller, OnPlan, Passed, Total, Plan, EraseAt, ProgramAt
  <2> QED BY <2>2, <2>3, <2>4 DEF Types
<1>3. CASE UNCHANGED vars
  BY <1>3 DEF vars, chip, caller, Types, ChipTypes, CallerTypes, DriverTypes, OnPlan, Passed,
              Total, Plan, EraseAt, ProgramAt
<1> QED BY <1>1, <1>2, <1>3, OpenStep, CloseStep, ReadStep, EraseStep, WriteStep DEF Next

-----------------------------------------------------------------------------
(* What a driver step does to the chip.                                    *)

\* The transaction due, by function and by how many are left.
LEMMA Due ==
  ASSUME Types, OnPlan, todo # << >>, todo' = Tail(todo)
  PROVE  LET n == Len(todo)  t == Head(todo) IN
         /\ n \in Nat \ {0} /\ Len(todo') = n - 1
         /\ call \in {"open", "read", "erase", "write", "close"}
         /\ call = "open" => n <= 2 /\ t = Simple(IF n = 2 THEN "release" ELSE "id")
         /\ call = "close" => n <= 2 /\ t = Simple(IF n = 2 THEN "disable" ELSE "sleep")
         /\ call = "read" => t = Command("read", addr + Len(rbuf), << >>)
         /\ call = "erase" => n <= 4 /\ t = IF n = 4 THEN Simple("enable")
                                            ELSE IF n = 2 THEN EraseAt ELSE Wait
         /\ call = "write" => n <= 8 /\ t = IF n \in {4, 8} THEN Simple("enable")
                                            ELSE IF n = 6 THEN EraseAt
                                            ELSE IF n = 2 THEN ProgramAt ELSE Wait
<1> DEFINE n == Len(todo)
<1>1. /\ n \in Nat \ {0} /\ Len(todo') = n - 1 /\ Head(todo) = Plan(Passed + 1)
      /\ Passed \in Nat /\ call # "none"
  BY Advance
<1>2. call # "read" => Passed = Total - n /\ n <= Total
  BY DEF OnPlan, Passed
<1>3. call \in {"open", "read", "erase", "write", "close"}
  BY <1>1 DEF Types, CallerTypes
<1> HIDE DEF n
<1>4. CASE call = "open"
  BY <1>1, <1>2, <1>4 DEF Plan, Total, n
<1>5. CASE call = "close"
  BY <1>1, <1>2, <1>5 DEF Plan, Total, n
<1>6. CASE call = "read"
  <2>1. Passed = Len(rbuf) /\ (Passed + 1) - 1 = Passed
    BY <1>1, <1>6 DEF Passed
  <2>2. Head(todo) = Command("read", addr + (Passed + 1) - 1, << >>)
    BY <1>1, <1>6 DEF Plan
  <2>3. addr + (Passed + 1) - 1 = addr + Len(rbuf)
    BY <1>1, <2>1, Size DEF Types, CallerTypes
  <2> QED BY <1>1, <1>6, <2>2, <2>3 DEF n
<1>7. CASE call = "erase"
  <2>1. n \in 1 .. 4 /\ Passed + 1 = 5 - n
    BY <1>1, <1>2, <1>7 DEF Total
  <2>2. Head(todo) = IF Passed + 1 \in {1, 5} THEN Simple("enable")
                     ELSE IF Passed + 1 = 3 THEN EraseAt
                     ELSE IF Passed + 1 = 7 THEN ProgramAt ELSE Wait
    BY <1>1, <1>7 DEF Plan
  <2>3. n <= 4 /\ Head(todo) = IF n = 4 THEN Simple("enable")
                               ELSE IF n = 2 THEN EraseAt ELSE Wait
    BY <2>1, <2>2
  <2> QED BY <1>1, <1>7, <2>3 DEF n
<1>8. CASE call = "write"
  <2>1. n \in 1 .. 8 /\ Passed + 1 = 9 - n
    BY <1>1, <1>2, <1>8 DEF Total
  <2>2. Head(todo) = IF Passed + 1 \in {1, 5} THEN Simple("enable")
                     ELSE IF Passed + 1 = 3 THEN EraseAt
                     ELSE IF Passed + 1 = 7 THEN ProgramAt ELSE Wait
    BY <1>1, <1>8 DEF Plan
  <2>3. n <= 8 /\ Head(todo) = IF n \in {4, 8} THEN Simple("enable")
                               ELSE IF n = 6 THEN EraseAt
                               ELSE IF n = 2 THEN ProgramAt ELSE Wait
    BY <2>1, <2>2
  <2> QED BY <1>1, <1>8, <2>3 DEF n
<1> QED BY <1>3, <1>4, <1>5, <1>6, <1>7, <1>8

\* A wait, a read and the ID leave the chip alone, and only a wait can be given up.
LEMMA Effect ==
  ASSUME Driver
  PROVE  LET t == Head(todo) IN
         /\ t.cmd \in {"wait", "read", "id"} => UNCHANGED chip
         /\ t.cmd \notin {"wait", "read", "id"} => Obey(t)
         /\ ~late' => ~late /\ (t.cmd = "wait" => running = Idle)
<1> DEFINE t == Head(todo)
<1>1. t.cmd \in {"wait", "read", "id"} => UNCHANGED chip
  BY DEF Driver, Transact, ReadByte, ReadId, spi_flash_wait_busy, Begins
<1>2. t.cmd \notin {"wait", "read", "id"} => Obey(t)
  BY DEF Driver, Transact, ReadByte, ReadId, spi_flash_wait_busy, Begins
<1>3. CASE spi_flash_wait_busy
  <2>1. late' = (late \/ running # Idle)
    BY <1>3 DEF spi_flash_wait_busy
  <2>2. ~late' => ~late /\ running = Idle
    BY <2>1, Zenon
  <2> QED BY <1>1, <1>2, <2>2
<1>4. CASE Transact \/ ReadByte \/ ReadId
  <2>1. late' = late /\ t.cmd # "wait"
    BY <1>4 DEF Transact, ReadByte, ReadId, Begins
  <2> QED BY <1>1, <1>2, <2>1
<1> QED BY <1>3, <1>4 DEF Driver

LEMMA Names ==
  /\ \A c : Simple(c).cmd = c /\ Wait.cmd = "wait" /\ EraseAt.cmd = "erase"
  /\ ProgramAt.cmd = "program" /\ ProgramAt.data = Clip(buf) /\ ProgramAt.addr = addr
  /\ EraseAt # Idle /\ ProgramAt # Idle
  /\ \A a, d : Command("read", a, d).cmd = "read" /\ Command("read", a, d).addr = a
  BY DEF Simple, Command, Wait, Idle, EraseAt, ProgramAt

LEMMA SessionDriver ==
  ASSUME Types, OnPlan, Session, Driver PROVE Session'
<1>1. /\ todo # << >> /\ todo' = Tail(todo) /\ UNCHANGED caller
  BY DriverStep
<1>2. opened' = opened /\ call' = call
  BY <1>1 DEF caller
<1>3. SUFFICES ASSUME opened, asleep' PROVE FALSE
  BY <1>2 DEF Session
<1>4. call \in {"open", "read", "erase", "write"}
  BY <1>3 DEF Session
<1>5. Head(todo).cmd # "sleep"
  BY <1>1, <1>4, Due, Names
<1>6. asleep
  BY <1>3, <1>5, Effect, Obeyed, Zenon DEF chip
<1>7. call = "open" /\ Len(todo) = 2
  BY <1>3, <1>6 DEF Session
<1>8. Head(todo).cmd = "release"
  BY <1>1, <1>7, Due, Names
<1>9. ~asleep'
  BY <1>8, Effect, Obeyed
<1> QED BY <1>3, <1>9

LEMMA StepSession ==
  ASSUME Types, OnPlan, Session, [Next]_vars PROVE Session'
<1>1. CASE Driver
  BY <1>1, SessionDriver
<1>2. CASE Finish
  <2>1. opened' = opened /\ call' = call /\ asleep' = asleep /\ todo' = todo
    BY <1>2 DEF Finish, caller
  <2> QED BY <2>1 DEF Session
<1>3. CASE UNCHANGED vars
  <2>1. opened' = opened /\ call' = call /\ asleep' = asleep /\ todo' = todo
    BY <1>3 DEF vars, chip, caller
  <2> QED BY <2>1 DEF Session
<1>4. CASE spi_flash_open
  <2>1. opened' /\ call' = "open" /\ Len(todo') = 2
    BY <1>4, OpenStep DEF spi_flash_open
  <2> QED BY <2>1 DEF Session
<1>5. CASE spi_flash_close
  <2>1. ~opened' /\ call' = "close"
    BY <1>5, CloseStep DEF spi_flash_close
  <2> QED BY <2>1 DEF Session
<1>6. CASE spi_flash_read \/ Erase \/ Write
  <2>1. opened /\ opened' = opened /\ call' \in {"read", "erase", "write"}
    BY <1>6, ReadStep, EraseStep, WriteStep DEF spi_flash_read, Erase, Write
  <2>2. asleep' = asleep /\ todo = << >>
    BY <1>6 DEF spi_flash_read, Erase, Write, Call, chip
  <2>3. ~asleep
    BY <2>1, <2>2 DEF Session
  <2> QED BY <2>1, <2>2, <2>3 DEF Session
<1> QED BY <1>1, <1>2, <1>3, <1>4, <1>5, <1>6 DEF Next

-----------------------------------------------------------------------------
(* The write enable latch.                                                 *)

LEMMA NonEmpty ==
  ASSUME Types, call = "write", << >> \notin Buffers PROVE Clip(buf) # << >>
<1>1. buf \in Seq(Data) /\ buf # << >>
  BY DEF Types, CallerTypes
<1>2. Len(buf) \in Nat \ {0}
  BY <1>1, EmptySeq
<1>3. Len(Clip(buf)) # 0
  BY <1>1, <1>2, ClipType
<1> QED BY <1>3, EmptySeq

LEMMA EnabledDriver ==
  ASSUME Types, OnPlan, Session, Enabled, Driver PROVE Enabled'
<1>1. /\ todo # << >> /\ todo' = Tail(todo) /\ call' = call /\ opened' = opened
  BY DriverStep DEF caller
<1>2. SUFFICES ASSUME << >> \notin Buffers, wel', running' = Idle
               PROVE  call \in {"erase", "write"} /\ Len(todo) - 1 \in {2, 3, 6, 7}
  BY <1>1, Due DEF Enabled
<1> DEFINE t == Head(todo)
           n == Len(todo)
<1>3. n \in Nat \ {0}
  BY <1>1, Due
\* Either this is the enable, or the latch was on before and the chip did nothing.
<1>4. CASE t.cmd = "enable"
  <2>1. (call = "erase" /\ n = 4) \/ (call = "write" /\ n \in {4, 8})
    BY <1>1, <1>4, Due, Names
  <2> QED BY <1>3, <2>1
<1>5. CASE t.cmd # "enable"
  <2>1. wel /\ running = Idle
    <3>1. wel
      BY <1>2, <1>5, Effect, Obeyed, Zenon DEF chip
    <3>2. running' = running \/ (running' = t /\ t.cmd \in {"erase", "program"})
      <4>1. CASE t.cmd \in {"wait", "read", "id"}
        BY <4>1, Effect DEF chip
      <4>2. CASE t.cmd \notin {"wait", "read", "id"}
        BY <4>2, Effect, Obeyed DEF chip
      <4> QED BY <4>1, <4>2
    <3>3. running' = running
      BY <1>2, <3>2, SimpleType
    <3> QED BY <1>2, <3>1, <3>3
  <2>2. call \in {"erase", "write"} /\ n \in {2, 3, 6, 7}
    BY <1>2, <2>1 DEF Enabled
  <2>3. ~asleep /\ Awake
    BY <2>1, <2>2 DEF Session, Awake
  <2>4. t.cmd # "erase" /\ (t.cmd = "program" => t.data = << >>)
    <3>1. ASSUME t.cmd \in {"erase", "program"}, t.cmd = "program" => t.data # << >>
          PROVE  FALSE
      <4>1. running' = t
        BY <2>1, <2>3, <3>1, Effect, Obeyed
      <4> QED BY <1>2, <3>1, <4>1, SimpleType
    <3> QED BY <3>1
  <2>5. n \in {3, 7}
    <3>1. ASSUME call = "erase", n = 2 PROVE FALSE
      <4>1. t = EraseAt
        BY <1>1, <3>1, Due
      <4> QED BY <2>4, <4>1, Names
    <3>2. ASSUME call = "write", n = 6 PROVE FALSE
      <4>1. t = EraseAt
        BY <1>1, <3>2, Due
      <4> QED BY <2>4, <4>1, Names
    <3>3. ASSUME call = "write", n = 2 PROVE FALSE
      <4>1. t = ProgramAt
        BY <1>1, <3>3, Due
      <4> QED BY <1>2, <2>4, <3>3, <4>1, Names, NonEmpty
    <3>4. call = "erase" => n <= 4
      BY <1>1, Due
    <3> QED BY <2>2, <3>1, <3>2, <3>3, <3>4
  <2> QED BY <2>2, <2>5
<1> QED BY <1>4, <1>5

LEMMA StepEnabled ==
  ASSUME Types, OnPlan, Session, Enabled, [Next]_vars PROVE Enabled'
<1>1. CASE Driver
  BY <1>1, EnabledDriver
<1>2. CASE Finish
  BY <1>2 DEF Finish, Enabled
<1>3. CASE UNCHANGED vars
  BY <1>3, Zenon DEF vars, chip, caller, Enabled
<1>4. CASE spi_flash_open \/ spi_flash_close \/ spi_flash_read \/ Erase \/ Write
  <2>1. todo = << >> /\ UNCHANGED chip
    BY <1>4 DEF spi_flash_open, spi_flash_close, spi_flash_read, Erase, Write, Call
  <2>2. Len(todo) = 0
    BY <2>1
  <2>3. << >> \notin Buffers => ~wel \/ running # Idle
    BY <2>2 DEF Enabled
  <2>4. << >> \notin Buffers => ~wel' \/ running' # Idle
    BY <2>1, <2>3 DEF chip
  <2> QED BY <2>4 DEF Enabled
<1> QED BY <1>1, <1>2, <1>3, <1>4 DEF Next

-----------------------------------------------------------------------------
(* The memory, while every wait is long enough.                            *)

LEMMA PlacedIn ==
  ASSUME Types, NEW c \in Cells, NEW k \in 1 .. Len(Clip(buf)), Place(addr, k) = c
  PROVE  /\ SectorOf(c) = SectorOf(addr) /\ Blank[c] = FF
         /\ Clip(buf)[k] \in Data
<1>1. k \in Nat \ {0} /\ addr \in Cells /\ Clip(buf)[k] \in Data
  BY ClipType DEF Types, CallerTypes
<1>2. SectorOf(c) = SectorOf(addr)
  BY <1>1, Placed
<1> QED BY <1>1, <1>2 DEF Blank

LEMMA ProgramBlank ==
  ASSUME Types, mem = Blank PROVE Programmed(addr, Clip(buf)) = Written
<1> DEFINE K == 1 .. Len(Clip(buf))
           p == Programmed(addr, Clip(buf))
<1>1. ASSUME NEW c \in Cells PROVE p[c] = Written[c]
  <2> DEFINE k == CHOOSE j \in K : Place(addr, j) = c
  <2>1. CASE \E j \in K : Place(addr, j) = c
    <3>1. k \in K /\ Place(addr, k) = c
      BY <2>1
    <3>2. Blank[c] = FF
      BY <3>1, PlacedIn
    <3>3. p[c] = Over(mem[c], Clip(buf)[k]) /\ Written[c] = Clip(buf)[k]
      BY <2>1, Zenon DEF Programmed, Written
    <3> QED BY <3>2, <3>3 DEF Over
  <2>2. CASE ~ \E j \in K : Place(addr, j) = c
    BY <2>2, Zenon DEF Programmed, Written
  <2> QED BY <2>1, <2>2
<1>2. p = [c \in Cells |-> p[c]] /\ Written = [c \in Cells |-> Written[c]]
  BY Zenon DEF Programmed, Written
<1> HIDE DEF p
<1>3. [c \in Cells |-> p[c]] = [c \in Cells |-> Written[c]]
  BY <1>1
<1>4. p = Written
  BY <1>2, <1>3, Zenon
<1> QED BY <1>4 DEF p

LEMMA WrittenClean ==
  ASSUME Types, \A c \in Cells : before[c] # Mixed
  PROVE  \A c \in Cells : Blank[c] # Mixed /\ Written[c] # Mixed
<1>1. SUFFICES ASSUME NEW c \in Cells PROVE Blank[c] # Mixed /\ Written[c] # Mixed
  OBVIOUS
<1>2. Blank[c] # Mixed
  BY DEF Blank
<1> DEFINE K == 1 .. Len(Clip(buf))
           k == CHOOSE j \in K : Place(addr, j) = c
<1>3. CASE \E j \in K : Place(addr, j) = c
  <2>1. k \in K /\ Place(addr, k) = c
    BY <1>3
  <2>2. Written[c] = Clip(buf)[k]
    BY <1>3, Zenon DEF Written
  <2> QED BY <1>2, <2>1, <2>2, PlacedIn
<1>4. CASE ~ \E j \in K : Place(addr, j) = c
  <2>1. Written[c] = Blank[c]
    BY <1>4, Zenon DEF Written
  <2> QED BY <1>2, <2>1
<1> QED BY <1>3, <1>4

LEMMA NothingWritten == ASSUME Types, Clip(buf) = << >> PROVE Written = Blank
<1>1. Len(Clip(buf)) = 0
  OBVIOUS
<1>2. \A c \in Cells : ~ \E k \in 1 .. Len(Clip(buf)) : Place(addr, k) = c
  BY <1>1
<1>3. \A c \in Cells : Written[c] = Blank[c]
  BY <1>2, Zenon DEF Written
<1>4. Written = [c \in Cells |-> Written[c]] /\ Blank = [c \in Cells |-> Blank[c]]
  BY Zenon DEF Written, Blank
<1>5. [c \in Cells |-> Written[c]] = [c \in Cells |-> Blank[c]]
  BY <1>3
<1> QED BY <1>4, <1>5, Zenon

LEMMA FinishInTime ==
  ASSUME Types, OnPlan, InTime, Finish PROVE InTime'
<1>1. /\ todo' = todo /\ call' = call /\ addr' = addr /\ buf' = buf /\ before' = before
      /\ rbuf' = rbuf /\ late' = late /\ running # Idle /\ running' = Idle
  BY DEF Finish, caller
<1>2. ASSUME ~late
      PROVE  /\ call \in {"erase", "write"} /\ Len(todo) \in {1, 5}
             /\ running = IF call = "write" /\ Len(todo) = 1 THEN ProgramAt ELSE EraseAt
             /\ call = "erase" => Len(todo) = 1
             /\ \A c \in Cells : mem[c] # Mixed /\ before[c] # Mixed
  BY <1>1, <1>2 DEF InTime, Ready, Clean
<1>3. Ready'
  BY <1>1 DEF Ready
<1>4. Heard' /\ ReadSoFar'
  <2>1. ASSUME ~late PROVE Len(todo) \notin {2, 3, 6, 7} /\ call # "read"
    <3>1. Len(todo) \in {1, 4, 5, 8} /\ call # "read"
      BY <1>2, <2>1, Zenon
    <3> QED BY <3>1, Elsewhere, Zenon
  <2> QED BY <1>1, <2>1, Zenon DEF Heard, ReadSoFar
<1>5. ASSUME running = EraseAt
      PROVE  mem' = [c \in Cells |-> IF SectorOf(c) = SectorOf(addr) THEN FF ELSE mem[c]]
  <2>1. SectorOf(running.addr) = SectorOf(addr)
    BY <1>5, Base DEF EraseAt, Command, Types, CallerTypes
  <2> QED BY <1>5, <2>1, Names DEF Finish
<1>6. ASSUME ~late, call = "write", Len(todo) = 1 PROVE mem' = Written
  <2>1. running = ProgramAt /\ mem = Blank
    BY <1>1, <1>2, <1>6 DEF InTime, WroteSoFar
  <2>2. mem' = Programmed(addr, Clip(buf))
    BY <2>1, Names DEF Finish
  <2> QED BY <2>1, <2>2, ProgramBlank
<1>7. ASSUME ~late, call = "write", Len(todo) = 5 PROVE mem' = Blank
  <2>1. running = EraseAt /\ mem = before
    BY <1>1, <1>2, <1>7 DEF InTime, WroteSoFar
  <2> QED BY <1>5, <2>1 DEF Blank
<1>8. Written' = Written /\ Blank' = Blank
  BY <1>1 DEF Written, Blank
<1>9. WroteSoFar'
  <2>1. SUFFICES ASSUME ~late, call = "write" PROVE WroteSoFar'
    BY <1>1 DEF WroteSoFar
  <2>2. CASE Len(todo) = 1
    <3>1. mem' = Written' /\ running' = Idle /\ Len(todo') = 1
      BY <1>1, <1>6, <1>8, <2>1, <2>2
    <3> QED BY <3>1 DEF WroteSoFar
  <2>3. CASE Len(todo) = 5
    <3>1. mem' = Blank' /\ running' = Idle /\ Len(todo') = 5
      BY <1>1, <1>7, <1>8, <2>1, <2>3
    <3> QED BY <3>1 DEF WroteSoFar
  <2> QED BY <1>2, <2>1, <2>2, <2>3
<1>10. ASSUME ~late PROVE \A c \in Cells : mem'[c] # Mixed
  <2>1. CASE call = "erase"
    <3>1. mem' = [c \in Cells |-> IF SectorOf(c) = SectorOf(addr) THEN FF ELSE mem[c]]
      BY <1>2, <1>5, <1>10, <2>1
    <3> QED BY <1>2, <1>10, <3>1
  <2>2. CASE call = "write"
    <3>1. mem' = Written \/ mem' = Blank
      BY <1>2, <1>6, <1>7, <1>10, <2>2
    <3>2. \A c \in Cells : Blank[c] # Mixed /\ Written[c] # Mixed
      BY <1>2, <1>10, WrittenClean
    <3> QED BY <3>1, <3>2, Zenon
  <2> QED BY <1>2, <1>10, <2>1, <2>2
<1>11. Clean'
  BY <1>1, <1>2, <1>10 DEF Clean
<1> QED BY <1>3, <1>4, <1>9, <1>11 DEF InTime

LEMMA CallInTime ==
  ASSUME IInv, spi_flash_open \/ spi_flash_close \/ spi_flash_read \/ Erase \/ Write
  PROVE  InTime'
<1>1. /\ todo = << >> /\ UNCHANGED chip /\ late' = late /\ before' = mem /\ rbuf' = << >>
  BY DEF spi_flash_open, spi_flash_close, spi_flash_read, Erase, Write, Call
<1>2. Len(todo) = 0
  BY <1>1
<1>3. ~late => running' = Idle /\ \A c \in Cells : mem[c] # Mixed
  <2>1. running' = running
    BY <1>1 DEF chip
  <2> QED BY <1>2, <2>1 DEF IInv, InTime, Ready, Clean
<1>4. Ready'
  BY <1>1, <1>3 DEF Ready
<1>5. Clean'
  BY <1>1, <1>3 DEF Clean, chip
<1>6. ReadSoFar'
  BY <1>1 DEF ReadSoFar
<1>7. call' = "erase" => Len(todo') = 4
  BY OpenStep, CloseStep, ReadStep, EraseStep, WriteStep DEF IInv
<1>8. call' = "write" => Len(todo') = 8
  BY OpenStep, CloseStep, ReadStep, EraseStep, WriteStep DEF IInv
<1>9. Heard'
  <2>1. ASSUME call' \in {"erase", "write"} PROVE Len(todo') \notin {2, 3, 6, 7}
    <3>1. Len(todo') \in {1, 4, 5, 8}
      BY <1>7, <1>8, <2>1, Zenon
    <3> QED BY <3>1, Elsewhere, Zenon
  <2> QED BY <2>1, Zenon DEF Heard
<1>10. WroteSoFar'
  BY <1>1, <1>8 DEF WroteSoFar, chip
<1> QED BY <1>4, <1>5, <1>6, <1>9, <1>10 DEF InTime

LEMMA DriverMemory == ASSUME Driver PROVE mem' = mem
<1>1. CASE Head(todo).cmd \in {"wait", "read", "id"}
  BY <1>1, Effect DEF chip
<1>2. CASE Head(todo).cmd \notin {"wait", "read", "id"}
  BY <1>2, Effect, Obeyed DEF chip
<1> QED BY <1>1, <1>2

\* What each transaction of an erase or a write meets, and does.
LEMMA Meets ==
  ASSUME IInv, Driver, ~late', call \in {"erase", "write"}
  PROVE  LET t == Head(todo) IN
         /\ t.cmd = "wait" => running = Idle /\ running' = Idle /\ wel' = wel
         /\ t.cmd = "enable" => running' = Idle /\ wel'
         /\ t = EraseAt \/ (t = ProgramAt /\ Clip(buf) # << >>) => running' = t
         /\ t = ProgramAt /\ Clip(buf) = << >> => running' = Idle
<1> DEFINE t == Head(todo)
           n == Len(todo)
<1>1. todo # << >> /\ todo' = Tail(todo) /\ ~late
  BY DriverStep, Effect DEF IInv
<1>2. /\ n \in Nat \ {0} /\ (call = "erase" => n <= 4) /\ (call = "write" => n <= 8)
      /\ call = "erase" => t = IF n = 4 THEN Simple("enable")
                               ELSE IF n = 2 THEN EraseAt ELSE Wait
      /\ call = "write" => t = IF n \in {4, 8} THEN Simple("enable")
                               ELSE IF n = 6 THEN EraseAt
                               ELSE IF n = 2 THEN ProgramAt ELSE Wait
  BY <1>1, Due DEF IInv
<1>3. ~asleep
  BY DEF IInv, Session
<1>4. running # Idle => n \in {1, 5}
  BY <1>1 DEF IInv, InTime, Ready
<1>5. n \in {2, 6} => wel
  BY <1>1, Zenon DEF IInv, InTime, Heard
<1> HIDE DEF n, t
<1>6. t.cmd = "wait" => running = Idle /\ running' = Idle /\ wel' = wel
  BY Effect DEF t, chip
<1>7. ASSUME t.cmd # "wait" PROVE Awake /\ n \notin {1, 5}
  <2>1. n \notin {1, 5}
    BY <1>2, <1>7, Names
  <2> QED BY <1>3, <1>4, <2>1 DEF Awake
<1>8. ASSUME t.cmd = "enable" PROVE running' = Idle /\ wel'
  <2>1. running' = running /\ wel'
    BY <1>7, <1>8, Effect, Obeyed DEF t
  <2> QED BY <1>7, <1>8, <2>1 DEF Awake
<1>9. ASSUME t = EraseAt \/ t = ProgramAt PROVE n \in {2, 6}
  BY <1>2, <1>9, Names
<1>10. ASSUME t = EraseAt \/ (t = ProgramAt /\ Clip(buf) # << >>) PROVE running' = t
  <2>1. Awake /\ wel
    BY <1>5, <1>7, <1>9, <1>10, Names
  <2>2. t.cmd = "erase" \/ (t.cmd = "program" /\ t.data # << >>)
    BY <1>10, Names
  <2> QED BY <2>1, <2>2, Effect, Obeyed DEF t
<1>11. ASSUME t = ProgramAt, Clip(buf) = << >> PROVE running' = Idle
  <2>1. t.cmd = "program" /\ t.data = << >> /\ Awake
    BY <1>7, <1>11, Names
  <2>2. running' = running
    BY <2>1, Effect, Obeyed DEF t, chip
  <2> QED BY <2>1, <2>2 DEF Awake
<1> QED BY <1>6, <1>8, <1>10, <1>11 DEF t

LEMMA EraseInTime ==
  ASSUME IInv, Driver, ~late', call = "erase" PROVE Ready' /\ Heard'
<1> DEFINE t == Head(todo)
           n == Len(todo)
           m == Len(todo')
<1>1. /\ todo # << >> /\ todo' = Tail(todo) /\ ~late /\ UNCHANGED caller
  BY DriverStep, Effect DEF IInv
<1>2. /\ n \in 1 .. 4 /\ m = n - 1
      /\ t = IF n = 4 THEN Simple("enable") ELSE IF n = 2 THEN EraseAt ELSE Wait
  BY <1>1, Due DEF IInv
<1>3. /\ t.cmd = "wait" => running' = Idle /\ wel' = wel
      /\ t.cmd = "enable" => running' = Idle /\ wel'
      /\ t = EraseAt => running' = t
  BY Meets
<1>4. n = 3 => wel
  BY <1>1, Zenon DEF IInv, InTime, Heard
<1>5. call' = call /\ EraseAt' = EraseAt
  BY <1>1 DEF caller, EraseAt
<1> HIDE DEF n, m, t
<1>6. running' # Idle => m = 1 /\ running' = EraseAt'
  BY <1>2, <1>3, <1>5, Names
<1>7. m \in {2, 3, 6, 7} => wel'
  <2>1. n = 4 => wel'
    BY <1>2, <1>3, Names
  <2>2. ASSUME n = 3 PROVE wel'
    <3>1. t.cmd = "wait"
      BY <1>2, <2>2, Names
    <3> QED BY <1>3, <1>4, <2>2, <3>1
  <2>3. m \in {2, 3, 6, 7} => n \in {3, 4}
    BY <1>2
  <2> QED BY <2>1, <2>2, <2>3
<1>8. Ready'
  BY <1>5, <1>6 DEF Ready, m
<1>9. Heard'
  BY <1>7, Zenon DEF Heard, m
<1> QED BY <1>8, <1>9

LEMMA WriteInTime ==
  ASSUME IInv, Driver, ~late', call = "write" PROVE Ready' /\ Heard' /\ WroteSoFar'
<1> DEFINE t == Head(todo)
           n == Len(todo)
           m == Len(todo')
<1>1. /\ todo # << >> /\ todo' = Tail(todo) /\ ~late /\ UNCHANGED caller /\ mem' = mem
  BY DriverStep, Effect, DriverMemory DEF IInv
<1>2. /\ n \in 1 .. 8 /\ m = n - 1
      /\ t = IF n \in {4, 8} THEN Simple("enable")
             ELSE IF n = 6 THEN EraseAt ELSE IF n = 2 THEN ProgramAt ELSE Wait
  <2>1. n \in Nat \ {0} /\ m = n - 1 /\ n <= 8
    BY <1>1, Due DEF IInv
  <2>2. t = IF n \in {4, 8} THEN Simple("enable")
            ELSE IF n = 6 THEN EraseAt ELSE IF n = 2 THEN ProgramAt ELSE Wait
    BY <1>1, Due DEF IInv
  <2> HIDE DEF n, m, t
  <2> QED BY <2>1, <2>2
<1>3. /\ t.cmd = "wait" => running = Idle /\ running' = Idle /\ wel' = wel
      /\ t.cmd = "enable" => running' = Idle /\ wel'
      /\ t = EraseAt \/ (t = ProgramAt /\ Clip(buf) # << >>) => running' = t
      /\ t = ProgramAt /\ Clip(buf) = << >> => running' = Idle
  BY Meets
<1>4. n \in {3, 7} => wel
  BY <1>1, Zenon DEF IInv, InTime, Heard
<1>5. /\ call' = call /\ EraseAt' = EraseAt /\ ProgramAt' = ProgramAt /\ before' = before
      /\ Blank' = Blank /\ Written' = Written
  BY <1>1 DEF caller, EraseAt, ProgramAt, Blank, Written
<1>6. mem = IF n > 5 \/ (n = 5 /\ running # Idle) THEN before
            ELSE IF n > 1 \/ running # Idle THEN Blank ELSE Written
  BY <1>1 DEF IInv, InTime, WroteSoFar
<1>7. Clip(buf) = << >> => Written = Blank
  BY NothingWritten DEF IInv
<1> HIDE DEF n, m, t
<1>8. \/ running' = Idle
      \/ n = 6 /\ running' = EraseAt
      \/ n = 2 /\ running' = ProgramAt
  BY <1>2, <1>3, Names
<1>9. Ready'
  <2>1. \/ running' = Idle
        \/ m = 5 /\ running' = EraseAt'
        \/ m = 1 /\ running' = ProgramAt'
    BY <1>2, <1>5, <1>8
  <2> QED BY <1>5, <2>1 DEF Ready, m
<1>10. m \in {2, 3, 6, 7} => wel'
  <2>1. n \in {4, 8} => wel'
    BY <1>2, <1>3, Names
  <2>2. n \in {3, 7} => wel'
    BY <1>2, <1>3, <1>4, Names
  <2>3. m \in {2, 3, 6, 7} => n \in {3, 4, 7, 8}
    BY <1>2
  <2> QED BY <2>1, <2>2, <2>3
<1>11. Heard'
  BY <1>10, Zenon DEF Heard, m
<1>12. n = 6 => running' # Idle
  BY <1>2, <1>3, Names
<1>13. n \in {1, 5} => running = Idle /\ running' = Idle
  BY <1>2, <1>3, Names
<1>14. n = 2 => (IF running' # Idle THEN Blank ELSE Written) = Blank
  BY <1>2, <1>3, <1>7, Names
<1>15. mem = IF m > 5 \/ (m = 5 /\ running' # Idle) THEN before
             ELSE IF m > 1 \/ running' # Idle THEN Blank ELSE Written
  <2>1. CASE n \in {7, 8}
    BY <1>2, <1>6, <2>1
  <2>2. CASE n = 6
    BY <1>2, <1>6, <1>12, <2>2
  <2>3. CASE n \in {3, 4, 5}
    BY <1>2, <1>6, <1>13, <2>3
  <2>4. CASE n = 2
    BY <1>2, <1>6, <1>14, <2>4
  <2>5. CASE n = 1
    BY <1>2, <1>6, <1>13, <2>5
  <2> QED BY <1>2, <2>1, <2>2, <2>3, <2>4, <2>5
<1>16. WroteSoFar'
  BY <1>1, <1>5, <1>15 DEF WroteSoFar, m
<1> QED BY <1>9, <1>11, <1>16

LEMMA OtherInTime ==
  ASSUME IInv, Driver, ~late', call \notin {"erase", "write"}
  PROVE  Ready' /\ Heard' /\ ReadSoFar' /\ WroteSoFar'
<1> DEFINE t == Head(todo)
           n == Len(rbuf)
<1>1. /\ todo # << >> /\ todo' = Tail(todo) /\ ~late /\ UNCHANGED caller /\ mem' = mem
  BY DriverStep, Effect, DriverMemory DEF IInv
<1>2. call' = call /\ addr' = addr
  BY <1>1 DEF caller
<1>3. running = Idle
  BY <1>1 DEF IInv, InTime, Ready
<1>4. t.cmd \notin {"erase", "program"}
  <2>1. call \in {"open", "close", "read"}
    BY <1>1, Due DEF IInv
  <2>2. CASE call = "open"
    BY <1>1, <2>2, Due, Names DEF IInv
  <2>3. CASE call = "close"
    BY <1>1, <2>3, Due, Names DEF IInv
  <2>4. CASE call = "read"
    BY <1>1, <2>4, Due, Names DEF IInv
  <2> QED BY <2>1, <2>2, <2>3, <2>4
<1>5. running' = Idle
  <2>1. CASE t.cmd \in {"wait", "read", "id"}
    BY <1>3, <2>1, Effect DEF chip
  <2>2. CASE t.cmd \notin {"wait", "read", "id"}
    BY <1>3, <1>4, <2>2, Effect, Obeyed DEF chip
  <2> QED BY <2>1, <2>2
<1>6. Ready' /\ Heard' /\ WroteSoFar'
  BY <1>2, <1>5, Zenon DEF Ready, Heard, WroteSoFar
<1>7. ASSUME call = "read" PROVE \A k \in 1 .. Len(rbuf') : rbuf'[k] = mem[addr + k - 1]
  <2>1. t = Command("read", addr + n, << >>)
    BY <1>1, <1>7, Due DEF IInv
  <2>2. t.cmd = "read" /\ t.addr = addr + n
    BY <2>1, Names
  <2>3. opened /\ ~asleep /\ Awake
    BY <1>3, <1>7 DEF IInv, Session, Awake
  <2>4. rbuf' = Append(rbuf, mem[addr + n])
    BY <2>2, <2>3 DEF Driver, Transact, ReadByte, ReadId, spi_flash_wait_busy, Begins
  <2>5. rbuf \in Seq(Contents \cup {"garbage"}) /\ n \in Nat
    BY LenProperties DEF IInv, Types, DriverTypes
  <2>6. mem[addr + n] \in Contents \cup {"garbage"}
    <3>1. t \in Transactions
      BY <1>1, Advance DEF IInv
    <3>2. addr + n \in Cells
      BY <2>2, <3>1 DEF Transactions
    <3> QED BY <3>2 DEF IInv, Types, ChipTypes
  <2>7. /\ Len(rbuf') = n + 1 /\ rbuf'[n + 1] = mem[addr + n]
        /\ \A k \in 1 .. n : rbuf'[k] = rbuf[k]
    BY <2>4, <2>5, <2>6, AppendProperties
  <2>8. \A k \in 1 .. n : rbuf[k] = mem[addr + k - 1]
    BY <1>1, <1>7 DEF IInv, InTime, ReadSoFar
  <2>9. addr \in Nat
    BY Size DEF IInv, Types, CallerTypes
  <2>10. addr + (n + 1) - 1 = addr + n
    BY <2>5, <2>9
  <2> HIDE DEF n
  <2>11. ASSUME NEW k \in 1 .. n + 1 PROVE rbuf'[k] = mem[addr + k - 1]
    <3>1. CASE k = n + 1
      BY <2>7, <2>10, <3>1
    <3>2. CASE k # n + 1
      <4>1. k \in 1 .. n
        BY <2>5, <3>2
      <4> QED BY <2>7, <2>8, <4>1
    <3> QED BY <3>1, <3>2
  <2> QED BY <2>7, <2>11
<1>8. ReadSoFar'
  BY <1>1, <1>2, <1>7 DEF ReadSoFar
<1> QED BY <1>6, <1>8

LEMMA DriverInTime == ASSUME IInv, Driver PROVE InTime'
<1>1. CASE late'
  BY <1>1 DEF InTime, Ready, Heard, Clean, ReadSoFar, WroteSoFar
<1>2. CASE ~late'
  <2>1. UNCHANGED caller /\ mem' = mem /\ ~late
    BY <1>2, DriverStep, DriverMemory, Effect DEF IInv
  <2>2. Clean'
    BY <2>1 DEF caller, IInv, InTime, Clean
  <2>3. call' = call
    BY <2>1 DEF caller
  <2>4. CASE call = "erase"
    <3>1. ReadSoFar' /\ WroteSoFar'
      BY <2>3, <2>4 DEF ReadSoFar, WroteSoFar
    <3> QED BY <1>2, <2>2, <2>4, <3>1, EraseInTime DEF InTime
  <2>5. CASE call = "write"
    <3>1. ReadSoFar'
      BY <2>3, <2>5 DEF ReadSoFar
    <3> QED BY <1>2, <2>2, <2>5, <3>1, WriteInTime DEF InTime
  <2>6. CASE call \notin {"erase", "write"}
    BY <1>2, <2>2, <2>6, OtherInTime DEF InTime
  <2> QED BY <2>4, <2>5, <2>6
<1> QED BY <1>1, <1>2

LEMMA StepInTime == ASSUME IInv, [Next]_vars PROVE InTime'
<1>1. CASE Driver
  BY <1>1, DriverInTime
<1>2. CASE Finish
  BY <1>2, FinishInTime DEF IInv
<1>3. CASE UNCHANGED vars
  <2>1. UNCHANGED <<mem, wel, running, todo, call, addr, buf, rbuf, before, late>>
    BY <1>3 DEF vars, chip, caller
  <2>2. UNCHANGED <<EraseAt, ProgramAt, Blank, Written>>
    BY <2>1 DEF EraseAt, ProgramAt, Blank, Written
  <2>3. Ready' /\ Clean' /\ ReadSoFar' /\ WroteSoFar'
    BY <2>1, <2>2 DEF IInv, InTime, Ready, Clean, ReadSoFar, WroteSoFar
  <2>4. Heard'
    BY <2>1, Zenon DEF IInv, InTime, Heard
  <2> QED BY <2>3, <2>4 DEF InTime
<1> QED BY <1>1, <1>2, <1>3, CallInTime DEF Next

LEMMA InitInv == ASSUME Init PROVE IInv
<1>1. PICK f \in [0 .. Sectors - 1 -> Data \cup {FF}] : mem = [c \in Cells |-> f[SectorOf(c)]]
  BY DEF Init
<1>2. \A c \in Cells : mem[c] \in Data \cup {FF}
  BY <1>1, SectorIndex
<1>3. mem \in [Cells -> Contents]
  BY <1>1, <1>2 DEF Contents
<1>4. /\ << >> \in Seq(Data) /\ << >> \in Seq(Transactions)
      /\ << >> \in Seq(Contents \cup {"garbage"}) /\ Len(<< >>) = 0
  BY EmptySeq
<1>5. wel = FALSE /\ asleep \in BOOLEAN /\ opened = FALSE /\ late = FALSE
  BY DEF Init
<1>6. Types
  BY <1>3, <1>4, <1>5, SimpleType, Size
     DEF Init, Types, ChipTypes, CallerTypes, DriverTypes
<1>7. OnPlan /\ Session /\ Enabled
  BY <1>4 DEF Init, OnPlan, Session, Enabled, Total
<1>8. \A c \in Cells : mem[c] # Mixed
  BY <1>2
<1>9. InTime
  BY <1>8 DEF Init, InTime, Ready, Heard, Clean, ReadSoFar, WroteSoFar
<1> QED BY <1>6, <1>7, <1>9 DEF IInv

LEMMA Invariance == Spec => []IInv
<1>1. Init => IInv
  BY InitInv
<1>2. IInv /\ [Next]_vars => IInv'
  <2>1. SUFFICES ASSUME IInv, [Next]_vars PROVE IInv'
    OBVIOUS
  <2> QED BY <2>1, StepTypes, StepSession, StepEnabled, StepInTime DEF IInv
<1> QED BY <1>1, <1>2, PTL DEF Spec

-----------------------------------------------------------------------------
(* The theorems.                                                           *)

\* The variables keep their types, and no more than a page goes to the chip at
\* once, whatever the length of the caller's buffer.
THEOREM TypeCorrect == Spec => []TypeOK
<1>1. ASSUME IInv PROVE TypeOK
  <2>1. \A k \in 1 .. Len(todo) : todo[k] \in Transactions
    BY <1>1, LenProperties DEF IInv, Types, DriverTypes
  <2>2. \A k \in 1 .. Len(todo) : todo[k].addr \in Cells /\ Len(todo[k].data) <= PAGESIZE
    <3>1. \A t \in Transactions : t.addr \in Cells /\ Len(t.data) <= PAGESIZE
      BY DEF Transactions, Pages
    <3> QED BY <2>1, <3>1, Zenon
  <2>3. Len(running.data) <= PAGESIZE
    BY <1>1 DEF IInv, Types, ChipTypes, Transactions, Pages
  <2> QED BY <1>1, <2>2, <2>3, Zenon
          DEF IInv, Types, ChipTypes, CallerTypes, DriverTypes, TypeOK
<1> QED BY <1>1, Invariance, PTL

\* However slow the chip, and if no caller writes no bytes, a function does not
\* leave the chip enabled.
THEOREM LeavesLatchClosed == ASSUME << >> \notin Buffers PROVE Spec => []LatchClosed
<1>1. ASSUME IInv PROVE LatchClosed
  <2>1. SUFFICES ASSUME todo = << >>, wel, running = Idle PROVE FALSE
    BY DEF LatchClosed
  <2>2. Len(todo) = 0
    BY <2>1
  <2> QED BY <1>1, <2>1, <2>2 DEF IInv, Enabled
<1> QED BY <1>1, Invariance, PTL

\* While every wait is long enough, no byte is programmed over one that was not
\* erased.
THEOREM ProgramsErasedOnly == Spec => []NoMixed
<1>1. IInv => NoMixed
  BY DEF IInv, InTime, Clean, NoMixed
<1> QED BY <1>1, Invariance, PTL

\* A read of a chip that is not busy returns what it holds, byte for byte.
THEOREM ReadsMemory == Spec => []ReadReturns
<1>1. IInv => ReadReturns
  BY DEF IInv, InTime, ReadSoFar, ReadReturns
<1> QED BY <1>1, Invariance, PTL

\* What fits the page is not clipped, and each byte goes to its own address.
LEMMA FitsPage ==
  ASSUME Types, buf # << >>, Fits(addr, buf)
  PROVE  /\ Len(buf) \in Nat \ {0} /\ Clip(buf) = buf
         /\ \A k \in 1 .. Len(buf) : Place(addr, k) = addr + k - 1
<1> DEFINE q == addr \div PAGESIZE
           m == Len(buf)
           z == addr + m - 1
<1>1. addr \in Cells /\ addr \in Nat /\ m \in Nat \ {0} /\ z \in Nat
  <2>1. addr \in Cells /\ addr \in Nat /\ m \in Nat \ {0}
    BY Size, EmptySeq DEF Types, CallerTypes
  <2> QED BY <2>1
<1>2. z \div PAGESIZE = q
  BY DEF Fits, PageOf
<1>3. /\ q \in Nat /\ q * PAGESIZE \in Nat /\ addr % PAGESIZE \in 0 .. PAGESIZE - 1
      /\ addr = q * PAGESIZE + (addr % PAGESIZE)
  BY <1>1, Division
<1>4. z % PAGESIZE \in 0 .. PAGESIZE - 1 /\ z = q * PAGESIZE + (z % PAGESIZE)
  BY <1>1, <1>2, Division
<1> HIDE DEF q
<1>5. q * PAGESIZE <= addr /\ z < q * PAGESIZE + PAGESIZE
  <2> HIDE DEF z
  <2> QED BY <1>1, <1>3, <1>4
<1>6. m <= PAGESIZE
  BY <1>1, <1>3, <1>5
<1>7. SubSeq(buf, 1, m) = buf
  <2>1. buf \in Seq(Data)
    BY DEF Types, CallerTypes
  <2> QED BY <2>1
<1>8. Clip(buf) = buf
  <2>1. (IF m > PAGESIZE THEN PAGESIZE ELSE m) = m
    BY <1>1, <1>6
  <2> QED BY <1>7, <2>1, Zenon DEF Clip
<1>9. ASSUME NEW k \in 1 .. m PROVE Place(addr, k) = addr + k - 1
  <2> DEFINE y == addr + k - 1
  <2>1. y \in Nat /\ q * PAGESIZE <= y /\ y < q * PAGESIZE + PAGESIZE /\ k \in Nat \ {0}
    BY <1>1, <1>3, <1>5
  <2> HIDE DEF y
  <2>2. y \div PAGESIZE = q
    BY <1>3, <2>1, Quotient
  <2>3. PageOf(addr + k - 1) = PageOf(addr)
    BY <2>2 DEF PageOf, q, y
  <2> QED BY <1>1, <2>1, <2>3, Placed
<1> QED BY <1>1, <1>8, <1>9

\* While every wait is long enough, a write within a page ends with its bytes at
\* their address and the rest of their sector erased.
THEOREM WritesLand == Spec => []WriteLands
<1>1. ASSUME IInv PROVE WriteLands
  <2>1. SUFFICES ASSUME todo = << >>, call = "write", ~late, buf # << >>, Fits(addr, buf)
                 PROVE  mem = [c \in Cells |->
                                 IF c \in addr .. addr + Len(buf) - 1 THEN buf[c - addr + 1]
                                 ELSE IF SectorOf(c) = SectorOf(addr) THEN FF ELSE before[c]]
    BY DEF WriteLands
  <2>2. Len(todo) = 0
    BY <2>1
  <2>3. running = Idle
    BY <1>1, <2>1, <2>2 DEF IInv, InTime, Ready
  <2>4. mem = Written
    BY <1>1, <2>1, <2>2, <2>3 DEF IInv, InTime, WroteSoFar
  <2>5. /\ Len(buf) \in Nat \ {0} /\ Clip(buf) = buf /\ addr \in Nat /\ Cells \subseteq Nat
        /\ \A k \in 1 .. Len(buf) : Place(addr, k) = addr + k - 1
    BY <1>1, <2>1, FitsPage, Size DEF IInv, Types, CallerTypes
  <2>6. ASSUME NEW c \in Cells
        PROVE  Written[c] = IF c \in addr .. addr + Len(buf) - 1 THEN buf[c - addr + 1]
                            ELSE IF SectorOf(c) = SectorOf(addr) THEN FF ELSE before[c]
    <3> DEFINE K == 1 .. Len(buf)
               k == CHOOSE j \in K : Place(addr, j) = c
    <3>1. CASE c \in addr .. addr + Len(buf) - 1
      <4>1. c - addr + 1 \in K /\ Place(addr, c - addr + 1) = c
        BY <2>5, <3>1
      <4>2. k \in K /\ Place(addr, k) = c
        BY <4>1
      <4>3. k = c - addr + 1
        <5> HIDE DEF k
        <5> QED BY <2>5, <4>2
      <4>4. Written[c] = buf[k]
        BY <2>5, <4>1, Zenon DEF Written
      <4> QED BY <3>1, <4>3, <4>4
    <3>2. CASE c \notin addr .. addr + Len(buf) - 1
      <4>1. ~ \E j \in K : Place(addr, j) = c
        BY <2>5, <3>2
      <4>2. Written[c] = Blank[c]
        BY <2>5, <4>1, Zenon DEF Written
      <4> QED BY <3>2, <4>2 DEF Blank
    <3> QED BY <3>1, <3>2
  <2>7. Written = [c \in Cells |-> Written[c]]
    BY Zenon DEF Written
  <2> QED BY <2>4, <2>6, <2>7
<1> QED BY <1>1, Invariance, PTL
=============================================================================
