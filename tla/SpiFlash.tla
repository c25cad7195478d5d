------------------------------ MODULE SpiFlash -------------------------------
(***************************************************************************)
(* The SPI flash driver (spi_flash.c) and the EN25Q chip behind it.  Every *)
(* function is a fixed sequence of transactions, each between a fall and a *)
(* rise of chip select; the chip acts on a transaction at the rise.  It    *)
(* ignores what it cannot do, and tells nobody.                            *)
(***************************************************************************)
EXTENDS Integers, Sequences, FiniteSets

CONSTANTS
  SECSIZE, PAGESIZE, Sectors,
  Data, FF,        \* bytes that are written; the erased byte
  Buffers, Lengths,
  ChipId, Junk,    \* the chip's ID; what the stack may hold
  MaxCalls

Cells == 0 .. SECSIZE * Sectors - 1
Mixed == "mixed"   \* programmed over something else
Contents == Data \cup {FF, Mixed}

ASSUME SpiAssumption ==
  /\ PAGESIZE \in Nat \ {0} /\ SECSIZE \in Nat \ {0} /\ SECSIZE % PAGESIZE = 0
  /\ Sectors \in Nat \ {0} /\ Buffers \subseteq Seq(Data) /\ Lengths \subseteq Nat
  /\ Mixed \notin Data \cup {FF} /\ MaxCalls \in Nat

VARIABLES
  mem,             \* the chip's memory
  wel, asleep,     \* its write enable latch; it is in deep power-down
  running,         \* the operation it is busy with
  todo,            \* the transactions the running function has left
  call, addr, buf, \* that function and its arguments
  rbuf,            \* what a read has returned
  device_id,
  opened,          \* the caller has opened the device
  before,          \* history: the memory at the call
  late,            \* history: a wait was given up
  calls

chip == <<mem, wel, asleep, running>>
caller == <<call, addr, buf, opened, before, calls>>
vars == <<chip, todo, caller, rbuf, device_id, late>>

Command(c, a, d) == [cmd |-> c, addr |-> a, data |-> d]
Simple(c) == Command(c, 0, << >>)
Idle == Simple("none")
Wait == Simple("wait")

SectorOf(c) == c \div SECSIZE
PageOf(c) == c \div PAGESIZE

\* Types; that no more than a page goes to the chip at once.
TypeOK ==
  /\ mem \in [Cells -> Contents] /\ wel \in BOOLEAN /\ asleep \in BOOLEAN
  /\ \A k \in 1 .. Len(todo) : todo[k].addr \in Cells /\ Len(todo[k].data) <= PAGESIZE
  /\ running.cmd \in {"none", "erase", "program"} /\ Len(running.data) <= PAGESIZE
  /\ call \in {"none", "open", "read", "erase", "write", "close"}
  /\ addr \in Cells /\ buf \in Seq(Data) /\ rbuf \in Seq(Contents \cup {"garbage"})
  /\ device_id \in {ChipId} \cup Junk /\ opened \in BOOLEAN /\ late \in BOOLEAN
  /\ before \in [Cells -> Contents] /\ calls \in 0 .. MaxCalls

\* Each sector is erased or holds one byte throughout.
Init ==
  /\ mem \in {[c \in Cells |-> f[SectorOf(c)]] : f \in [0 .. Sectors - 1 -> Data \cup {FF}]}
  /\ wel = FALSE /\ asleep \in BOOLEAN /\ running = Idle
  /\ todo = << >> /\ call = "none" /\ addr = 0 /\ buf = << >> /\ rbuf = << >>
  /\ device_id = ChipId /\ opened = FALSE
  /\ before = mem /\ late = FALSE /\ calls = 0

-----------------------------------------------------------------------------
(* The driver's functions.                                                 *)

spi_flash_erase(a) == <<Simple("enable"), Wait, Command("erase", a, << >>), Wait>>

\* mutant: the number of the sector instead of its address
MutSectorBase(a) == a \div SECSIZE

SectorBase(a) == (a \div SECSIZE) * SECSIZE

\* mutant: a buffer of any length
MutClip(b) == b

Clip(b) == SubSeq(b, 1, IF Len(b) > PAGESIZE THEN PAGESIZE ELSE Len(b))

\* mutant: erased bytes are not programmed, but enabled
Mutspi_flash_writeErased(a, b) ==
  spi_flash_erase(SectorBase(a)) \o <<Simple("enable"), Wait>>
    \o IF \A k \in 1 .. Len(b) : b[k] = FF THEN << >>
       ELSE <<Command("program", a, Clip(b)), Wait>>

spi_flash_write(a, b) ==
  spi_flash_erase(SectorBase(a))
    \o <<Simple("enable"), Wait, Command("program", a, Clip(b)), Wait>>

Call(name, a, b, transactions) ==
  /\ todo = << >> /\ todo' = transactions
  /\ calls < MaxCalls /\ calls' = calls + 1
  /\ call' = name /\ addr' = a /\ buf' = b /\ rbuf' = << >> /\ before' = mem
  /\ UNCHANGED <<chip, device_id, late>>

spi_flash_open ==
  /\ ~opened /\ opened' = TRUE
  /\ Call("open", 0, << >>, <<Simple("release"), Simple("id")>>)

spi_flash_close ==
  /\ opened /\ opened' = FALSE
  /\ Call("close", 0, << >>, <<Simple("disable"), Simple("sleep")>>)

\* mutant: a byte is skipped, as the chip's fast read would need it
Mutspi_flash_read ==
  /\ opened /\ UNCHANGED opened
  /\ \E a \in Cells, n \in Lengths :
       /\ a + n \in Cells
       /\ Call("read", a, << >>, [k \in 1 .. n |-> Command("read", a + k, << >>)])

spi_flash_read ==
  /\ opened /\ UNCHANGED opened
  /\ \E a \in Cells, n \in Lengths :
       /\ a + n - 1 \in Cells \cup {-1}
       /\ Call("read", a, << >>, [k \in 1 .. n |-> Command("read", a + k - 1, << >>)])

Erase ==
  /\ opened /\ UNCHANGED opened
  /\ \E a \in Cells : Call("erase", a, << >>, spi_flash_erase(a))

Write ==
  /\ opened /\ UNCHANGED opened
  /\ \E a \in Cells, b \in Buffers :
       Call("write", a, b, spi_flash_write(a, b))

-----------------------------------------------------------------------------
(* A transaction, and what the chip makes of it.                           *)

Awake == ~asleep /\ running = Idle

Obey(t) ==
  CASE t.cmd = "enable" /\ Awake -> wel' = TRUE /\ UNCHANGED <<mem, asleep, running>>
    [] t.cmd = "disable" /\ Awake -> wel' = FALSE /\ UNCHANGED <<mem, asleep, running>>
    [] t.cmd = "sleep" /\ Awake -> asleep' = TRUE /\ UNCHANGED <<mem, wel, running>>
    [] t.cmd = "release" -> asleep' = FALSE /\ UNCHANGED <<mem, wel, running>>
    [] t.cmd = "erase" /\ Awake /\ wel -> running' = t /\ UNCHANGED <<mem, wel, asleep>>
    [] t.cmd = "program" /\ Awake /\ wel /\ t.data # << >> ->
         running' = t /\ UNCHANGED <<mem, wel, asleep>>
    [] OTHER -> UNCHANGED chip

Begins(c) == todo # << >> /\ Head(todo).cmd = c
Done == todo' = Tail(todo) /\ UNCHANGED caller

Transact ==
  /\ todo # << >> /\ Head(todo).cmd \notin {"wait", "read", "id"}
  /\ Done /\ Obey(Head(todo))
  /\ UNCHANGED <<rbuf, device_id, late>>

\* One byte of a read; the transaction's address counts up by itself.
ReadByte ==
  /\ Begins("read") /\ Done
  /\ rbuf' = Append(rbuf, IF Awake THEN mem[Head(todo).addr] ELSE "garbage")
  /\ UNCHANGED <<chip, device_id, late>>

\* The ID is ORed into a local that nothing has initialised.
ReadId ==
  /\ Begins("id") /\ Done
  /\ device_id' \in {ChipId} \cup Junk
  /\ UNCHANGED <<chip, rbuf, late>>

\* mutant: no timeout
Mutspi_flash_wait_busy ==
  /\ Begins("wait") /\ Done
  /\ running = Idle
  /\ UNCHANGED <<chip, rbuf, device_id, late>>

\* The chip is ready, or its status was read too often.
spi_flash_wait_busy ==
  /\ Begins("wait") /\ Done
  /\ late' = (late \/ running # Idle)
  /\ UNCHANGED <<chip, rbuf, device_id>>

\* The k-th byte of a page program stays in its page.
Place(a, k) == PageOf(a) * PAGESIZE + ((a + k - 1) % PAGESIZE)

Over(old, new) == IF old \in {FF, new} THEN new ELSE IF new = FF THEN old ELSE Mixed

Programmed(a, d) ==
  [c \in Cells |->
     IF \E k \in 1 .. Len(d) : Place(a, k) = c
     THEN Over(mem[c], d[CHOOSE k \in 1 .. Len(d) : Place(a, k) = c]) ELSE mem[c]]

\* The chip's own step: an operation ends, and the latch with it.
Finish ==
  /\ running # Idle /\ running' = Idle /\ wel' = FALSE
  /\ mem' = IF running.cmd = "erase"
            THEN [c \in Cells |-> IF SectorOf(c) = SectorOf(running.addr) THEN FF ELSE mem[c]]
            ELSE Programmed(running.addr, running.data)
  /\ UNCHANGED <<asleep, todo, caller, rbuf, device_id, late>>

Driver == Transact \/ ReadByte \/ ReadId \/ spi_flash_wait_busy

Next == spi_flash_open \/ spi_flash_close \/ spi_flash_read \/ Erase \/ Write \/ Driver \/ Finish

Spec == Init /\ [][Next]_vars
FairSpec == Spec /\ WF_vars(Driver)

-----------------------------------------------------------------------------
(***************************************************************************)
(* Without a wait given up, nothing is programmed that the driver did not  *)
(* erase before: write_enable, which comes before the wait and is ignored  *)
(* by a busy chip, is never lost for the erase alone.                      *)
(***************************************************************************)
NoMixed == ~late => \A c \in Cells : mem[c] # Mixed

(***************************************************************************)
(* However slow the chip, a function does not leave it enabled, so that no *)
(* later transaction can change it without an enable of its own.  (A write *)
(* of no bytes would: its page program is none.)                           *)
(***************************************************************************)
LatchClosed == todo = << >> /\ wel => running # Idle

(***************************************************************************)
(* A write that stays within a page ends with its bytes at their address,  *)
(* the rest of their sector erased and the other sectors as they were.     *)
(***************************************************************************)
Fits(a, b) == PageOf(a + Len(b) - 1) = PageOf(a)

WriteLands ==
  todo = << >> /\ call = "write" /\ ~late /\ buf # << >> /\ Fits(addr, buf) =>
    mem = [c \in Cells |->
             IF c \in addr .. addr + Len(buf) - 1 THEN buf[c - addr + 1]
             ELSE IF SectorOf(c) = SectorOf(addr) THEN FF ELSE before[c]]

(***************************************************************************)
(* A read, which does not wait for the chip, returns what it holds.        *)
(***************************************************************************)
ReadReturns ==
  todo = << >> /\ call = "read" /\ ~late =>
    \A k \in 1 .. Len(rbuf) : rbuf[k] = mem[addr + k - 1]

(***************************************************************************)
(* Every function returns, whether or not the chip is ever ready again.    *)
(***************************************************************************)
Returns == todo # << >> ~> todo = << >>

(***************************************************************************)
(* What the comment in spi_flash_write says it does: it reads, modifies    *)
(* and writes back, so that the bytes around the buffer stay.              *)
(***************************************************************************)
KeepsRest ==
  todo = << >> /\ call = "write" /\ ~late =>
    \A c \in Cells \ (addr .. addr + Len(buf) - 1) : mem[c] = before[c]
=============================================================================
