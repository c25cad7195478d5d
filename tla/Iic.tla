--------------------------------- MODULE Iic ---------------------------------
(***************************************************************************)
(* The software IIC master (gpio_iic.c) at the level of its two lines, and *)
(* the EEPROM chip at their other end.  Every routine of the master is a   *)
(* fixed sequence of operations on the pins; the chip follows the edges    *)
(* they make.  Only IIC_WaitAck and IIC_ReceiveData look at a line.        *)
(***************************************************************************)
EXTENDS Integers, Sequences

CONSTANTS
  Bits,            \* bits of a byte: 8 in the code
  DevWrite,        \* 0xA0; 0xA1, one more, asks the chip to send
  ChipCells,       \* bytes of the chip
  Bytes            \* bytes that are ever stored

Pow2[n \in Nat] == IF n = 0 THEN 1 ELSE 2 * Pow2[n - 1]
Byte == 0 .. Pow2[Bits] - 1
DevRead == DevWrite + 1

ASSUME BusAssumption ==
  /\ Bits \in Nat \ {0} /\ DevWrite \in Byte /\ DevRead \in Byte /\ DevWrite % 2 = 0
  /\ ChipCells \in 1 .. Pow2[Bits] /\ Bytes \subseteq Byte

VARIABLES
  scl,             \* SCL, driven by the master alone
  out,             \* the master drives SDA
  odr,             \* the level it drives; as an input, the level it is pulled to
  todo, at,        \* the routines left to run, and the place in the first
  acked,           \* what the last IIC_WaitAck returned
  ret,             \* the byte IIC_ReceiveData collects
  chip, low,       \* the chip's protocol state; it pulls SDA low
  cells, busy      \* its memory; it is in a write cycle

master == <<scl, out, odr, todo, at, acked, ret>>
slave == <<chip, low, cells, busy>>
busVars == <<master, slave>>

Modes == {"off", "dev", "word", "data", "read"}
ChipOff ==
  [mode |-> "off", shift |-> 0, count |-> 0, ninth |-> FALSE, pointer |-> 0, latch |-> -1]

\* Types of the bus and of the chip, a part of AT24C02's TypeOK.
BusTypeOK ==
  /\ scl \in {0, 1} /\ odr \in {0, 1} /\ out \in BOOLEAN /\ acked \in BOOLEAN
  /\ ret \in Byte /\ at \in Nat \ {0} /\ low \in BOOLEAN /\ busy \in BOOLEAN
  /\ cells \in [0 .. ChipCells - 1 -> Byte]
  /\ chip \in [mode : Modes, shift : Byte, count : 0 .. Bits, ninth : BOOLEAN,
               pointer : 0 .. ChipCells - 1, latch : Byte \cup {-1}]

BusInit ==
  /\ scl = 1 /\ out = TRUE /\ odr = 1
  /\ todo = << >> /\ at = 1 /\ acked = FALSE /\ ret = 0
  /\ chip = ChipOff /\ low = FALSE /\ busy = FALSE
  /\ cells \in [0 .. ChipCells - 1 -> Bytes]

Sda == IF low THEN 0 ELSE odr

-----------------------------------------------------------------------------
(* The routines, as sequences of pin operations.                           *)

Out == <<"out", 0>>
In == <<"in", 0>>
SDA(v) == <<"sda", v>>
SCL(v) == <<"scl", v>>
Sample == <<"sample", 0>>
Poll == <<"poll", 0>>

IIC_Start == <<Out, SDA(1), SCL(1), SDA(0), SCL(0)>>

\* mutant: the lines rise in the wrong order
MutIIC_Stop == <<Out, SCL(0), SDA(0), SDA(1), SCL(1)>>

IIC_Stop == <<Out, SCL(0), SDA(0), SCL(1), SDA(1)>>

\* mutant: the pin stays an output
MutIIC_WaitAck == <<SDA(1), SCL(1), Poll, SCL(0)>>

IIC_WaitAck == <<In, SDA(1), SCL(1), Poll, SCL(0)>>
IIC_NotAck == <<SCL(0), Out, SDA(1), SCL(1), SCL(0)>>

Bit(d, k) == (d \div Pow2[Bits - k]) % 2

\* A loop over the bits of a byte, with three operations in its body.
ForEachBit(body) == [n \in 1 .. 3 * Bits |-> body[(n + 2) \div 3][1 + ((n + 2) % 3)]]

IIC_SendData[d \in Byte] ==
  <<Out, SCL(0)>> \o ForEachBit([k \in 1 .. Bits |-> <<SDA(Bit(d, k)), SCL(1), SCL(0)>>])

\* mutant: the line is looked at before the clock rises
MutIIC_ReceiveData ==
  <<In>> \o ForEachBit([k \in 1 .. Bits |-> <<Sample, SCL(0), SCL(1)>>]) \o IIC_NotAck

\* IIC_ReceiveData(0)
IIC_ReceiveData ==
  <<In>> \o ForEachBit([k \in 1 .. Bits |-> <<SCL(0), SCL(1), Sample>>]) \o IIC_NotAck

\* A call of one of them, and what it runs.
Call(name) == <<name, 0>>
Send(d) == <<"IIC_SendData", d>>

Code(routine) ==
  CASE routine[1] = "IIC_Start" -> IIC_Start
    [] routine[1] = "IIC_Stop" -> IIC_Stop
    [] routine[1] = "IIC_WaitAck" -> IIC_WaitAck
    [] routine[1] = "IIC_SendData" -> IIC_SendData[routine[2]]
    [] routine[1] = "IIC_ReceiveData" -> IIC_ReceiveData

-----------------------------------------------------------------------------
(* The chip.                                                               *)

\* A START is not seen in a write cycle.
ChipStart ==
  /\ chip' = IF busy THEN chip
             ELSE [chip EXCEPT !.mode = "dev", !.shift = 0, !.count = 0,
                               !.ninth = FALSE, !.latch = -1]
  /\ low' = FALSE
  /\ UNCHANGED <<cells, busy>>

\* A STOP behind an acknowledged byte of data begins the write cycle.
ChipStop ==
  /\ IF chip.mode = "data" /\ chip.latch # -1
     THEN cells' = [cells EXCEPT ![chip.pointer] = chip.latch] /\ busy' = TRUE
     ELSE UNCHANGED <<cells, busy>>
  /\ chip' = [chip EXCEPT !.mode = "off", !.shift = 0, !.count = 0,
                          !.ninth = FALSE, !.latch = -1]
  /\ low' = FALSE

Receiving == chip.mode \in {"dev", "word", "data"}

\* The chip takes a bit, or, when it has sent a byte, the acknowledge.
ChipRise ==
  /\ chip' = CASE Receiving /\ ~chip.ninth -> [chip EXCEPT !.shift = 2 * @ + Sda, !.count = @ + 1]
               [] chip.mode = "read" /\ chip.ninth /\ Sda = 1 -> [chip EXCEPT !.mode = "off"]
               [] OTHER -> chip
  /\ UNCHANGED <<low, cells, busy>>

\* To put the k-th bit of a byte out.
Sends(byte, k, c) ==
  /\ chip' = [c EXCEPT !.mode = "read", !.ninth = FALSE, !.shift = byte, !.count = k]
  /\ low' = (Bit(byte, k) = 0)

\* A byte has come in: the chip acknowledges it, or it was called for another.
TakeByte ==
  IF chip.mode = "dev" /\ chip.shift \notin {DevWrite, DevRead}
  THEN chip' = [chip EXCEPT !.mode = "off"] /\ low' = FALSE
  ELSE /\ chip' = [chip EXCEPT !.ninth = TRUE,
                     !.pointer = IF chip.mode = "word" THEN chip.shift % ChipCells ELSE @,
                     !.latch = IF chip.mode = "data" THEN chip.shift ELSE @]
       /\ low' = TRUE

\* Behind the acknowledge the chip expects the next byte, or sends one.
EndAck ==
  IF chip.mode = "dev" /\ chip.shift = DevRead THEN Sends(cells[chip.pointer], 1, chip)
  ELSE /\ chip' = [chip EXCEPT !.ninth = FALSE, !.shift = 0, !.count = 0,
                               !.mode = IF @ = "dev" THEN "word" ELSE "data"]
       /\ low' = FALSE

\* All bits sent, the chip looks for an acknowledge.
SendNext ==
  IF chip.count = Bits THEN chip' = [chip EXCEPT !.ninth = TRUE] /\ low' = FALSE
  ELSE Sends(chip.shift, chip.count + 1, chip)

SendNextByte ==
  LET next == (chip.pointer + 1) % ChipCells
  IN  Sends(cells[next], 1, [chip EXCEPT !.pointer = next])

ChipFall ==
  /\ CASE Receiving /\ chip.ninth -> EndAck
       [] Receiving /\ ~chip.ninth /\ chip.count = Bits -> TakeByte
       [] chip.mode = "read" /\ ~chip.ninth -> SendNext
       [] chip.mode = "read" /\ chip.ninth -> SendNextByte
       [] OTHER -> UNCHANGED <<chip, low>>
  /\ UNCHANGED <<cells, busy>>

-----------------------------------------------------------------------------
(* The pin operations.                                                     *)

Op == Code(Head(todo))[at]
Doing(op) == todo # << >> /\ Op[1] = op
Done ==
  IF at < Len(Code(Head(todo))) THEN at' = at + 1 /\ UNCHANGED todo
  ELSE at' = 1 /\ todo' = Tail(todo)

Direction ==
  /\ Doing("out") \/ Doing("in")
  /\ Done /\ out' = Doing("out")
  /\ UNCHANGED <<scl, odr, acked, ret, slave>>

\* SDA that changes while SCL is high is a START or a STOP.
SetSda ==
  /\ Doing("sda") /\ Done
  /\ odr' = Op[2]
  /\ CASE scl = 1 /\ ~low /\ odr = 1 /\ odr' = 0 -> ChipStart
       [] scl = 1 /\ ~low /\ odr = 0 /\ odr' = 1 -> ChipStop
       [] OTHER -> UNCHANGED slave
  /\ UNCHANGED <<scl, out, acked, ret>>

SetScl ==
  /\ Doing("scl") /\ Done
  /\ scl' = Op[2]
  /\ CASE scl = 0 /\ scl' = 1 -> ChipRise
       [] scl = 1 /\ scl' = 0 -> ChipFall
       [] OTHER -> UNCHANGED slave
  /\ UNCHANGED <<out, odr, acked, ret>>

Read ==
  /\ Doing("sample") /\ Done
  /\ ret' = (2 * ret + Sda) % Pow2[Bits]
  /\ UNCHANGED <<scl, out, odr, acked, slave>>

\* The while loop of IIC_WaitAck: seen, or given up with an IIC_Stop.
AckSeen ==
  /\ Doing("poll") /\ Sda = 0
  /\ acked' = TRUE /\ Done
  /\ UNCHANGED <<scl, out, odr, ret, slave>>

\* mutant: waits for ever
MutAckTimeout == Doing("poll") /\ Sda = 1 /\ UNCHANGED <<master, slave>>

AckTimeout ==
  /\ Doing("poll") /\ Sda = 1
  /\ acked' = FALSE /\ todo' = [todo EXCEPT ![1] = Call("IIC_Stop")] /\ at' = 1
  /\ UNCHANGED <<scl, out, odr, ret, slave>>

PinOperation == Direction \/ SetSda \/ SetScl \/ Read \/ AckSeen \/ AckTimeout

\* The chip's own steps: the write cycle ends, or it loses its place (a dip of
\* its supply, a disturbance of a line).
ChipReady ==
  /\ busy /\ busy' = FALSE
  /\ UNCHANGED <<master, chip, low, cells>>

ChipReset ==
  /\ \E p \in 0 .. ChipCells - 1 : chip' = [ChipOff EXCEPT !.pointer = p]
  /\ low' = FALSE
  /\ UNCHANGED <<master, cells, busy>>
=============================================================================
