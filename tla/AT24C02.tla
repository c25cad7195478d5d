------------------------------- MODULE AT24C02 -------------------------------
(***************************************************************************)
(* The EEPROM driver (AT24C02.c) on top of the software IIC master: reads  *)
(* and writes byte by byte, each byte a transfer of its own with its       *)
(* acknowledges, and AT24CXX_check.                                        *)
(***************************************************************************)
EXTENDS Iic, FiniteSetsExt

CONSTANTS
  EEPROM_ENDADDR,
  IndexWrap,       \* values of the loop index: uint8_t
  Buffers,         \* what is written
  Lengths,         \* the bytes read
  Probe,           \* 0xee
  MaxCalls, MaxResets

ASSUME EepromAssumption ==
  /\ EEPROM_ENDADDR \in Byte /\ IndexWrap \in Nat \ {0}
  /\ Buffers \subseteq Seq(Bytes) /\ Lengths \subseteq Nat /\ Probe \in Bytes
  /\ MaxCalls \in Nat /\ MaxResets \in Nat

VARIABLES
  call,            \* the function that runs
  stage,           \* where it is in the transfer of a byte
  addr, buf, bufnum, i,
  rbuf,            \* what a read has collected; AT24CXX_check's data
  checked,         \* what AT24CXX_check returned
  before, goal,    \* history: the chip at the call, and with the call done
  from,            \* history: the address of the call
  late,            \* history: a write cycle outlasted the delay loop
  calls, resets

driver == <<call, stage, addr, buf, bufnum, i, rbuf, checked>>
history == <<before, goal, from, late>>
vars == <<busVars, driver, history, calls, resets>>

\* Types; among them that the loop index and the address stay in their ranges
\* through every roll-over.
TypeOK ==
  /\ BusTypeOK
  /\ call \in {"none", "write", "read", "check", "probe"}
  /\ stage \in {"idle", "loop", "device", "transfer"}
  /\ addr \in 0 .. EEPROM_ENDADDR /\ i \in 0 .. IndexWrap - 1 /\ bufnum \in Nat
  /\ buf \in Seq(Bytes) /\ rbuf \in Seq(Byte) /\ checked \in {"none", "error", "ok"}
  /\ late \in BOOLEAN /\ calls \in 0 .. MaxCalls /\ resets \in 0 .. MaxResets

Init ==
  /\ BusInit
  /\ call = "none" /\ stage = "idle" /\ addr = 0 /\ buf = << >> /\ bufnum = 0
  /\ i = 0 /\ rbuf = << >> /\ checked = "none"
  /\ before = cells /\ goal = cells /\ from = 0 /\ late = FALSE
  /\ calls = 0 /\ resets = 0

Writing == call \in {"write", "check"}

\* The k-th byte from a on, behind the last address the first again.
Place(a, k) == (a + k) % (EEPROM_ENDADDR + 1)

\* What memory f is when the bytes of b were stored from a on: of two bytes
\* at one place, the later.
Overwrite(f, a, b) ==
  [c \in 0 .. ChipCells - 1 |->
     LET hits == {k \in 1 .. Len(b) : Place(a, k - 1) % ChipCells = c}
     IN  IF hits = {} THEN f[c] ELSE b[Max(hits)]]

Enter(name, a, b, n) ==
  /\ stage = "idle" /\ stage' = "loop" /\ call' = name
  /\ addr' = a /\ buf' = b /\ bufnum' = n /\ i' = 0 /\ rbuf' = << >>
  /\ before' = cells /\ goal' = Overwrite(cells, a, b) /\ from' = a
  /\ UNCHANGED <<busVars, late, resets>>

Start(name, a, b, n) ==
  /\ calls < MaxCalls /\ calls' = calls + 1
  /\ Enter(name, a, b, n) /\ checked' = "none"

AT24CXX_write(a, b) == call # "check" /\ Start("write", a, b, Len(b))
AT24CXX_read(a, n) == call # "check" /\ Start("read", a, << >>, n)
AT24CXX_check == call # "check" /\ Start("check", EEPROM_ENDADDR, <<Probe, Probe>>, 2)

\* AT24CXX_check reads back what the second byte should have gone to.
CheckRead == call = "check" /\ Enter("probe", 0, << >>, 1) /\ UNCHANGED <<checked, calls>>

\* IIC_Start and the device address, common to readbyte and writebyte
BeginByte ==
  /\ stage = "loop" /\ i < bufnum
  /\ todo' = <<Call("IIC_Start"), Send(DevWrite), Call("IIC_WaitAck")>>
  /\ stage' = "device" /\ ret' = 0
  /\ UNCHANGED <<scl, out, odr, at, acked, slave, call, addr, buf, bufnum, i, rbuf,
                 checked, history, calls, resets>>

\* mutant: the byte is sent before its address
MutWriteRest ==
  <<Send(buf[i + 1]), Call("IIC_WaitAck"), Send(addr), Call("IIC_WaitAck"), Call("IIC_Stop")>>

WriteRest ==
  <<Send(addr), Call("IIC_WaitAck"), Send(buf[i + 1]), Call("IIC_WaitAck"), Call("IIC_Stop")>>

ReadRest ==
  <<Send(addr), Call("IIC_WaitAck"), Call("IIC_Start"), Send(DevRead), Call("IIC_WaitAck"),
    Call("IIC_ReceiveData"), Call("IIC_Stop")>>

\* buf[i] = ... of AT24CXX_read
Collected ==
  IF Writing THEN rbuf
  ELSE IF i < Len(rbuf) THEN [rbuf EXCEPT ![i + 1] = ret] ELSE Append(rbuf, ret)

\* mutant: the address does not roll over
MutAdvance ==
  /\ rbuf' = Collected
  /\ addr' = addr + 1
  /\ i' = (i + 1) % IndexWrap
  /\ stage' = "loop"

Rolled == IF addr + 1 > EEPROM_ENDADDR THEN 0 ELSE addr + 1

\* The end of the loop's body: the byte read, the address and the index.
Advance ==
  /\ rbuf' = Collected
  /\ addr' = Rolled
  /\ i' = (i + 1) % IndexWrap
  /\ stage' = "loop"

\* if (IIC_WaitAck()): a chip that does not answer costs the byte, silently.
DeviceAnswered ==
  /\ stage = "device" /\ todo = << >> /\ acked
  /\ todo' = (IF Writing THEN WriteRest ELSE ReadRest)
  /\ stage' = "transfer"
  /\ UNCHANGED <<scl, out, odr, at, acked, ret, slave, call, addr, buf, bufnum, i,
                 rbuf, checked, history, calls, resets>>

DeviceSilent ==
  /\ stage = "device" /\ todo = << >> /\ ~acked
  /\ Advance
  /\ UNCHANGED <<busVars, call, buf, bufnum, checked, history, calls, resets>>

\* mutant: the delay behind a byte written is left out
MutEndByte ==
  /\ stage = "transfer" /\ todo = << >>
  /\ Advance
  /\ UNCHANGED <<busVars, call, buf, bufnum, checked, history, calls, resets>>

\* The rest of the transfer does not look at its acknowledges; behind a byte
\* written, the delay loop waits for the write cycle without asking.
EndByte ==
  /\ stage = "transfer" /\ todo = << >>
  /\ late' = (late \/ (Writing /\ busy))
  /\ Advance
  /\ UNCHANGED <<busVars, call, buf, bufnum, checked, before, goal, from, calls, resets>>

Return ==
  /\ stage = "loop" /\ i >= bufnum
  /\ stage' = "idle"
  /\ IF call = "probe" THEN checked' = IF rbuf[1] = Probe THEN "ok" ELSE "error"
     ELSE UNCHANGED checked
  /\ UNCHANGED <<busVars, call, addr, buf, bufnum, i, rbuf, history, calls, resets>>

Quietly == UNCHANGED <<driver, history, calls, resets>>

Driver ==
  \/ CheckRead \/ BeginByte \/ DeviceAnswered \/ DeviceSilent \/ EndByte \/ Return
  \/ PinOperation /\ Quietly

Disturb ==
  /\ resets < MaxResets /\ resets' = resets + 1
  /\ ChipReset
  /\ UNCHANGED <<driver, history, calls>>

Next ==
  \/ \E a \in 0 .. EEPROM_ENDADDR, b \in Buffers : AT24CXX_write(a, b)
  \/ \E a \in 0 .. EEPROM_ENDADDR, n \in Lengths : AT24CXX_read(a, n)
  \/ AT24CXX_check
  \/ Driver
  \/ ChipReady /\ Quietly
  \/ Disturb

Spec == Init /\ [][Next]_vars

\* The processor runs, and a write cycle ends.
FairSpec == Spec /\ WF_vars(Driver) /\ WF_vars(ChipReady /\ Quietly)

-----------------------------------------------------------------------------
(***************************************************************************)
(* While SCL is high the master never drives SDA against the chip: no bit  *)
(* and no acknowledge is taken from a line that two outputs dispute.  (For *)
(* a moment while SCL is low they do: behind a byte that ends in a 1, the  *)
(* chip acknowledges before IIC_WaitAck turns the pin round.)              *)
(***************************************************************************)
NoDisputedBit == ~(scl = 1 /\ out /\ odr = 1 /\ low)

(***************************************************************************)
(* Whatever went wrong in the transfer of a byte, behind it the bus is free*)
(* and the chip waits for a START.                                         *)
(***************************************************************************)
BusFree ==
  stage \in {"idle", "loop"} => scl = 1 /\ odr = 1 /\ ~low /\ chip.mode = "off"

Undisturbed == resets = 0 /\ ~late

(***************************************************************************)
(* Undisturbed, a write ends with exactly its bytes stored, from            *)
(* its address on, round the end of the chip.                              *)
(***************************************************************************)
WriteLands == stage = "idle" /\ Undisturbed => cells = goal

(***************************************************************************)
(* Undisturbed, a read returns what the chip held.                         *)
(***************************************************************************)
ReadReturns ==
  stage = "idle" /\ call = "read" /\ Undisturbed =>
    rbuf = [k \in 1 .. bufnum |-> before[Place(from, k - 1) % ChipCells]]

(***************************************************************************)
(* A call ends, unless its length does not fit the 8-bit loop index.       *)
(***************************************************************************)
Returns == (stage # "idle" /\ bufnum < IndexWrap) ~> (stage = "idle")

(***************************************************************************)
(* The comment of AT24CXX_check takes its result for a statement about the *)
(* size of the chip.                                                       *)
(***************************************************************************)
CheckTellsSize == checked = "ok" => ChipCells = EEPROM_ENDADDR + 1

-----------------------------------------------------------------------------
(* The driver implements EepromStore: a byte counts as written, or missed, *)
(* from the STOP behind it on.                                             *)

Settled == stage = "transfer" /\ Writing /\ todo = << >>

Store == INSTANCE EepromStore WITH
  Size <- ChipCells,
  LastPlace <- EEPROM_ENDADDR,
  Wrap <- IndexWrap,
  Values <- Byte,
  memory <- cells,
  work <- IF stage = "idle" THEN "none" ELSE IF Writing THEN "write" ELSE "read",
  data <- buf,
  count <- bufnum,
  place <- IF Settled THEN Rolled ELSE addr,
  index <- IF Settled THEN (i + 1) % IndexWrap ELSE i,
  result <- rbuf,
  disturbed <- ~Undisturbed

(***************************************************************************)
(* Every pin operation, whatever acknowledges are missing and wherever the *)
(* chip loses its place, is a step of EepromStore or none.                 *)
(***************************************************************************)
ImplementsStore == Store!StoreSpec
=============================================================================
