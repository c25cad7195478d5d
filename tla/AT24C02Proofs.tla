--------------------------- MODULE AT24C02Proofs ---------------------------
(***************************************************************************)
(* What the EEPROM driver promises, for every width of a byte, size of the *)
(* chip, buffer and number of calls, and whatever disturbs the chip: who   *)
(* drives the lines, what is stored and what is read.                      *)
(***************************************************************************)
EXTENDS AT24C02, SequenceTheorems, WellFoundedInduction, TLAPS

LEMMA BitsPositive == Bits \in Nat \ {0}
  BY BusAssumption DEF BusAssumption

USE BitsPositive

-----------------------------------------------------------------------------
(* What the lines and the chip are at every place of a routine.            *)

\* The first c bits of the byte d.
Top(d, c) == d \div Pow2[Bits - c]

\* The chip waits for a START.  In the middle of a transfer it does so only
\* when it lost its place or was busy: it is lost until the next START.
Off == chip.mode = "off" /\ ~low
Lost == Off /\ ~Undisturbed
Parked == scl = 1 /\ odr = 1 /\ Off

Points == chip.pointer = addr % ChipCells
Pointed(m) == m = "data" \/ (m = "dev" /\ stage = "transfer" /\ Undisturbed) => Points

\* The chip has taken c bits of the byte d, in mode m.
Taking(m, d, c) ==
  /\ chip.mode = m /\ ~chip.ninth /\ ~low /\ chip.latch = -1 /\ Pointed(m)
  /\ chip.count = c /\ chip.shift = Top(d, c)

\* It acknowledges d.
Acking(m, d) ==
  /\ chip.mode = m /\ chip.ninth /\ low /\ chip.shift = d /\ Pointed(m)
  /\ m = "word" => chip.pointer = d % ChipCells
  /\ chip.latch = IF m = "data" THEN d ELSE -1

\* It holds the byte that a STOP will store.
Holding ==
  /\ chip.mode = "data" /\ ~chip.ninth /\ ~low /\ chip.shift = 0 /\ chip.count <= 1
  /\ Points /\ chip.latch = buf[i + 1]

\* It has put out the k-th bit of a byte.
Feeding(k) ==
  /\ chip.mode = "read" /\ ~chip.ninth /\ chip.count = k
  /\ low = (Bit(chip.shift, k) = 0)
  /\ Undisturbed => chip.shift = cells[addr % ChipCells]

\* Between two routines: behind an acknowledge, or behind one that stayed out.
Between == scl = 0 \/ (Parked /\ Lost)

\* IIC_Start, the first of a transfer or a repeated one.
Starting(first) ==
  /\ at \in 1 .. 5
  /\ at <= 4 => odr = 1
  /\ at = 5 => odr = 0
  /\ first \/ at >= 4 => scl = 1
  /\ first /\ at <= 4 => Off
  /\ ~first /\ at <= 3 => Between /\ (Lost \/ Taking("data", 0, 0))
  /\ ~first /\ at = 4 => Lost \/ (chip.mode = "data" /\ Points /\ ~low)
  /\ at = 5 => Lost \/ Taking("dev", 0, 0)

Sending(m, d) ==
  /\ at \in 1 .. 3 * Bits + 2
  /\ at <= 2 => Between /\ (Lost \/ Taking(m, d, 0))
  /\ at > 2 /\ at % 3 = 0 => scl = 0 /\ (Lost \/ Taking(m, d, (at \div 3) - 1))
  /\ at > 2 /\ at % 3 = 1 =>
       scl = 0 /\ odr = Bit(d, at \div 3) /\ (Lost \/ Taking(m, d, (at \div 3) - 1))
  /\ at > 2 /\ at % 3 = 2 =>
       scl = 1 /\ odr = Bit(d, at \div 3) /\ (Lost \/ Taking(m, d, at \div 3))

Waiting(m, d) ==
  /\ at \in 1 .. 5
  /\ at >= 2 => ~out
  /\ at <= 3 => scl = 0
  /\ at >= 3 => odr = 1
  /\ at >= 4 => scl = 1
  /\ at = 5 => acked
  /\ Lost \/ Acking(m, d)

\* IIC_Stop; behind a byte written, the chip holds it.
Stopping(held) ==
  /\ at \in 1 .. 5
  /\ at <= 2 => scl = 0 \/ Parked
  /\ at \in {3, 4} => scl = 0
  /\ at >= 4 => odr = 0
  /\ at = 5 => scl = 1
  /\ IF held THEN Lost \/ (Holding /\ (at <= 4 => scl = 0 /\ chip.count = 0)) ELSE Off

\* The bits of a byte that came in, and the byte.
Got(k) == ret = Top(chip.shift, k)
Fetched == Undisturbed => ret = cells[addr % ChipCells]

ReceivingBits ==
  /\ odr = 1
  /\ at <= 2 => Between /\ (Lost \/ (Feeding(1) /\ Got(0)))
  /\ at > 2 /\ at % 3 = 0 => scl = 0 /\ (Lost \/ (Feeding(at \div 3) /\ Got((at \div 3) - 1)))
  /\ at > 2 /\ at % 3 = 1 => scl = 1 /\ (Lost \/ (Feeding(at \div 3) /\ Got((at \div 3) - 1)))
  /\ at > 2 /\ at % 3 = 2 => scl = 1 /\ (Lost \/ (Feeding(at \div 3) /\ Got(at \div 3)))

\* IIC_NotAck behind them
Declining ==
  /\ Fetched
  /\ at <= 3 * Bits + 5 =>
       scl = 0 /\ (Lost \/ (chip.mode = "read" /\ chip.ninth /\ ~low))
  /\ at = 3 * Bits + 5 => odr = 1
  /\ at = 3 * Bits + 6 => scl = 1 /\ Off

Receives ==
  /\ at \in 1 .. 3 * Bits + 6
  /\ at <= 3 * Bits + 2 => ReceivingBits
  /\ at > 3 * Bits + 2 => Declining
  /\ at \in 2 .. 3 * Bits + 3 => ~out

-----------------------------------------------------------------------------
(* The invariant: what a transfer has left to run, and where it is.        *)

WaitAck == Call("IIC_WaitAck")
Stop == Call("IIC_Stop")

GivingUp == Stopping(FALSE) /\ ~Undisturbed
Storing == Stopping(TRUE)
First == Starting(TRUE)
Again == Starting(FALSE)
Finishing == Stopping(FALSE) /\ Fetched
Through == todo = << >> /\ at = 1

InDevice ==
  \/ todo = <<Call("IIC_Start"), Send(DevWrite), WaitAck>> /\ First
  \/ todo = <<Send(DevWrite), WaitAck>> /\ Sending("dev", DevWrite)
  \/ todo = <<WaitAck>> /\ Waiting("dev", DevWrite)
  \/ todo = <<Stop>> /\ ~acked /\ GivingUp
  \/ Through /\ ~acked /\ Parked /\ ~Undisturbed
  \/ Through /\ acked /\ scl = 0 /\ (Lost \/ Taking("word", 0, 0))

InWrite(d) ==
  \/ todo = <<Send(addr), WaitAck, Send(d), WaitAck, Stop>> /\ Sending("word", addr)
  \/ todo = <<WaitAck, Send(d), WaitAck, Stop>> /\ Waiting("word", addr)
  \/ todo = <<Stop, Send(d), WaitAck, Stop>> /\ GivingUp
  \/ todo = <<Send(d), WaitAck, Stop>> /\ Sending("data", d)
  \/ todo = <<WaitAck, Stop>> /\ Waiting("data", d)
  \/ todo = <<Stop, Stop>> /\ GivingUp
  \/ todo = <<Stop>> /\ Storing
  \/ Through /\ Parked

InAsk ==
  \/ /\ todo = <<Send(addr), WaitAck, Call("IIC_Start"), Send(DevRead), WaitAck,
                 Call("IIC_ReceiveData"), Stop>>
     /\ Sending("word", addr)
  \/ /\ todo = <<WaitAck, Call("IIC_Start"), Send(DevRead), WaitAck,
                 Call("IIC_ReceiveData"), Stop>>
     /\ Waiting("word", addr)
  \/ /\ todo = <<Stop, Call("IIC_Start"), Send(DevRead), WaitAck,
                 Call("IIC_ReceiveData"), Stop>>
     /\ GivingUp
  \/ /\ todo = <<Call("IIC_Start"), Send(DevRead), WaitAck, Call("IIC_ReceiveData"), Stop>>
     /\ Again
  \/ /\ todo = <<Send(DevRead), WaitAck, Call("IIC_ReceiveData"), Stop>>
     /\ Sending("dev", DevRead)
  \/ todo = <<WaitAck, Call("IIC_ReceiveData"), Stop>> /\ Waiting("dev", DevRead)
  \/ todo = <<Stop, Call("IIC_ReceiveData"), Stop>> /\ GivingUp

InRead ==
  \/ ret = 0 /\ InAsk
  \/ todo = <<Call("IIC_ReceiveData"), Stop>> /\ Receives
  \/ todo = <<Stop>> /\ Finishing
  \/ Through /\ Parked /\ Fetched

Bus ==
  /\ stage \in {"idle", "loop"} => Through /\ Parked
  /\ stage = "device" => ret = 0 /\ InDevice
  /\ stage = "transfer" /\ Writing => InWrite(buf[i + 1])
  /\ stage = "transfer" /\ ~Writing => InRead

\* Deaf in a write cycle, the chip is off; undisturbed, the cycle ends in the
\* delay behind the byte.
Cycle ==
  /\ busy => chip.mode = "off"
  /\ busy /\ Undisturbed => stage = "transfer" /\ Writing /\ todo = << >>

Arguments ==
  /\ IF Writing THEN bufnum = Len(buf) ELSE buf = << >>
  /\ stage \in {"device", "transfer"} => i < bufnum
  /\ from \in 0 .. EEPROM_ENDADDR /\ before \in [0 .. ChipCells - 1 -> Byte]

\* The bytes of the buffer that are stored.
Landed == IF ~Writing THEN 0 ELSE IF stage = "transfer" /\ todo = << >> THEN i + 1 ELSE i

Memory ==
  /\ goal = Overwrite(before, from, buf)
  /\ stage = "idle" => bufnum <= i /\ bufnum < IndexWrap
  /\ bufnum < IndexWrap => i <= bufnum /\ addr = Place(from, i)
  /\ bufnum < IndexWrap /\ Undisturbed =>
       /\ cells = Overwrite(before, from, SubSeq(buf, 1, Landed))
       /\ ~Writing => rbuf = [k \in 1 .. i |-> before[Place(from, k - 1) % ChipCells]]

-----------------------------------------------------------------------------
(* Bits of a byte.                                                         *)

\* A set of numbers has a least one.
LEMMA LeastNumber ==
  ASSUME NEW T \in SUBSET Nat, T # {}
  PROVE  \E n \in T : \A m \in T : n <= m
<1>1. \E n \in T : \A m \in T : ~(<<m, n>> \in OpToRel(<, Nat))
  BY NatLessThanWellFounded, WFMin, Zenon
<1>2. PICK n \in T : \A m \in T : ~(<<m, n>> \in OpToRel(<, Nat))
  BY <1>1, Zenon
<1>3. \A m \in T : ~(m < n)
  BY <1>2 DEF OpToRel
<1> QED BY <1>3

\* The recursive definition of Pow2 up to n, and in full.
Doubles(f, n) == f \in [0 .. n -> Nat \ {0}] /\ f[0] = 1 /\ \A k \in 1 .. n : f[k] = 2 * f[k - 1]
Power(f) == f = [n \in Nat |-> IF n = 0 THEN 1 ELSE 2 * f[n - 1]]

LEMMA DoublesExist == \A n \in Nat : \E f : Doubles(f, n)
<1> DEFINE T == {n \in Nat : ~\E f : Doubles(f, n)}
<1>1. ASSUME T # {} PROVE FALSE
  <2>1. PICK n \in T : \A m \in T : n <= m
    <3>1. T \in SUBSET Nat
      OBVIOUS
    <3> HIDE DEF T
    <3> QED BY <1>1, <3>1, LeastNumber
  <2>2. Doubles([k \in 0 .. 0 |-> 1], 0)
    BY DEF Doubles
  <2>3. n \in Nat \ {0}
    <3>1. n # 0
      BY <2>1, <2>2
    <3> QED BY <2>1, <3>1
  <2>4. PICK f : Doubles(f, n - 1)
    <3>1. n - 1 \in Nat /\ ~(n <= n - 1)
      BY <2>3
    <3>2. n - 1 \notin T
      BY <2>1, <3>1
    <3> QED BY <3>1, <3>2
  <2> DEFINE g == [k \in 0 .. n |-> IF k = n THEN 2 * f[n - 1] ELSE f[k]]
  <2>5. f \in [0 .. n - 1 -> Nat \ {0}] /\ f[0] = 1 /\ \A k \in 1 .. n - 1 : f[k] = 2 * f[k - 1]
    BY <2>4 DEF Doubles
  <2>6. g \in [0 .. n -> Nat \ {0}] /\ g[0] = 1
    BY <2>3, <2>5
  <2>7. ASSUME NEW k \in 1 .. n PROVE g[k] = 2 * g[k - 1]
    BY <2>3, <2>5, <2>7
  <2>8. Doubles(g, n)
    BY <2>6, <2>7 DEF Doubles
  <2> QED BY <2>1, <2>8
<1> QED BY <1>1

LEMMA DoublesAgree ==
  ASSUME NEW n \in Nat, NEW m \in 0 .. n, NEW f, NEW g, Doubles(f, m), Doubles(g, n)
  PROVE  \A k \in 0 .. m : f[k] = g[k]
<1> DEFINE T == {k \in 0 .. m : f[k] # g[k]}
<1>1. ASSUME T # {} PROVE FALSE
  <2>1. PICK k \in T : \A j \in T : k <= j
    <3>1. T \in SUBSET Nat
      OBVIOUS
    <3> HIDE DEF T
    <3> QED BY <1>1, <3>1, LeastNumber
  <2>2. k \in 1 .. m
    BY <2>1 DEF Doubles
  <2>3. f[k - 1] = g[k - 1]
    BY <2>1, <2>2
  <2>4. f[k] = 2 * f[k - 1] /\ g[k] = 2 * g[k - 1]
    BY <2>2 DEF Doubles
  <2> QED BY <2>1, <2>3, <2>4
<1> QED BY <1>1

LEMMA PowerExists == \E f : Power(f)
<1> DEFINE F(n) == CHOOSE f : Doubles(f, n)
           g == [n \in Nat |-> F(n)[n]]
<1>1. \A n \in Nat : Doubles(F(n), n)
  BY DoublesExist, Zenon
<1> HIDE DEF F
<1>2. ASSUME NEW n \in Nat, n # 0 PROVE g[n] = 2 * g[n - 1]
  <2>1. Doubles(F(n), n) /\ Doubles(F(n - 1), n - 1)
    BY <1>1, <1>2
  <2>2. F(n - 1)[n - 1] = F(n)[n - 1]
    BY <1>2, <2>1, DoublesAgree
  <2>3. F(n)[n] = 2 * F(n)[n - 1]
    BY <1>2, <2>1 DEF Doubles
  <2> QED BY <1>2, <2>2, <2>3
<1>3. g[0] = 1
  BY <1>1 DEF Doubles
<1>4. g = [n \in Nat |-> IF n = 0 THEN 1 ELSE 2 * g[n - 1]]
  <2>1. \A n \in Nat : g[n] = IF n = 0 THEN 1 ELSE 2 * g[n - 1]
    BY <1>2, <1>3
  <2> QED BY <2>1
<1> QED BY <1>4 DEF Power

LEMMA Powers ==
  /\ Pow2 \in [Nat -> Nat \ {0}] /\ Pow2[0] = 1
  /\ \A n \in Nat : Pow2[n + 1] = 2 * Pow2[n]
<1>1. Power(Pow2)
  <2>1. Pow2 = CHOOSE f : Power(f)
    BY Zenon DEF Pow2, Power
  <2> QED BY <2>1, PowerExists, Zenon
<1>2. Pow2 = [n \in Nat |-> IF n = 0 THEN 1 ELSE 2 * Pow2[n - 1]]
  BY <1>1, Zenon DEF Power
<1> DEFINE p == Pow2
<1> HIDE DEF p
<1>3. p[0] = 1 /\ \A n \in Nat : p[n + 1] = 2 * p[n]
  <2>1. p = [n \in Nat |-> IF n = 0 THEN 1 ELSE 2 * p[n - 1]]
    BY <1>2 DEF p
  <2>2. \A n \in Nat : p[n] = IF n = 0 THEN 1 ELSE 2 * p[n - 1]
    BY <2>1
  <2> QED BY <2>2
<1> DEFINE T == {n \in Nat : p[n] \notin Nat \ {0}}
<1>4. ASSUME T # {} PROVE FALSE
  <2>1. PICK n \in T : \A m \in T : n <= m
    <3>1. T \in SUBSET Nat
      OBVIOUS
    <3> HIDE DEF T
    <3> QED BY <1>4, <3>1, LeastNumber
  <2>2. n \in Nat /\ n # 0
    BY <1>3, <2>1
  <2>3. n - 1 \in Nat /\ (n - 1) + 1 = n
    BY <2>2
  <2>4. p[n - 1] \in Nat \ {0}
    BY <2>1, <2>2, <2>3
  <2>5. p[n] = 2 * p[n - 1]
    BY <1>3, <2>3
  <2> QED BY <2>1, <2>4, <2>5
<1>5. p = [n \in Nat |-> p[n]]
  BY <1>2 DEF p
<1> QED BY <1>3, <1>4, <1>5 DEF p

LEMMA Division ==
  ASSUME NEW a \in Nat, NEW m \in Nat \ {0}
  PROVE  /\ a \div m \in Nat /\ a % m \in 0 .. m - 1 /\ a = m * (a \div m) + (a % m)
         /\ a \div m <= a
  OBVIOUS

LEMMA Quotient ==
  ASSUME NEW a \in Nat, NEW m \in Nat \ {0}, NEW h \in Nat, NEW r \in 0 .. m - 1, a = m * h + r
  PROVE  a \div m = h /\ a % m = r
  OBVIOUS

\* To halve twice is to divide by the double.
LEMMA Halving ==
  ASSUME NEW d \in Nat, NEW p \in Nat \ {0}
  PROVE  /\ (d \div p) % 2 \in {0, 1}
         /\ d \div p = 2 * (d \div (2 * p)) + ((d \div p) % 2)
<1> DEFINE q == d \div p
           r == d % p
           h == q \div 2
           b == q % 2
<1>1. q \in Nat /\ r \in 0 .. p - 1 /\ d = p * q + r
  BY Division
<1> HIDE DEF q, r
<1>2. h \in Nat /\ b \in {0, 1} /\ q = 2 * h + b
  BY <1>1
<1> HIDE DEF h, b
<1>3. p * q = (2 * p) * h + b * p
  BY <1>2
<1>4. b * p + r \in 0 .. 2 * p - 1
  BY <1>1, <1>2
<1>5. d = (2 * p) * h + (b * p + r)
  BY <1>1, <1>2, <1>3
<1>6. d \div (2 * p) = h
  BY <1>2, <1>4, <1>5, Quotient
<1> QED BY <1>2, <1>6 DEF q, b

LEMMA ByteFacts == /\ Pow2[Bits] \in Nat /\ Pow2[Bits] >= 2 /\ Byte \subseteq Nat
                   /\ 0 \in Byte /\ 1 \in Byte /\ Bytes \subseteq Byte
                   /\ DevWrite \in Byte /\ DevRead \in Byte /\ DevRead # DevWrite
                   /\ EEPROM_ENDADDR \in Nat /\ 0 .. EEPROM_ENDADDR \subseteq Byte
                   /\ ChipCells \in Nat \ {0}
<1>1. Bits - 1 \in Nat /\ (Bits - 1) + 1 = Bits
  OBVIOUS
<1>2. Pow2[Bits] = 2 * Pow2[Bits - 1] /\ Pow2[Bits - 1] \in Nat \ {0}
  BY <1>1, Powers
<1> QED BY <1>2, BusAssumption, EepromAssumption
        DEF Byte, BusAssumption, EepromAssumption, DevRead

\* A byte is the number its bits make.
LEMMA TopBits ==
  ASSUME NEW d \in Byte
  PROVE  /\ Top(d, 0) = 0 /\ Top(d, Bits) = d
         /\ \A c \in 0 .. Bits : Top(d, c) \in Byte
         /\ \A k \in 1 .. Bits : Bit(d, k) \in {0, 1} /\ Top(d, k) = 2 * Top(d, k - 1) + Bit(d, k)
<1>1. d \in Nat /\ d < Pow2[Bits] /\ Bits \in Nat \ {0}
  BY ByteFacts DEF Byte
<1>2. \A n \in Nat : Pow2[n] \in Nat \ {0}
  BY Powers
<1>3. Top(d, 0) = 0
  <2>1. d = Pow2[Bits] * 0 + d /\ d \in 0 .. Pow2[Bits] - 1
    BY <1>1, <1>2
  <2>2. d \div Pow2[Bits] = 0
    BY <1>1, <1>2, <2>1, Quotient
  <2> QED BY <1>1, <2>2 DEF Top
<1>4. Top(d, Bits) = d
  <2>1. Pow2[Bits - Bits] = 1
    BY <1>1, Powers
  <2> QED BY <1>1, <2>1 DEF Top
<1>5. ASSUME NEW c \in 0 .. Bits PROVE Top(d, c) \in Byte
  <2>1. Bits - c \in Nat
    BY <1>1
  <2>2. d \div Pow2[Bits - c] \in Nat /\ d \div Pow2[Bits - c] <= d
    BY <1>1, <1>2, <2>1, Division
  <2> DEFINE t == d \div Pow2[Bits - c]
  <2> HIDE DEF t
  <2>3. t \in Byte
    BY <1>1, <2>2, ByteFacts DEF Byte, t
  <2> QED BY <2>3 DEF Top, t
<1>6. ASSUME NEW k \in 1 .. Bits
      PROVE  Bit(d, k) \in {0, 1} /\ Top(d, k) = 2 * Top(d, k - 1) + Bit(d, k)
  <2> DEFINE p == Pow2[Bits - k]
  <2>1. Bits - k \in Nat /\ Bits - (k - 1) = (Bits - k) + 1
    BY <1>1
  <2>2. p \in Nat \ {0} /\ Pow2[Bits - (k - 1)] = 2 * p
    BY <1>2, <2>1, Powers
  <2>3. (d \div p) % 2 \in {0, 1} /\ d \div p = 2 * (d \div (2 * p)) + ((d \div p) % 2)
    BY <1>1, <2>2, Halving
  <2>4. Top(d, k) = d \div p /\ Top(d, k - 1) = d \div (2 * p) /\ Bit(d, k) = (d \div p) % 2
    BY <2>2 DEF Top, Bit
  <2> QED BY <2>3, <2>4
<1> QED BY <1>3, <1>4, <1>5, <1>6

-----------------------------------------------------------------------------
(* What a routine does at each place.                                      *)

USE DEF Call, Send

Ops == {"out", "in", "sda", "scl", "sample", "poll"} \X {0, 1}

LEMMA OpTypes ==
  /\ Out \in Ops /\ In \in Ops /\ Sample \in Ops /\ Poll \in Ops
  /\ \A v \in {0, 1} : SDA(v) \in Ops /\ SCL(v) \in Ops
  BY DEF Ops, Out, In, Sample, Poll, SDA, SCL

LEMMA Joined ==
  ASSUME NEW s \in Seq(Ops), NEW t \in Seq(Ops)
  PROVE  /\ s \o t \in Seq(Ops) /\ Len(s \o t) = Len(s) + Len(t)
         /\ \A k \in 1 .. Len(s) : (s \o t)[k] = s[k]
         /\ \A k \in Len(s) + 1 .. Len(s) + Len(t) : (s \o t)[k] = t[k - Len(s)]
  OBVIOUS

LEMMA LoopCode ==
  ASSUME NEW body, \A k \in 1 .. Bits : \E a, b, c \in Ops : body[k] = <<a, b, c>>
  PROVE  /\ ForEachBit(body) \in Seq(Ops) /\ Len(ForEachBit(body)) = 3 * Bits
         /\ \A n \in 1 .. 3 * Bits :
              ForEachBit(body)[n] = body[(n + 2) \div 3][1 + ((n + 2) % 3)]
<1> DEFINE f == ForEachBit(body)
           g(n) == body[(n + 2) \div 3][1 + ((n + 2) % 3)]
<1>1. ASSUME NEW n \in 1 .. 3 * Bits PROVE g(n) \in Ops
  <2>1. (n + 2) \div 3 \in 1 .. Bits /\ 1 + ((n + 2) % 3) \in 1 .. 3
    OBVIOUS
  <2>2. PICK a, b, c \in Ops : body[(n + 2) \div 3] = <<a, b, c>>
    BY <2>1
  <2>3. \A j \in 1 .. 3 : <<a, b, c>>[j] \in Ops
    OBVIOUS
  <2> QED BY <2>1, <2>2, <2>3
<1>2. f = [n \in 1 .. 3 * Bits |-> g(n)] /\ 3 * Bits \in Nat
  BY DEF ForEachBit
<1> HIDE DEF f, g
<1>3. f \in [1 .. 3 * Bits -> Ops]
  BY <1>1, <1>2
<1>4. f \in Seq(Ops) /\ Len(f) = 3 * Bits
  BY <1>2, <1>3
<1> QED BY <1>2, <1>4 DEF f, g

LEMMA SendCode ==
  ASSUME NEW d \in Byte
  PROVE  LET code == Code(Send(d)) IN
         /\ Len(code) = 3 * Bits + 2 /\ code[1] = Out /\ code[2] = SCL(0)
         /\ \A n \in 3 .. 3 * Bits + 2 :
              /\ n % 3 = 0 => code[n] = SDA(Bit(d, n \div 3))
              /\ n % 3 = 1 => code[n] = SCL(1)
              /\ n % 3 = 2 => code[n] = SCL(0)
<1> DEFINE body == [k \in 1 .. Bits |-> <<SDA(Bit(d, k)), SCL(1), SCL(0)>>]
           loop == ForEachBit(body)
           head == <<Out, SCL(0)>>
<1>1. Code(Send(d)) = head \o loop
  BY DEF Code, IIC_SendData
<1>2. \A k \in 1 .. Bits : \E a, b, c \in Ops : body[k] = <<a, b, c>>
  BY TopBits, OpTypes
<1>3. \A k \in 1 .. Bits : body[k] = <<SDA(Bit(d, k)), SCL(1), SCL(0)>>
  OBVIOUS
<1> HIDE DEF body
<1>4. /\ loop \in Seq(Ops) /\ Len(loop) = 3 * Bits
      /\ \A n \in 1 .. 3 * Bits : loop[n] = body[(n + 2) \div 3][1 + ((n + 2) % 3)]
  BY <1>2, LoopCode
<1> HIDE DEF loop
<1>5. head \in Seq(Ops) /\ Len(head) = 2 /\ head[1] = Out /\ head[2] = SCL(0)
  BY OpTypes
<1> HIDE DEF head
<1>6. /\ Len(head \o loop) = 3 * Bits + 2
      /\ (head \o loop)[1] = Out /\ (head \o loop)[2] = SCL(0)
      /\ \A n \in 3 .. 3 * Bits + 2 : (head \o loop)[n] = loop[n - 2]
  <2>1. 3 * Bits \in Nat
    OBVIOUS
  <2>2. /\ Len(head \o loop) = 2 + 3 * Bits
        /\ \A n \in 1 .. 2 : (head \o loop)[n] = head[n]
        /\ \A n \in 2 + 1 .. 2 + 3 * Bits : (head \o loop)[n] = loop[n - 2]
    <3>1. head \in Seq(Ops) /\ loop \in Seq(Ops)
      BY <1>4, <1>5
    <3> DEFINE joined == head \o loop
    <3>2. /\ joined \in Seq(Ops) /\ Len(joined) = Len(head) + Len(loop)
          /\ \A k \in 1 .. Len(head) : joined[k] = head[k]
          /\ \A k \in Len(head) + 1 .. Len(head) + Len(loop) : joined[k] = loop[k - Len(head)]
      BY <3>1, Joined
    <3> HIDE DEF joined
    <3> QED BY <1>4, <1>5, <2>1, <3>2 DEF joined
  <2> QED BY <1>5, <2>1, <2>2
<1>7. ASSUME NEW n \in 3 .. 3 * Bits + 2
      PROVE  loop[n - 2] = <<SDA(Bit(d, n \div 3)), SCL(1), SCL(0)>>[1 + (n % 3)]
  <2>1. n - 2 \in 1 .. 3 * Bits /\ (n - 2) + 2 = n /\ n \div 3 \in 1 .. Bits
    OBVIOUS
  <2>2. loop[n - 2] = body[n \div 3][1 + (n % 3)]
    BY <1>4, <2>1
  <2> QED BY <1>3, <2>1, <2>2
<1>8. ASSUME NEW n \in 3 .. 3 * Bits + 2
      PROVE  /\ n % 3 = 0 => loop[n - 2] = SDA(Bit(d, n \div 3))
             /\ n % 3 = 1 => loop[n - 2] = SCL(1)
             /\ n % 3 = 2 => loop[n - 2] = SCL(0)
  <2> DEFINE t == <<SDA(Bit(d, n \div 3)), SCL(1), SCL(0)>>
  <2>1. t[1] = SDA(Bit(d, n \div 3)) /\ t[2] = SCL(1) /\ t[3] = SCL(0)
    OBVIOUS
  <2>2. loop[n - 2] = t[1 + (n % 3)]
    BY <1>7
  <2> HIDE DEF t
  <2> QED BY <2>1, <2>2
<1> DEFINE code == head \o loop
<1> HIDE DEF code
<1>9. ASSUME NEW n \in 3 .. 3 * Bits + 2
      PROVE  /\ n % 3 = 0 => code[n] = SDA(Bit(d, n \div 3))
             /\ n % 3 = 1 => code[n] = SCL(1)
             /\ n % 3 = 2 => code[n] = SCL(0)
  BY <1>6, <1>8 DEF code
<1> QED BY <1>1, <1>6, <1>9 DEF code

LEMMA ReceiveCode ==
  LET code == Code(Call("IIC_ReceiveData")) IN
  /\ Len(code) = 3 * Bits + 6 /\ code[1] = In
  /\ \A n \in 2 .. 3 * Bits + 1 :
       /\ n % 3 = 2 => code[n] = SCL(0)
       /\ n % 3 = 0 => code[n] = SCL(1)
       /\ n % 3 = 1 => code[n] = Sample
  /\ code[3 * Bits + 2] = SCL(0) /\ code[3 * Bits + 3] = Out /\ code[3 * Bits + 4] = SDA(1)
  /\ code[3 * Bits + 5] = SCL(1) /\ code[3 * Bits + 6] = SCL(0)
<1> DEFINE body == [k \in 1 .. Bits |-> <<SCL(0), SCL(1), Sample>>]
           loop == ForEachBit(body)
           head == <<In>>
           tail == IIC_NotAck
<1>1. Code(Call("IIC_ReceiveData")) = (head \o loop) \o tail
  BY DEF Code, IIC_ReceiveData
<1>2. \A k \in 1 .. Bits : \E a, b, c \in Ops : body[k] = <<a, b, c>>
  BY OpTypes
<1>3. \A k \in 1 .. Bits : body[k] = <<SCL(0), SCL(1), Sample>>
  OBVIOUS
<1> HIDE DEF body
<1>4. /\ loop \in Seq(Ops) /\ Len(loop) = 3 * Bits
      /\ \A n \in 1 .. 3 * Bits : loop[n] = body[(n + 2) \div 3][1 + ((n + 2) % 3)]
  BY <1>2, LoopCode
<1> HIDE DEF loop
<1>5. head \in Seq(Ops) /\ Len(head) = 1 /\ head[1] = In
  BY OpTypes
<1>6. tail \in Seq(Ops) /\ Len(tail) = 5 /\ tail[1] = SCL(0) /\ tail[2] = Out
      /\ tail[3] = SDA(1) /\ tail[4] = SCL(1) /\ tail[5] = SCL(0)
  BY OpTypes DEF IIC_NotAck
<1> HIDE DEF head, tail
<1> DEFINE front == head \o loop
           code == front \o tail
<1>7. /\ front \in Seq(Ops) /\ Len(front) = 3 * Bits + 1 /\ front[1] = In
      /\ \A n \in 2 .. 3 * Bits + 1 : front[n] = loop[n - 1]
  <2>1. 3 * Bits \in Nat
    OBVIOUS
  <2>2. /\ front \in Seq(Ops) /\ Len(front) = 1 + 3 * Bits
        /\ \A n \in 1 .. 1 : front[n] = head[n]
        /\ \A n \in 1 + 1 .. 1 + 3 * Bits : front[n] = loop[n - 1]
    <3>1. head \in Seq(Ops) /\ loop \in Seq(Ops)
      BY <1>4, <1>5
    <3> DEFINE joined == head \o loop
    <3>2. /\ joined \in Seq(Ops) /\ Len(joined) = Len(head) + Len(loop)
          /\ \A k \in 1 .. Len(head) : joined[k] = head[k]
          /\ \A k \in Len(head) + 1 .. Len(head) + Len(loop) : joined[k] = loop[k - Len(head)]
      BY <3>1, Joined
    <3> HIDE DEF joined
    <3> QED BY <1>4, <1>5, <2>1, <3>2 DEF joined, front
  <2> HIDE DEF front
  <2> QED BY <1>5, <2>1, <2>2
<1> HIDE DEF front
<1>8. /\ Len(code) = 3 * Bits + 6
      /\ \A n \in 1 .. 3 * Bits + 1 : code[n] = front[n]
      /\ \A n \in 3 * Bits + 2 .. 3 * Bits + 6 : code[n] = tail[n - (3 * Bits + 1)]
  <2>1. 3 * Bits + 1 \in Nat
    OBVIOUS
  <2>2. /\ Len(code) = (3 * Bits + 1) + 5
        /\ \A n \in 1 .. 3 * Bits + 1 : code[n] = front[n]
        /\ \A n \in (3 * Bits + 1) + 1 .. (3 * Bits + 1) + 5 :
             code[n] = tail[n - (3 * Bits + 1)]
    <3>1. front \in Seq(Ops) /\ tail \in Seq(Ops)
      BY <1>6, <1>7
    <3>2. /\ Len(code) = Len(front) + Len(tail)
          /\ \A k \in 1 .. Len(front) : code[k] = front[k]
          /\ \A k \in Len(front) + 1 .. Len(front) + Len(tail) : code[k] = tail[k - Len(front)]
      BY <3>1, Joined
    <3> HIDE DEF code
    <3> QED BY <1>6, <1>7, <2>1, <3>2
  <2> HIDE DEF code
  <2> QED BY <2>1, <2>2
<1> HIDE DEF code
<1>9. ASSUME NEW n \in 2 .. 3 * Bits + 1
      PROVE  /\ n % 3 = 2 => loop[n - 1] = SCL(0)
             /\ n % 3 = 0 => loop[n - 1] = SCL(1)
             /\ n % 3 = 1 => loop[n - 1] = Sample
  <2>1. n - 1 \in 1 .. 3 * Bits /\ (n - 1) + 2 = n + 1 /\ (n + 1) \div 3 \in 1 .. Bits
    OBVIOUS
  <2>2. loop[n - 1] = <<SCL(0), SCL(1), Sample>>[1 + ((n + 1) % 3)]
    BY <1>3, <1>4, <2>1
  <2> QED BY <2>2
<1>10. 3 * Bits + 1 \in Nat /\ Bits \in Nat \ {0}
  OBVIOUS
<1>11. code[1] = In /\ \A n \in 2 .. 3 * Bits + 1 : code[n] = loop[n - 1]
  BY <1>7, <1>8, <1>10
<1>12. /\ code[3 * Bits + 2] = tail[1] /\ code[3 * Bits + 3] = tail[2]
       /\ code[3 * Bits + 4] = tail[3] /\ code[3 * Bits + 5] = tail[4]
       /\ code[3 * Bits + 6] = tail[5]
  BY <1>8, <1>10
<1> QED BY <1>1, <1>6, <1>8, <1>9, <1>11, <1>12 DEF code, front

LEMMA ShortCodes ==
  /\ Code(Call("IIC_Start")) = <<Out, SDA(1), SCL(1), SDA(0), SCL(0)>>
  /\ Code(Stop) = <<Out, SCL(0), SDA(0), SCL(1), SDA(1)>>
  /\ Code(WaitAck) = <<In, SDA(1), SCL(1), Poll, SCL(0)>>
  BY DEF Code, IIC_Start, IIC_Stop, IIC_WaitAck, Stop, WaitAck

-----------------------------------------------------------------------------
(* What a pin operation does.                                              *)

\* Meanwhile the driver's own state stands still.
Calm == UNCHANGED <<call, stage, addr, buf, i, late, resets>>

LEMMA AtOut == ASSUME PinOperation, Op = Out
               PROVE  Done /\ out' = TRUE /\ UNCHANGED <<scl, odr, acked, ret, slave>>
  BY DEF PinOperation, Direction, SetSda, SetScl, Read, AckSeen, AckTimeout, Doing, Out

LEMMA AtIn == ASSUME PinOperation, Op = In
              PROVE  Done /\ out' = FALSE /\ UNCHANGED <<scl, odr, acked, ret, slave>>
  BY DEF PinOperation, Direction, SetSda, SetScl, Read, AckSeen, AckTimeout, Doing, In

LEMMA AtSda ==
  ASSUME PinOperation, NEW v \in {0, 1}, Op = SDA(v)
  PROVE  /\ Done /\ odr' = v /\ UNCHANGED <<scl, out, acked, ret>>
         /\ scl = 0 \/ low \/ odr = v => UNCHANGED slave
         /\ scl = 1 /\ ~low /\ odr = 1 /\ v = 0 => ChipStart
         /\ scl = 1 /\ ~low /\ odr = 0 /\ v = 1 => ChipStop
<1>1. SetSda /\ Op[2] = v
  BY DEF PinOperation, Direction, SetSda, SetScl, Read, AckSeen, AckTimeout, Doing, SDA
<1> QED BY <1>1 DEF SetSda

LEMMA AtScl ==
  ASSUME PinOperation, NEW v \in {0, 1}, Op = SCL(v)
  PROVE  /\ Done /\ scl' = v /\ UNCHANGED <<out, odr, acked, ret>>
         /\ scl = v => UNCHANGED slave
         /\ scl = 0 /\ v = 1 => ChipRise
         /\ scl = 1 /\ v = 0 => ChipFall
<1>1. SetScl /\ Op[2] = v
  BY DEF PinOperation, Direction, SetSda, SetScl, Read, AckSeen, AckTimeout, Doing, SCL
<1> QED BY <1>1 DEF SetScl

LEMMA AtSample ==
  ASSUME PinOperation, Op = Sample
  PROVE  Done /\ ret' = (2 * ret + Sda) % Pow2[Bits] /\ UNCHANGED <<scl, out, odr, acked, slave>>
  BY DEF PinOperation, Direction, SetSda, SetScl, Read, AckSeen, AckTimeout, Doing, Sample

LEMMA AtPoll ==
  ASSUME PinOperation, Op = Poll
  PROVE  /\ UNCHANGED <<scl, out, odr, ret, slave>>
         /\ Sda = 0 => acked' = TRUE /\ Done
         /\ Sda # 0 => acked' = FALSE /\ todo' = [todo EXCEPT ![1] = Stop] /\ at' = 1
  BY DEF PinOperation, Direction, SetSda, SetScl, Read, AckSeen, AckTimeout, Doing, Poll, Stop

-----------------------------------------------------------------------------
(* What the chip makes of an edge.                                         *)

Stages == {"dev", "word", "data"}

LEMMA LineTypes == ASSUME BusTypeOK
                   PROVE  scl \in {0, 1} /\ odr \in {0, 1} /\ Sda \in {0, 1}
  BY DEF BusTypeOK, Sda

LEMMA OffSleeps ==
  ASSUME chip.mode = "off", ChipRise \/ ChipFall
  PROVE  UNCHANGED slave
  BY DEF ChipRise, ChipFall, Receiving, slave

LEMMA OffStays ==
  ASSUME Off, UNCHANGED slave
  PROVE  Off'
  BY DEF Off, slave

LEMMA LostStays ==
  ASSUME Lost, UNCHANGED slave, Calm
  PROVE  Lost'
  BY DEF Lost, Off, Calm, Undisturbed, slave

LEMMA TakingStays ==
  ASSUME NEW m, NEW d, NEW c, Taking(m, d, c), UNCHANGED slave, Calm
  PROVE  Taking(m, d, c)'
  BY DEF Taking, Pointed, Points, Calm, Undisturbed, slave

LEMMA AckingStays ==
  ASSUME NEW m, NEW d, Acking(m, d), UNCHANGED slave, Calm
  PROVE  Acking(m, d)'
  BY DEF Acking, Pointed, Points, Calm, Undisturbed, slave

LEMMA HoldingStays ==
  ASSUME Holding, UNCHANGED slave, Calm
  PROVE  Holding'
  BY DEF Holding, Points, Calm, Undisturbed, slave

LEMMA FeedingStays ==
  ASSUME NEW k, Feeding(k), UNCHANGED slave, Calm
  PROVE  Feeding(k)'
  BY DEF Feeding, Calm, Undisturbed, slave

LEMMA RiseTakes ==
  ASSUME BusTypeOK, NEW m \in Stages, NEW d \in Byte, NEW k \in 1 .. Bits,
         Taking(m, d, k - 1), Sda = Bit(d, k), ChipRise, Calm
  PROVE  Taking(m, d, k)' /\ UNCHANGED <<cells, busy>>
<1>1. chip' = [chip EXCEPT !.shift = 2 * @ + Sda, !.count = @ + 1]
      /\ UNCHANGED <<low, cells, busy>>
  BY DEF Taking, ChipRise, Receiving, Stages
<1>2. /\ chip'.shift = 2 * Top(d, k - 1) + Bit(d, k) /\ chip'.count = (k - 1) + 1
      /\ chip'.mode = chip.mode /\ chip'.ninth = chip.ninth /\ chip'.latch = chip.latch
      /\ chip'.pointer = chip.pointer
  BY <1>1 DEF BusTypeOK, Taking
<1>3. chip'.shift = Top(d, k) /\ chip'.count = k
  BY <1>2, TopBits
<1> QED BY <1>1, <1>2, <1>3 DEF Taking, Pointed, Points, Calm, Undisturbed

LEMMA FallKeeps ==
  ASSUME NEW m \in Stages, NEW d, NEW k, Taking(m, d, k), k # Bits, ChipFall
  PROVE  UNCHANGED slave
  BY DEF Taking, ChipFall, Receiving, Stages, slave

LEMMA FallTakes ==
  ASSUME BusTypeOK, NEW m \in Stages, NEW d \in Byte, m = "dev" => d \in {DevWrite, DevRead},
         Taking(m, d, Bits), ChipFall, Calm
  PROVE  Acking(m, d)' /\ UNCHANGED <<cells, busy>>
<1>1. chip.shift = d
  BY TopBits DEF Taking
<1>2. TakeByte /\ UNCHANGED <<cells, busy>>
  BY DEF ChipFall, Taking, Receiving, Stages
<1>3. /\ chip' = [chip EXCEPT !.ninth = TRUE,
                   !.pointer = IF chip.mode = "word" THEN chip.shift % ChipCells ELSE @,
                   !.latch = IF chip.mode = "data" THEN chip.shift ELSE @]
      /\ low' = TRUE
  BY <1>1, <1>2 DEF TakeByte, Taking
<1>4. /\ chip'.mode = m /\ chip'.ninth /\ chip'.shift = d
      /\ chip'.pointer = IF m = "word" THEN d % ChipCells ELSE chip.pointer
      /\ chip'.latch = IF m = "data" THEN d ELSE -1
  BY <1>1, <1>3 DEF BusTypeOK, Taking
<1>5. Pointed(m)'
  BY <1>4 DEF Taking, Pointed, Points, Calm, Undisturbed
<1> QED BY <1>2, <1>3, <1>4, <1>5 DEF Acking

LEMMA EndOfAck ==
  ASSUME BusTypeOK, NEW m \in Stages, NEW d, Acking(m, d), ChipFall
  PROVE  /\ UNCHANGED <<cells, busy>>
         /\ ~(m = "dev" /\ d = DevRead) =>
              /\ ~chip'.ninth /\ ~low' /\ chip'.shift = 0 /\ chip'.count = 0
              /\ chip'.mode = (IF m = "dev" THEN "word" ELSE "data")
              /\ chip'.pointer = chip.pointer /\ chip'.latch = chip.latch
         /\ m = "dev" /\ d = DevRead =>
              /\ chip'.mode = "read" /\ ~chip'.ninth /\ chip'.count = 1
              /\ chip'.shift = cells[chip.pointer]
              /\ low' = (Bit(cells[chip.pointer], 1) = 0)
<1>1. EndAck /\ UNCHANGED <<cells, busy>>
  BY DEF ChipFall, Acking, Receiving, Stages
<1>2. ASSUME ~(m = "dev" /\ d = DevRead)
      PROVE  /\ ~chip'.ninth /\ ~low' /\ chip'.shift = 0 /\ chip'.count = 0
             /\ chip'.mode = (IF m = "dev" THEN "word" ELSE "data")
             /\ chip'.pointer = chip.pointer /\ chip'.latch = chip.latch
  <2>1. /\ chip' = [chip EXCEPT !.ninth = FALSE, !.shift = 0, !.count = 0,
                               !.mode = IF @ = "dev" THEN "word" ELSE "data"]
        /\ low' = FALSE
    BY <1>1, <1>2 DEF EndAck, Acking
  <2> QED BY <2>1 DEF BusTypeOK, Acking
<1>3. ASSUME m = "dev", d = DevRead
      PROVE  /\ chip'.mode = "read" /\ ~chip'.ninth /\ chip'.count = 1
             /\ chip'.shift = cells[chip.pointer]
             /\ low' = (Bit(cells[chip.pointer], 1) = 0)
  <2>1. Sends(cells[chip.pointer], 1, chip)
    BY <1>1, <1>3 DEF EndAck, Acking
  <2> QED BY <2>1 DEF Sends, BusTypeOK
<1> QED BY <1>1, <1>2, <1>3

LEMMA DeviceAcked ==
  ASSUME BusTypeOK, Acking("dev", DevWrite), ChipFall
  PROVE  Taking("word", 0, 0)' /\ UNCHANGED <<cells, busy>>
<1>1. /\ ~chip'.ninth /\ ~low' /\ chip'.shift = 0 /\ chip'.count = 0 /\ chip'.mode = "word"
      /\ chip'.latch = chip.latch /\ UNCHANGED <<cells, busy>>
  BY EndOfAck, ByteFacts DEF Stages
<1>2. Top(0, 0) = 0
  BY TopBits, ByteFacts
<1> QED BY <1>1, <1>2 DEF Taking, Acking, Pointed

LEMMA WordAcked ==
  ASSUME BusTypeOK, Acking("word", addr), ChipFall, Calm
  PROVE  Taking("data", 0, 0)' /\ UNCHANGED <<cells, busy>>
<1>1. /\ ~chip'.ninth /\ ~low' /\ chip'.shift = 0 /\ chip'.count = 0 /\ chip'.mode = "data"
      /\ chip'.latch = chip.latch /\ UNCHANGED <<cells, busy>>
      /\ chip'.pointer = chip.pointer
  BY EndOfAck DEF Stages
<1>2. Top(0, 0) = 0
  BY TopBits, ByteFacts
<1> QED BY <1>1, <1>2 DEF Taking, Acking, Pointed, Points, Calm

LEMMA DataAcked ==
  ASSUME BusTypeOK, Acking("data", buf[i + 1]), ChipFall, Calm
  PROVE  Holding' /\ chip'.count = 0 /\ UNCHANGED <<cells, busy>>
<1>1. /\ ~chip'.ninth /\ ~low' /\ chip'.shift = 0 /\ chip'.count = 0 /\ chip'.mode = "data"
      /\ chip'.latch = chip.latch /\ UNCHANGED <<cells, busy>>
      /\ chip'.pointer = chip.pointer
  BY EndOfAck DEF Stages
<1> QED BY <1>1 DEF Holding, Acking, Pointed, Points, Calm

LEMMA ReadAcked ==
  ASSUME BusTypeOK, Acking("dev", DevRead), ChipFall, Calm, stage = "transfer",
         ret = 0, ret' = ret
  PROVE  Feeding(1)' /\ Got(0)' /\ UNCHANGED <<cells, busy>>
<1>1. /\ chip'.mode = "read" /\ ~chip'.ninth /\ chip'.count = 1
      /\ chip'.shift = cells[chip.pointer] /\ low' = (Bit(cells[chip.pointer], 1) = 0)
      /\ UNCHANGED <<cells, busy>>
  BY EndOfAck DEF Stages
<1>2. cells[chip.pointer] \in Byte
  BY DEF BusTypeOK
<1>3. Top(cells[chip.pointer], 0) = 0
  BY <1>2, TopBits
<1> QED BY <1>1, <1>3 DEF Feeding, Got, Acking, Pointed, Points, Calm, Undisturbed

\* The chip sees a START, unless a write cycle is on.
LEMMA StartTaken ==
  ASSUME BusTypeOK, Cycle, todo # << >>, ChipStart, Calm,
         Lost \/ (Off /\ stage # "transfer") \/ (chip.mode = "data" /\ Points)
  PROVE  (Lost \/ Taking("dev", 0, 0))' /\ UNCHANGED <<cells, busy>>
<1>1. low' = FALSE /\ UNCHANGED <<cells, busy>>
  BY DEF ChipStart
<1>2. CASE busy
  <2>1. Off' /\ ~Undisturbed
    BY <1>1, <1>2 DEF ChipStart, Cycle, Off
  <2> QED BY <1>1, <2>1 DEF Lost, Calm, Undisturbed
<1>3. CASE ~busy
  <2>1. chip' = [chip EXCEPT !.mode = "dev", !.shift = 0, !.count = 0,
                             !.ninth = FALSE, !.latch = -1]
    BY <1>3 DEF ChipStart
  <2>2. /\ chip'.mode = "dev" /\ chip'.shift = 0 /\ chip'.count = 0 /\ ~chip'.ninth
        /\ chip'.latch = -1 /\ chip'.pointer = chip.pointer
    BY <2>1 DEF BusTypeOK
  <2>3. Pointed("dev")'
    BY <2>2 DEF Pointed, Points, Lost, Calm, Undisturbed
  <2>4. Top(0, 0) = 0
    BY TopBits, ByteFacts
  <2> QED BY <1>1, <2>2, <2>3, <2>4 DEF Taking
<1> QED BY <1>2, <1>3

LEMMA StopTaken ==
  ASSUME BusTypeOK, ChipStop
  PROVE  /\ Off' /\ low' = FALSE
         /\ IF chip.mode = "data" /\ chip.latch # -1
            THEN cells' = [cells EXCEPT ![chip.pointer] = chip.latch] /\ busy' = TRUE
            ELSE UNCHANGED <<cells, busy>>
  BY DEF ChipStop, BusTypeOK, Off

LEMMA FallFeeds ==
  ASSUME BusTypeOK, NEW k \in 1 .. Bits, Feeding(k), ChipFall, Calm
  PROVE  /\ k < Bits => Feeding(k + 1)' /\ chip'.shift = chip.shift
         /\ k = Bits => chip'.mode = "read" /\ chip'.ninth /\ ~low'
         /\ UNCHANGED <<cells, busy>>
<1>1. SendNext /\ UNCHANGED <<cells, busy>> /\ chip.count = k
  BY DEF ChipFall, Feeding, Receiving
<1>2. CASE k = Bits
  BY <1>1, <1>2 DEF SendNext, Feeding, BusTypeOK
<1>3. CASE k < Bits
  <2>1. Sends(chip.shift, k + 1, chip)
    BY <1>1, <1>3 DEF SendNext
  <2>2. /\ chip'.mode = "read" /\ ~chip'.ninth /\ chip'.shift = chip.shift
        /\ chip'.count = k + 1 /\ low' = (Bit(chip.shift, k + 1) = 0)
    BY <2>1 DEF Sends, BusTypeOK
  <2> QED BY <1>1, <1>3, <2>2 DEF Feeding, Calm, Undisturbed
<1> QED BY <1>1, <1>2, <1>3

LEMMA RiseFeeds ==
  ASSUME NEW k, Feeding(k), ChipRise
  PROVE  UNCHANGED slave
  BY DEF Feeding, ChipRise, Receiving, slave

LEMMA RiseDeclined ==
  ASSUME BusTypeOK, chip.mode = "read", chip.ninth, ~low, odr = 1, ChipRise
  PROVE  Off' /\ UNCHANGED <<cells, busy>>
<1>1. chip' = [chip EXCEPT !.mode = "off"] /\ UNCHANGED <<low, cells, busy>>
  BY DEF ChipRise, Receiving, Sda
<1> QED BY <1>1 DEF Off, BusTypeOK

LEMMA SampleTakes ==
  ASSUME BusTypeOK, NEW k \in 1 .. Bits, Feeding(k), Got(k - 1), odr = 1,
         ret' = (2 * ret + Sda) % Pow2[Bits], UNCHANGED slave
  PROVE  Got(k)'
<1>1. chip.shift \in Byte
  BY DEF BusTypeOK
<1>2. /\ Bit(chip.shift, k) \in {0, 1} /\ Top(chip.shift, k) \in Byte
      /\ Top(chip.shift, k) = 2 * Top(chip.shift, k - 1) + Bit(chip.shift, k)
  BY <1>1, TopBits
<1>3. Sda = Bit(chip.shift, k)
  BY <1>2 DEF Sda, Feeding
<1>4. 2 * ret + Sda = Top(chip.shift, k)
  BY <1>2, <1>3 DEF Got
<1>5. Top(chip.shift, k) % Pow2[Bits] = Top(chip.shift, k)
  <2> DEFINE t == Top(chip.shift, k)
             p == Pow2[Bits]
  <2>1. p \in Nat \ {0} /\ t \in 0 .. p - 1
    BY <1>2, ByteFacts DEF Byte
  <2> HIDE DEF t, p
  <2>2. t = p * 0 + t /\ t \in Nat
    BY <2>1
  <2>3. t % p = t
    BY <2>1, <2>2, Quotient
  <2> QED BY <2>3 DEF t, p
<1> QED BY <1>4, <1>5 DEF Got, slave

-----------------------------------------------------------------------------
(* The routines, one operation further.                                    *)

\* From the place at of a routine of n operations to the next.
Onward(n) ==
  /\ at < n => at' = at + 1 /\ todo' = todo
  /\ at = n => at' = 1 /\ todo' = Tail(todo)

LEMMA DoneOnward ==
  ASSUME NEW n \in Nat, Len(Code(Head(todo))) = n, at \in 1 .. n, Done
  PROVE  Onward(n)
  BY DEF Done, Onward

LEMMA SendingStep ==
  ASSUME BusTypeOK, NEW m \in Stages, NEW d \in Byte, m = "dev" => d \in {DevWrite, DevRead},
         Head(todo) = Send(d), Sending(m, d), PinOperation, Calm
  PROVE  /\ UNCHANGED <<cells, busy, ret, acked>>
         /\ \/ todo' = todo /\ Sending(m, d)'
            \/ todo' = Tail(todo) /\ at' = 1 /\ Waiting(m, d)'
<1> DEFINE n == 3 * Bits + 2
<1>0. PICK k \in Nat : k = at \div 3
  BY DEF Sending
<1>1. /\ Len(Code(Head(todo))) = n /\ n \in Nat /\ at \in 1 .. n
      /\ at = 1 => Op = Out
      /\ at = 2 => Op = SCL(0)
      /\ at > 2 /\ at % 3 = 0 => Op = SDA(Bit(d, k))
      /\ at > 2 /\ at % 3 = 1 => Op = SCL(1)
      /\ at > 2 /\ at % 3 = 2 => Op = SCL(0)
  <2> DEFINE code == Code(Send(d))
  <2>1. /\ Len(code) = n /\ code[1] = Out /\ code[2] = SCL(0)
        /\ \A j \in 3 .. n :
              /\ j % 3 = 0 => code[j] = SDA(Bit(d, j \div 3))
              /\ j % 3 = 1 => code[j] = SCL(1)
              /\ j % 3 = 2 => code[j] = SCL(0)
    BY SendCode
  <2>2. Op = code[at] /\ Code(Head(todo)) = code
    BY DEF Op
  <2> HIDE DEF code
  <2>3. at \in 1 .. n /\ n \in Nat
    BY DEF Sending
  <2> QED BY <1>0, <2>1, <2>2, <2>3
<1>2. CASE at = 1
  <2>1. Onward(n) /\ UNCHANGED <<scl, odr, acked, ret, slave>>
    BY <1>1, <1>2, AtOut, DoneOnward
  <2>2. at' = 2 /\ todo' = todo
    BY <1>2, <2>1 DEF Onward
  <2>3. (Lost \/ Taking(m, d, 0)) /\ Between
    BY <1>2 DEF Sending
  <2>4. (Lost \/ Taking(m, d, 0))' /\ Between'
    BY <2>1, <2>3, LostStays, TakingStays DEF Between, Parked, Off, slave
  <2> QED BY <2>1, <2>2, <2>4 DEF Sending, slave
<1>3. CASE at = 2
  <2>1. /\ Onward(n) /\ scl' = 0 /\ UNCHANGED <<out, odr, acked, ret>>
        /\ scl = 0 => UNCHANGED slave
        /\ scl = 1 => ChipFall
    BY <1>1, <1>3, AtScl, DoneOnward
  <2>2. at' = 3 /\ todo' = todo
    BY <1>3, <2>1 DEF Onward
  <2>3. (Lost \/ Taking(m, d, 0)) /\ Between
    BY <1>3 DEF Sending
  <2>4. UNCHANGED slave
    BY <2>1, <2>3, LineTypes, OffSleeps DEF Between, Parked, Off
  <2>5. (Lost \/ Taking(m, d, 0))'
    BY <2>3, <2>4, LostStays, TakingStays
  <2> QED BY <2>1, <2>2, <2>4, <2>5 DEF Sending, slave
<1>4. CASE at > 2 /\ at % 3 = 0
  <2>1. k \in 1 .. Bits /\ (at + 1) \div 3 = k /\ (at + 1) % 3 = 1 /\ at < n
    BY <1>0, <1>1, <1>4
  <2>2. Bit(d, k) \in {0, 1} /\ scl = 0 /\ (Lost \/ Taking(m, d, k - 1))
    BY <1>4, <2>1, <1>0, TopBits DEF Sending
  <2>3. /\ Onward(n) /\ odr' = Bit(d, k) /\ UNCHANGED <<scl, out, acked, ret>>
        /\ UNCHANGED slave
    BY <1>1, <1>4, <2>2, AtSda, DoneOnward
  <2>4. at' = at + 1 /\ todo' = todo
    BY <2>1, <2>3 DEF Onward
  <2>5. (Lost \/ Taking(m, d, k - 1))'
    BY <2>2, <2>3, LostStays, TakingStays
  <2> QED BY <1>1, <1>4, <2>1, <2>2, <2>3, <2>4, <2>5 DEF Sending, slave
<1>5. CASE at > 2 /\ at % 3 = 1
  <2>1. k \in 1 .. Bits /\ (at + 1) \div 3 = k /\ (at + 1) % 3 = 2 /\ at < n
    BY <1>0, <1>1, <1>5
  <2>2. scl = 0 /\ odr = Bit(d, k) /\ (Lost \/ Taking(m, d, k - 1))
    BY <1>0, <1>5 DEF Sending
  <2>3. /\ Onward(n) /\ scl' = 1 /\ UNCHANGED <<out, odr, acked, ret>> /\ ChipRise
    BY <1>1, <1>5, <2>2, AtScl, DoneOnward
  <2>4. at' = at + 1 /\ todo' = todo
    BY <2>1, <2>3 DEF Onward
  <2>5. (Lost \/ Taking(m, d, k))' /\ UNCHANGED <<cells, busy>>
    <3>1. CASE Lost
      BY <2>3, <3>1, OffSleeps, LostStays DEF Lost, Off, slave
    <3>2. CASE Taking(m, d, k - 1)
      <4>1. Sda = Bit(d, k)
        BY <2>2, <3>2 DEF Sda, Taking
      <4> QED BY <2>1, <2>3, <3>2, <4>1, RiseTakes
    <3> QED BY <2>2, <3>1, <3>2
  <2> QED BY <1>1, <1>5, <2>1, <2>2, <2>3, <2>4, <2>5 DEF Sending
<1>6. CASE at > 2 /\ at % 3 = 2
  <2>1. /\ k \in 1 .. Bits /\ (at + 1) \div 3 = k + 1 /\ (at + 1) % 3 = 0
        /\ k < Bits <=> at < n
    BY <1>0, <1>1, <1>6
  <2>2. scl = 1 /\ (Lost \/ Taking(m, d, k))
    BY <1>0, <1>6 DEF Sending
  <2>3. /\ Onward(n) /\ scl' = 0 /\ UNCHANGED <<out, odr, acked, ret>> /\ ChipFall
    BY <1>1, <1>6, <2>2, AtScl, DoneOnward
  <2>4. CASE k < Bits
    <3>1. UNCHANGED slave
      BY <2>2, <2>3, <2>4, OffSleeps, FallKeeps DEF Lost, Off
    <3>2. (Lost \/ Taking(m, d, k))'
      BY <2>2, <3>1, LostStays, TakingStays
    <3>3. at' = at + 1 /\ todo' = todo /\ (k + 1) - 1 = k
      BY <2>1, <2>3, <2>4 DEF Onward
    <3> QED BY <1>1, <1>6, <2>1, <2>3, <2>4, <3>1, <3>2, <3>3 DEF Sending, slave
  <2>5. CASE k = Bits
    <3>1. (Lost \/ Acking(m, d))' /\ UNCHANGED <<cells, busy>>
      <4>1. CASE Lost
        BY <2>3, <4>1, OffSleeps, LostStays DEF Lost, Off, slave
      <4>2. CASE Taking(m, d, k)
        BY <2>3, <2>5, <4>2, FallTakes
      <4> QED BY <2>2, <4>1, <4>2
    <3>2. at' = 1 /\ todo' = Tail(todo)
      BY <1>1, <2>1, <2>3, <2>5 DEF Onward
    <3> QED BY <2>3, <3>1, <3>2 DEF Waiting
  <2> QED BY <2>1, <2>4, <2>5
<1>7. at = 1 \/ at = 2 \/ (at > 2 /\ at % 3 \in {0, 1, 2})
  BY <1>1
<1> QED BY <1>2, <1>3, <1>4, <1>5, <1>6, <1>7

LEMMA WaitingStep ==
  ASSUME BusTypeOK, NEW m \in Stages, NEW d,
         Head(todo) = WaitAck, Waiting(m, d), PinOperation, Calm
  PROVE  /\ UNCHANGED <<cells, busy, ret>>
         /\ \/ todo' = todo /\ Waiting(m, d)'
            \/ todo' = [todo EXCEPT ![1] = Stop] /\ ~acked' /\ GivingUp'
            \/ /\ todo' = Tail(todo) /\ at' = 1 /\ acked' /\ scl' = 0 /\ odr' = 1
               /\ Lost' \/ (Acking(m, d) /\ ChipFall)
<1>1. /\ Len(Code(Head(todo))) = 5 /\ at \in 1 .. 5
      /\ at = 1 => Op = In
      /\ at = 2 => Op = SDA(1)
      /\ at = 3 => Op = SCL(1)
      /\ at = 4 => Op = Poll
      /\ at = 5 => Op = SCL(0)
  BY ShortCodes DEF Waiting, Op
<1>2. Lost \/ Acking(m, d)
  BY DEF Waiting
<1>3. ASSUME UNCHANGED slave PROVE (Lost \/ Acking(m, d))'
  BY <1>2, <1>3, LostStays, AckingStays
<1>4. CASE at = 1
  <2>1. Onward(5) /\ out' = FALSE /\ UNCHANGED <<scl, odr, acked, ret, slave>>
    BY <1>1, <1>4, AtIn, DoneOnward
  <2> QED BY <1>3, <1>4, <2>1 DEF Waiting, Onward, slave
<1>5. CASE at = 2
  <2>1. scl = 0
    BY <1>5 DEF Waiting
  <2>2. Op = SDA(1)
    BY <1>1, <1>5
  <2>3. Done /\ odr' = 1 /\ UNCHANGED <<scl, out, acked, ret, slave>>
    BY <2>1, <2>2, AtSda
  <2>4. Onward(5)
    BY <1>1, <2>3, DoneOnward
  <2> QED BY <1>3, <1>5, <2>1, <2>3, <2>4 DEF Waiting, Onward, slave
<1>6. CASE at = 3
  <2>0. scl = 0
    BY <1>6 DEF Waiting
  <2>1. Onward(5) /\ scl' = 1 /\ UNCHANGED <<out, odr, acked, ret>> /\ ChipRise
    BY <1>1, <1>6, <2>0, AtScl, DoneOnward
  <2>2. UNCHANGED slave
    BY <1>2, <2>1, OffSleeps DEF Lost, Off, Acking, ChipRise, Receiving, Stages, slave
  <2> QED BY <1>3, <1>6, <2>1, <2>2 DEF Waiting, Onward, slave
<1>7. CASE at = 4
  <2>1. /\ UNCHANGED <<scl, out, odr, ret, slave>>
        /\ Sda = 0 => acked' = TRUE /\ Done
        /\ Sda # 0 => acked' = FALSE /\ todo' = [todo EXCEPT ![1] = Stop] /\ at' = 1
    BY <1>1, <1>7, AtPoll
  <2>2. CASE Sda = 0
    <3>1. Onward(5)
      BY <1>1, <2>1, <2>2, DoneOnward
    <3> QED BY <1>3, <1>7, <2>1, <2>2, <3>1 DEF Waiting, Onward, slave
  <2>3. CASE Sda # 0
    <3>1. Lost
      BY <1>2, <2>3 DEF Acking, Sda
    <3>2. Lost' /\ scl' = 1 /\ odr' = 1
      BY <1>7, <2>1, <3>1, LostStays DEF Waiting
    <3> QED BY <2>1, <2>3, <3>2 DEF GivingUp, Stopping, Parked, Lost, slave
  <2> QED BY <2>2, <2>3
<1>8. CASE at = 5
  <2>1. Onward(5) /\ scl' = 0 /\ UNCHANGED <<out, odr, acked, ret>> /\ ChipFall
    <3>1. Op = SCL(0) /\ scl = 1
      BY <1>1, <1>8 DEF Waiting
    <3>2. Done /\ scl' = 0 /\ UNCHANGED <<out, odr, acked, ret>> /\ ChipFall
      BY <3>1, AtScl
    <3> QED BY <1>1, <3>2, DoneOnward
  <2>2. Lost => UNCHANGED slave
    BY <2>1, OffSleeps DEF Lost, Off
  <2>3. Lost => Lost'
    BY <2>2, LostStays
  <2>4. UNCHANGED <<cells, busy>>
    BY <1>2, <2>1, <2>2, EndOfAck DEF slave
  <2> QED BY <1>2, <1>8, <2>1, <2>3, <2>4 DEF Waiting, Onward
<1> QED BY <1>1, <1>4, <1>5, <1>6, <1>7, <1>8

LEMMA StartingStep ==
  ASSUME BusTypeOK, Cycle, todo # << >>, NEW first \in BOOLEAN, first <=> stage # "transfer",
         Head(todo) = Call("IIC_Start"), Starting(first), PinOperation, Calm
  PROVE  /\ UNCHANGED <<cells, busy, ret, acked>>
         /\ \/ todo' = todo /\ Starting(first)'
            \/ todo' = Tail(todo) /\ at' = 1 /\ scl' = 0 /\ (Lost \/ Taking("dev", 0, 0))'
<1>1. /\ Len(Code(Head(todo))) = 5 /\ at \in 1 .. 5
      /\ at = 1 => Op = Out
      /\ at = 2 => Op = SDA(1)
      /\ at = 3 => Op = SCL(1)
      /\ at = 4 => Op = SDA(0)
      /\ at = 5 => Op = SCL(0)
  BY ShortCodes DEF Starting, Op
<1>2. CASE at \in {1, 2}
  <2>1. /\ Onward(5) /\ UNCHANGED <<scl, odr, acked, ret, slave>>
    <3>1. odr = 1
      BY <1>2 DEF Starting
    <3> QED BY <1>1, <1>2, <3>1, AtOut, AtSda, DoneOnward
  <2>2. at' = at + 1 /\ todo' = todo /\ at' <= 3
    BY <1>2, <2>1 DEF Onward
  <2>3. first => Off'
    BY <1>2, <2>1, OffStays DEF Starting
  <2>4. ~first => (Between /\ (Lost \/ Taking("data", 0, 0)))'
    BY <1>2, <2>1, LostStays, TakingStays DEF Starting, Between, Parked, Off, slave
  <2> QED BY <1>1, <1>2, <2>1, <2>2, <2>3, <2>4 DEF Starting, slave
<1>3. CASE at = 3
  <2>1. /\ Onward(5) /\ scl' = 1 /\ UNCHANGED <<out, odr, acked, ret>>
        /\ scl = 1 => UNCHANGED slave
        /\ scl = 0 => ChipRise
    BY <1>1, <1>3, AtScl, DoneOnward
  <2>2. at' = 4 /\ todo' = todo /\ odr' = 1
    BY <1>3, <2>1 DEF Onward, Starting
  <2>3. CASE first
    <3>1. Off' /\ UNCHANGED slave
      BY <1>3, <2>1, <2>3, OffStays DEF Starting
    <3> QED BY <2>1, <2>2, <2>3, <3>1 DEF Starting, slave
  <2>4. CASE ~first /\ Lost
    <3>1. UNCHANGED slave
      BY <2>1, <2>4, LineTypes, OffSleeps DEF Lost, Off
    <3>2. Lost'
      BY <2>4, <3>1, LostStays
    <3> QED BY <2>1, <2>2, <2>4, <3>1, <3>2 DEF Starting, slave
  <2>5. CASE ~first /\ ~Lost
    <3>1. Taking("data", 0, 0) /\ scl = 0
      BY <1>3, <2>5, LineTypes DEF Starting, Between, Parked, Lost, Off
    <3>2. chip' = [chip EXCEPT !.shift = 2 * @ + Sda, !.count = @ + 1]
          /\ UNCHANGED <<low, cells, busy>>
      BY <2>1, <3>1 DEF Taking, ChipRise, Receiving
    <3>3. chip'.mode = "data" /\ chip'.pointer = chip.pointer /\ ~low'
      BY <3>1, <3>2 DEF BusTypeOK, Taking
    <3>4. Points'
      BY <3>1, <3>3 DEF Taking, Pointed, Points, Calm
    <3> QED BY <2>1, <2>2, <2>5, <3>2, <3>3, <3>4 DEF Starting
  <2> QED BY <2>3, <2>4, <2>5
<1>4. CASE at = 4
  <2>1. Lost \/ (Off /\ stage # "transfer") \/ (chip.mode = "data" /\ Points)
    BY <1>4 DEF Starting
  <2>2. scl = 1 /\ ~low /\ odr = 1
    BY <1>4 DEF Starting, Off, Lost
  <2>3. Onward(5) /\ odr' = 0 /\ UNCHANGED <<scl, out, acked, ret>> /\ ChipStart
    BY <1>1, <1>4, <2>2, AtSda, DoneOnward
  <2>4. (Lost \/ Taking("dev", 0, 0))' /\ UNCHANGED <<cells, busy>>
    BY <2>1, <2>3, StartTaken
  <2> QED BY <1>4, <2>2, <2>3, <2>4 DEF Starting, Onward
<1>5. CASE at = 5
  <2>1. scl = 1 /\ (Lost \/ Taking("dev", 0, 0))
    BY <1>5 DEF Starting
  <2>2. Onward(5) /\ scl' = 0 /\ UNCHANGED <<out, odr, acked, ret>> /\ ChipFall
    BY <1>1, <1>5, <2>1, AtScl, DoneOnward
  <2>3. UNCHANGED slave
    BY <2>1, <2>2, OffSleeps, FallKeeps DEF Lost, Off, Stages
  <2>4. (Lost \/ Taking("dev", 0, 0))'
    BY <2>1, <2>3, LostStays, TakingStays
  <2> QED BY <1>5, <2>2, <2>3, <2>4 DEF Onward, slave
<1> QED BY <1>1, <1>2, <1>3, <1>4, <1>5

LEMMA StoppingStep ==
  ASSUME BusTypeOK, NEW held \in BOOLEAN, held => buf[i + 1] \in Byte,
         Head(todo) = Stop, Stopping(held), PinOperation, Calm
  PROVE  /\ UNCHANGED <<ret, acked>>
         /\ \/ todo' = todo /\ Stopping(held)' /\ UNCHANGED <<cells, busy>>
            \/ /\ todo' = Tail(todo) /\ at' = 1 /\ Parked'
               /\ \/ UNCHANGED <<cells, busy>> /\ (held => ~Undisturbed)
                  \/ /\ held /\ busy' = TRUE
                     /\ cells' = [cells EXCEPT ![addr % ChipCells] = buf[i + 1]]
<1>1. /\ Len(Code(Head(todo))) = 5 /\ at \in 1 .. 5
      /\ at = 1 => Op = Out
      /\ at = 2 => Op = SCL(0)
      /\ at = 3 => Op = SDA(0)
      /\ at = 4 => Op = SCL(1)
      /\ at = 5 => Op = SDA(1)
  BY ShortCodes DEF Stopping, Op
<1>2. /\ ~held => Off
      /\ held => Lost \/ (Holding /\ (at <= 4 => scl = 0 /\ chip.count = 0))
  BY DEF Stopping
<1>3. CASE at \in {1, 2, 3}
  <2>1. /\ Onward(5) /\ UNCHANGED <<acked, ret, slave>>
        /\ at = 1 => scl' = scl /\ odr' = odr
        /\ at # 1 => scl' = 0
        /\ at = 3 => odr' = 0
    <3>1. CASE at = 1
      <4>1. Done /\ UNCHANGED <<scl, odr, acked, ret, slave>>
        BY <1>1, <3>1, AtOut
      <4>2. Onward(5)
        BY <1>1, <4>1, DoneOnward
      <4> QED BY <3>1, <4>1, <4>2
    <3>2. CASE at = 2
      <4>1. /\ Onward(5) /\ scl' = 0 /\ UNCHANGED <<out, odr, acked, ret>>
            /\ scl = 0 => UNCHANGED slave
            /\ scl = 1 => ChipFall
        BY <1>1, <3>2, AtScl, DoneOnward
      <4>2. scl = 1 => Off
        BY <1>2, <3>2 DEF Lost
      <4>3. UNCHANGED slave
        BY <4>1, <4>2, LineTypes, OffSleeps DEF Off
      <4> QED BY <3>2, <4>1, <4>3
    <3>3. CASE at = 3
      <4>1. scl = 0
        BY <3>3 DEF Stopping
      <4>2. Op = SDA(0)
        BY <1>1, <3>3
      <4>3. Done /\ odr' = 0 /\ UNCHANGED <<scl, out, acked, ret, slave>>
        BY <4>1, <4>2, AtSda
      <4>4. Onward(5)
        BY <1>1, <4>3, DoneOnward
      <4> QED BY <3>3, <4>1, <4>3, <4>4
    <3> QED BY <1>3, <3>1, <3>2, <3>3
  <2>2. at' = at + 1 /\ todo' = todo /\ at' <= 4
    BY <1>3, <2>1 DEF Onward
  <2>3. ~held => Off'
    BY <1>2, <2>1, OffStays
  <2>4. held => Lost' \/ (Holding /\ (at <= 4 => scl = 0 /\ chip.count = 0))'
    BY <1>2, <1>3, <2>1, <2>2, LostStays, HoldingStays DEF slave
  <2>5. at' <= 2 => (scl = 0 \/ Parked)'
    BY <1>3, <2>1, <2>2 DEF Stopping, Parked, Off, slave
  <2> QED BY <1>1, <1>3, <2>1, <2>2, <2>3, <2>4, <2>5 DEF Stopping, slave
<1>4. CASE at = 4
  <2>1. Onward(5) /\ scl' = 1 /\ UNCHANGED <<out, odr, acked, ret>> /\ ChipRise /\ odr = 0
    <3>1. Op = SCL(1) /\ scl = 0 /\ odr = 0
      BY <1>1, <1>4 DEF Stopping
    <3>2. Done /\ scl' = 1 /\ UNCHANGED <<out, odr, acked, ret>> /\ ChipRise
      BY <3>1, AtScl
    <3> QED BY <1>1, <3>1, <3>2, DoneOnward
  <2>2. at' = 5 /\ todo' = todo
    BY <1>4, <2>1 DEF Onward
  <2>3. CASE Off
    <3>1. UNCHANGED slave
      BY <2>1, <2>3, OffSleeps DEF Off
    <3>2. Off' /\ (Lost => Lost') /\ ~Holding
      BY <2>3, <3>1, OffStays, LostStays DEF Off, Holding
    <3> QED BY <1>2, <2>1, <2>2, <3>1, <3>2 DEF Stopping, slave
  <2>4. CASE held /\ Holding
    <3>1. chip.count = 0 /\ Sda = 0
      BY <1>2, <1>4, <2>1, <2>4 DEF Lost, Off, Holding, Sda
    <3>2. chip' = [chip EXCEPT !.shift = 2 * @ + Sda, !.count = @ + 1]
          /\ UNCHANGED <<low, cells, busy>>
      BY <2>1, <2>4 DEF Holding, ChipRise, Receiving
    <3>3. /\ chip'.mode = "data" /\ ~chip'.ninth /\ ~low' /\ chip'.shift = 0 /\ chip'.count = 1
          /\ chip'.pointer = chip.pointer /\ chip'.latch = chip.latch
      BY <2>4, <3>1, <3>2 DEF BusTypeOK, Holding
    <3>4. Holding'
      BY <2>4, <3>3 DEF Holding, Points, Calm
    <3> QED BY <2>1, <2>2, <2>4, <3>2, <3>4 DEF Stopping
  <2> QED BY <1>2, <2>3, <2>4 DEF Lost
<1>5. CASE at = 5
  <2>1. scl = 1 /\ odr = 0 /\ ~low
    BY <1>2, <1>5 DEF Stopping, Lost, Off, Holding
  <2>2. Onward(5) /\ odr' = 1 /\ UNCHANGED <<scl, out, acked, ret>> /\ ChipStop
    BY <1>1, <1>5, <2>1, AtSda, DoneOnward
  <2>3. at' = 1 /\ todo' = Tail(todo)
    BY <1>5, <2>2 DEF Onward
  <2>4. Parked'
    BY <2>1, <2>2, StopTaken DEF Parked
  <2>5. CASE Off
    <3>1. UNCHANGED <<cells, busy>>
      BY <2>2, <2>5, StopTaken DEF Off
    <3>2. held => ~Undisturbed
      BY <1>2, <2>5 DEF Lost, Off, Holding
    <3> QED BY <2>2, <2>3, <2>4, <3>1, <3>2
  <2>6. CASE held /\ Holding
    <3>1. chip.mode = "data" /\ chip.latch # -1
      BY <2>6, ByteFacts DEF Holding
    <3>2. cells' = [cells EXCEPT ![addr % ChipCells] = buf[i + 1]] /\ busy' = TRUE
      BY <2>2, <2>6, <3>1, StopTaken DEF Holding, Points
    <3> QED BY <2>2, <2>3, <2>4, <2>6, <3>2
  <2> QED BY <1>2, <2>5, <2>6 DEF Lost
<1>6. at \in {1, 2, 3} \/ at = 4 \/ at = 5
  BY <1>1
<1> QED BY <1>3, <1>4, <1>5, <1>6

LEMMA FetchedStays ==
  ASSUME Fetched, Calm, UNCHANGED <<ret, cells>>
  PROVE  Fetched'
  BY DEF Fetched, Calm, Undisturbed

LEMMA GotStays ==
  ASSUME NEW k, Got(k), ret' = ret, chip'.shift = chip.shift
  PROVE  Got(k)'
  BY DEF Got

LEMMA ReceivesBits ==
  ASSUME BusTypeOK, Head(todo) = Call("IIC_ReceiveData"), Receives, PinOperation, Calm,
         at <= 3 * Bits + 2
  PROVE  UNCHANGED <<cells, busy, acked>> /\ todo' = todo /\ Receives'
<1> DEFINE n == 3 * Bits + 6
<1>0. at \in 1 .. n /\ ReceivingBits /\ odr = 1 /\ (at \in 2 .. 3 * Bits + 3 => ~out)
  BY DEF Receives, ReceivingBits
<1>1. PICK k \in Nat : k = at \div 3
  BY <1>0
<1>2. /\ Len(Code(Head(todo))) = n /\ n \in Nat
      /\ at = 1 => Op = In
      /\ at = 2 => Op = SCL(0)
      /\ at > 2 /\ at % 3 = 0 => Op = SCL(1)
      /\ at > 2 /\ at % 3 = 1 => Op = Sample
      /\ at > 2 /\ at % 3 = 2 => Op = SCL(0)
  <2> DEFINE code == Code(Call("IIC_ReceiveData"))
  <2>1. /\ Len(code) = n /\ code[1] = In
        /\ \A j \in 2 .. 3 * Bits + 1 :
              /\ j % 3 = 2 => code[j] = SCL(0)
              /\ j % 3 = 0 => code[j] = SCL(1)
              /\ j % 3 = 1 => code[j] = Sample
        /\ code[3 * Bits + 2] = SCL(0)
    BY ReceiveCode
  <2>2. Op = code[at] /\ Code(Head(todo)) = code
    BY DEF Op
  <2> HIDE DEF code
  <2> QED BY <1>0, <2>1, <2>2
<1>3. ASSUME Done PROVE at' = at + 1 /\ todo' = todo
  BY <1>0, <1>2, <1>3, DoneOnward DEF Onward
<1>4. CASE at = 1
  <2>1. Done /\ out' = FALSE /\ UNCHANGED <<scl, odr, acked, ret, slave>>
    BY <1>2, <1>4, AtIn
  <2>2. at' = 2 /\ todo' = todo
    BY <1>3, <1>4, <2>1
  <2>3. Between /\ (Lost \/ (Feeding(1) /\ Got(0)))
    BY <1>0, <1>4 DEF ReceivingBits
  <2>4. Between'
    BY <2>1, <2>3, LostStays DEF Between, Parked, Off, slave
  <2>5. (Lost \/ (Feeding(1) /\ Got(0)))'
    BY <2>1, <2>3, LostStays, FeedingStays, GotStays DEF slave
  <2>6. ReceivingBits'
    BY <1>0, <2>1, <2>2, <2>4, <2>5 DEF ReceivingBits
  <2> QED BY <2>1, <2>2, <2>6 DEF Receives, slave
<1>5. CASE at = 2
  <2>1. /\ Done /\ scl' = 0 /\ UNCHANGED <<out, odr, acked, ret>>
        /\ scl = 0 => UNCHANGED slave
        /\ scl = 1 => ChipFall
    BY <1>2, <1>5, AtScl
  <2>2. at' = 3 /\ todo' = todo
    BY <1>3, <1>5, <2>1
  <2>3. Between /\ (Lost \/ (Feeding(1) /\ Got(0)))
    BY <1>0, <1>5 DEF ReceivingBits
  <2>4. UNCHANGED slave
    BY <2>1, <2>3, LineTypes, OffSleeps DEF Between, Parked, Off
  <2>5. (Lost \/ (Feeding(1) /\ Got(0)))'
    BY <2>1, <2>3, <2>4, LostStays, FeedingStays, GotStays DEF slave
  <2>6. ReceivingBits'
    BY <1>0, <2>1, <2>2, <2>5 DEF ReceivingBits
  <2> QED BY <1>0, <1>5, <2>1, <2>2, <2>4, <2>6 DEF Receives, slave
<1>6. CASE at > 2 /\ at % 3 = 0
  <2>1. k \in 1 .. Bits /\ (at + 1) \div 3 = k /\ (at + 1) % 3 = 1 /\ at + 1 <= 3 * Bits + 2
    BY <1>0, <1>1, <1>6
  <2>2. scl = 0 /\ (Lost \/ (Feeding(k) /\ Got(k - 1)))
    BY <1>0, <1>1, <1>6 DEF ReceivingBits
  <2>3. /\ Done /\ scl' = 1 /\ UNCHANGED <<out, odr, acked, ret>> /\ ChipRise
    BY <1>2, <1>6, <2>2, AtScl
  <2>4. at' = at + 1 /\ todo' = todo
    BY <1>3, <2>3
  <2>5. UNCHANGED slave
    BY <2>2, <2>3, OffSleeps, RiseFeeds DEF Lost, Off
  <2>6. (Lost \/ (Feeding(k) /\ Got(k - 1)))'
    BY <2>2, <2>3, <2>5, LostStays, FeedingStays, GotStays DEF slave
  <2>7. ReceivingBits'
    BY <1>0, <1>6, <2>1, <2>3, <2>4, <2>6 DEF ReceivingBits
  <2> QED BY <1>0, <1>6, <2>1, <2>3, <2>4, <2>5, <2>7 DEF Receives, slave
<1>7. CASE at > 2 /\ at % 3 = 1
  <2>1. k \in 1 .. Bits /\ (at + 1) \div 3 = k /\ (at + 1) % 3 = 2 /\ at + 1 <= 3 * Bits + 2
    BY <1>0, <1>1, <1>7
  <2>2. scl = 1 /\ (Lost \/ (Feeding(k) /\ Got(k - 1)))
    BY <1>0, <1>1, <1>7 DEF ReceivingBits
  <2>3. /\ Done /\ ret' = (2 * ret + Sda) % Pow2[Bits]
        /\ UNCHANGED <<scl, out, odr, acked, slave>>
    BY <1>2, <1>7, AtSample
  <2>4. at' = at + 1 /\ todo' = todo
    BY <1>3, <2>3
  <2>5. (Lost \/ (Feeding(k) /\ Got(k)))'
    BY <1>0, <2>1, <2>2, <2>3, LostStays, FeedingStays, SampleTakes
  <2>6. ReceivingBits'
    BY <1>0, <1>7, <2>1, <2>2, <2>3, <2>4, <2>5 DEF ReceivingBits
  <2> QED BY <1>0, <1>7, <2>1, <2>3, <2>4, <2>6 DEF Receives, slave
<1>8. CASE at > 2 /\ at % 3 = 2 /\ at < 3 * Bits + 2
  <2>1. k \in 1 .. Bits /\ k < Bits /\ (at + 1) \div 3 = k + 1 /\ (at + 1) % 3 = 0
        /\ at + 1 <= 3 * Bits + 2 /\ (k + 1) - 1 = k
    BY <1>0, <1>1, <1>8
  <2>2. scl = 1 /\ (Lost \/ (Feeding(k) /\ Got(k)))
    BY <1>0, <1>1, <1>8 DEF ReceivingBits
  <2>3. /\ Done /\ scl' = 0 /\ UNCHANGED <<out, odr, acked, ret>> /\ ChipFall
    BY <1>2, <1>8, <2>2, AtScl
  <2>4. at' = at + 1 /\ todo' = todo
    BY <1>3, <2>3
  <2>5. (Lost \/ (Feeding(k + 1) /\ Got(k)))' /\ UNCHANGED <<cells, busy>>
    <3>1. CASE Lost
      BY <2>3, <3>1, OffSleeps, LostStays DEF Lost, Off, slave
    <3>2. CASE Feeding(k) /\ Got(k)
      BY <2>1, <2>3, <3>2, FallFeeds, GotStays
    <3> QED BY <2>2, <3>1, <3>2
  <2>6. ReceivingBits'
    BY <1>0, <1>8, <2>1, <2>3, <2>4, <2>5 DEF ReceivingBits
  <2> QED BY <1>0, <1>8, <2>1, <2>3, <2>4, <2>5, <2>6 DEF Receives
<1>9. CASE at = 3 * Bits + 2
  <2>1. k = Bits /\ at > 2 /\ at % 3 = 2
    BY <1>1, <1>9
  <2>2. scl = 1 /\ (Lost \/ (Feeding(Bits) /\ Got(Bits)))
    BY <1>0, <1>1, <2>1 DEF ReceivingBits
  <2>3. /\ Done /\ scl' = 0 /\ UNCHANGED <<out, odr, acked, ret>> /\ ChipFall
    BY <1>2, <2>1, <2>2, AtScl
  <2>4. at' = 3 * Bits + 3 /\ todo' = todo
    BY <1>3, <1>9, <2>3
  <2>5. /\ UNCHANGED <<cells, busy>>
        /\ Lost' \/ (chip'.mode = "read" /\ chip'.ninth /\ ~low')
    <3>1. CASE Lost
      BY <2>3, <3>1, OffSleeps, LostStays DEF Lost, Off, slave
    <3>2. CASE Feeding(Bits)
      BY <2>3, <3>2, FallFeeds
    <3> QED BY <2>2, <3>1, <3>2
  <2>6. Fetched
    <3>1. ASSUME Feeding(Bits), Got(Bits) PROVE Fetched
      <4>1. Top(chip.shift, Bits) = chip.shift
        BY TopBits DEF BusTypeOK
      <4> QED BY <3>1, <4>1 DEF Feeding, Got, Fetched
    <3> QED BY <2>2, <3>1 DEF Lost, Fetched
  <2>7. Fetched'
    BY <2>3, <2>5, <2>6, FetchedStays
  <2>8. Declining'
    BY <2>3, <2>4, <2>5, <2>7 DEF Declining
  <2> QED BY <1>0, <1>9, <2>3, <2>4, <2>5, <2>8 DEF Receives
<1>10. at = 1 \/ at = 2 \/ (at > 2 /\ at % 3 \in {0, 1, 2})
  BY <1>0
<1>11. at % 3 = 2 /\ at > 2 => at < 3 * Bits + 2 \/ at = 3 * Bits + 2
  BY <1>0
<1> QED BY <1>4, <1>5, <1>6, <1>7, <1>8, <1>9, <1>10, <1>11

LEMMA Declines ==
  ASSUME BusTypeOK, Head(todo) = Call("IIC_ReceiveData"), Receives, PinOperation, Calm,
         at > 3 * Bits + 2
  PROVE  /\ UNCHANGED <<cells, busy, acked>>
         /\ \/ todo' = todo /\ Receives'
            \/ todo' = Tail(todo) /\ at' = 1 /\ scl' = 0 /\ Off' /\ Fetched'
<1> DEFINE n == 3 * Bits + 6
           b == 3 * Bits
<1>0. at \in b + 3 .. b + 6 /\ b \in Nat \ {0} /\ Declining /\ Fetched
  BY DEF Receives, Declining
<1>1. /\ Len(Code(Head(todo))) = b + 6
      /\ at = b + 3 => Op = Out
      /\ at = b + 4 => Op = SDA(1)
      /\ at = b + 5 => Op = SCL(1)
      /\ at = b + 6 => Op = SCL(0)
  BY <1>0, ReceiveCode DEF Op
<1>2. /\ at <= b + 5 => scl = 0 /\ (Lost \/ (chip.mode = "read" /\ chip.ninth /\ ~low))
      /\ at = b + 5 => odr = 1
      /\ at = b + 6 => scl = 1 /\ Off
  BY <1>0 DEF Declining
<1> HIDE DEF b
<1>3. ASSUME Done
      PROVE  /\ at < b + 6 => at' = at + 1 /\ todo' = todo
             /\ at = b + 6 => at' = 1 /\ todo' = Tail(todo)
  BY <1>0, <1>1, <1>3, DoneOnward DEF Onward
<1>4. ASSUME ret' = ret, UNCHANGED <<cells>> PROVE Fetched'
  BY <1>0, <1>4, FetchedStays
<1>5. CASE at \in {b + 3, b + 4}
  <2>1. /\ Done /\ UNCHANGED <<scl, acked, ret, slave>> /\ (at = b + 4 => odr' = 1)
    <3>1. CASE at = b + 3
      BY <1>0, <1>1, <3>1, AtOut
    <3>2. CASE at = b + 4
      <4>1. Op = SDA(1) /\ scl = 0
        BY <1>0, <1>1, <1>2, <3>2
      <4> QED BY <4>1, AtSda
    <3> QED BY <1>5, <3>1, <3>2
  <2>2. at' = at + 1 /\ todo' = todo /\ at' \in b + 4 .. b + 5
    BY <1>0, <1>3, <1>5, <2>1
  <2>3. (Lost \/ (chip.mode = "read" /\ chip.ninth /\ ~low))' /\ scl' = 0
    BY <1>0, <1>2, <1>5, <2>1, LostStays DEF slave
  <2>4. Fetched'
    BY <1>4, <2>1 DEF slave
  <2>5. (at = b + 5 => odr = 1)'
    BY <1>0, <1>5, <2>1, <2>2
  <2>6. Declining'
    BY <1>0, <2>2, <2>3, <2>4, <2>5 DEF Declining, b
  <2> QED BY <1>0, <2>1, <2>2, <2>6 DEF Receives, slave, b
<1>6. CASE at = b + 5
  <2>1. Done /\ scl' = 1 /\ UNCHANGED <<out, odr, acked, ret>> /\ ChipRise
    <3>1. Op = SCL(1) /\ scl = 0
      BY <1>0, <1>1, <1>2, <1>6
    <3> QED BY <3>1, AtScl
  <2>2. at' = b + 6 /\ todo' = todo
    BY <1>0, <1>3, <1>6, <2>1
  <2>3. Off' /\ UNCHANGED <<cells, busy>>
    <3>1. CASE Lost
      <4>1. UNCHANGED slave
        BY <2>1, <3>1, OffSleeps DEF Lost, Off
      <4> QED BY <3>1, <4>1, OffStays DEF Lost, slave
    <3>2. CASE chip.mode = "read" /\ chip.ninth /\ ~low
      BY <1>2, <1>6, <2>1, <3>2, RiseDeclined
    <3> QED BY <1>0, <1>2, <1>6, <3>1, <3>2
  <2>4. Fetched'
    BY <1>4, <2>1, <2>3
  <2>5. Declining'
    BY <1>0, <2>1, <2>2, <2>3, <2>4 DEF Declining, b
  <2> QED BY <1>0, <2>1, <2>2, <2>3, <2>5 DEF Receives, b
<1>7. CASE at = b + 6
  <2>1. scl = 1 /\ Off
    BY <1>2, <1>7
  <2>2. Done /\ scl' = 0 /\ UNCHANGED <<out, odr, acked, ret>> /\ ChipFall
    BY <1>1, <1>7, <2>1, AtScl
  <2>3. UNCHANGED slave
    BY <2>1, <2>2, OffSleeps DEF Off
  <2>4. Off' /\ Fetched'
    BY <1>4, <2>1, <2>2, <2>3, OffStays DEF slave
  <2> QED BY <1>3, <1>7, <2>2, <2>3, <2>4 DEF slave
<1>8. at \in {b + 3, b + 4} \/ at = b + 5 \/ at = b + 6
  BY <1>0
<1> QED BY <1>5, <1>6, <1>7, <1>8


-----------------------------------------------------------------------------
(* A transfer, one operation further.                                      *)

LEMMA Runs == ASSUME PinOperation PROVE todo # << >>
  BY DEF PinOperation, Direction, SetSda, SetScl, Read, AckSeen, AckTimeout, Doing

LEMMA StaysUnsure == ASSUME Calm PROVE Undisturbed' <=> Undisturbed
  BY DEF Calm, Undisturbed

LEMMA SendBegins ==
  ASSUME NEW m, NEW d \in Byte, at' = 1, Between', Lost' \/ Taking(m, 0, 0)'
  PROVE  Sending(m, d)'
<1>1. Top(0, 0) = Top(d, 0)
  BY TopBits, ByteFacts
<1>2. Lost' \/ Taking(m, d, 0)'
  BY <1>1 DEF Taking
<1> QED BY <1>2 DEF Sending

LEMMA GivesUp ==
  ASSUME BusTypeOK, Head(todo) = Stop, GivingUp, PinOperation, Calm
  PROVE  /\ UNCHANGED <<ret, acked, cells, busy>> /\ ~Undisturbed'
         /\ \/ todo' = todo /\ GivingUp'
            \/ todo' = Tail(todo) /\ at' = 1 /\ Parked' /\ Lost'
<1>1. /\ UNCHANGED <<ret, acked>>
      /\ \/ todo' = todo /\ Stopping(FALSE)' /\ UNCHANGED <<cells, busy>>
         \/ /\ todo' = Tail(todo) /\ at' = 1 /\ Parked'
            /\ UNCHANGED <<cells, busy>>
  <2>1. Stopping(FALSE) /\ (FALSE => buf[i + 1] \in Byte)
    BY DEF GivingUp
  <2> QED BY <2>1, StoppingStep
<1>2. ~Undisturbed'
  BY StaysUnsure DEF GivingUp
<1> QED BY <1>1, <1>2 DEF GivingUp, Parked, Lost

LEMMA DevicePins ==
  ASSUME BusTypeOK, Cycle, stage = "device", InDevice, PinOperation, Calm
  PROVE  InDevice' /\ UNCHANGED <<ret, cells, busy>>
<1>0. todo # << >> /\ DevWrite \in Byte /\ "dev" \in Stages
  BY Runs, ByteFacts DEF Stages
<1>1. CASE todo = <<Call("IIC_Start"), Send(DevWrite), WaitAck>> /\ First
  <2>1. /\ UNCHANGED <<cells, busy, ret, acked>>
        /\ \/ todo' = todo /\ First'
           \/ todo' = Tail(todo) /\ at' = 1 /\ scl' = 0 /\ (Lost \/ Taking("dev", 0, 0))'
    <3>1. Head(todo) = Call("IIC_Start")
      BY <1>1
    <3>2. TRUE <=> stage # "transfer"
      OBVIOUS
    <3>3. Starting(TRUE)
      BY <1>1, Zenon DEF First
    <3> QED BY <1>0, <3>1, <3>2, <3>3, StartingStep DEF First
  <2>2. CASE todo' = todo /\ First'
    BY <1>1, <2>1, <2>2 DEF InDevice
  <2>3. CASE todo' = Tail(todo) /\ at' = 1 /\ scl' = 0 /\ (Lost \/ Taking("dev", 0, 0))'
    <3>1. todo' = <<Send(DevWrite), WaitAck>>
      BY <1>1, <2>3
    <3>2. Sending("dev", DevWrite)'
      BY <1>0, <2>3, SendBegins DEF Between
    <3> QED BY <2>1, <3>1, <3>2 DEF InDevice
  <2> QED BY <2>1, <2>2, <2>3
<1>2. CASE todo = <<Send(DevWrite), WaitAck>> /\ Sending("dev", DevWrite)
  <2>1. /\ UNCHANGED <<cells, busy, ret, acked>>
        /\ \/ todo' = todo /\ Sending("dev", DevWrite)'
           \/ todo' = Tail(todo) /\ at' = 1 /\ Waiting("dev", DevWrite)'
    BY <1>0, <1>2, SendingStep
  <2>2. todo' = Tail(todo) => todo' = <<WaitAck>>
    BY <1>2
  <2> QED BY <1>2, <2>1, <2>2 DEF InDevice
<1>3. CASE todo = <<WaitAck>> /\ Waiting("dev", DevWrite)
  <2>1. /\ UNCHANGED <<cells, busy, ret>>
        /\ \/ todo' = todo /\ Waiting("dev", DevWrite)'
           \/ todo' = [todo EXCEPT ![1] = Stop] /\ ~acked' /\ GivingUp'
           \/ /\ todo' = Tail(todo) /\ at' = 1 /\ acked' /\ scl' = 0 /\ odr' = 1
              /\ Lost' \/ (Acking("dev", DevWrite) /\ ChipFall)
    BY <1>0, <1>3, WaitingStep
  <2>2. /\ todo' = Tail(todo) => todo' = << >>
        /\ todo' = [todo EXCEPT ![1] = Stop] => todo' = <<Stop>>
    BY <1>3
  <2>3. Acking("dev", DevWrite) /\ ChipFall => Taking("word", 0, 0)'
    BY DeviceAcked
  <2> QED BY <1>3, <2>1, <2>2, <2>3 DEF InDevice, Through
<1>4. CASE todo = <<Stop>> /\ ~acked /\ GivingUp
  <2>1. /\ UNCHANGED <<ret, acked, cells, busy>> /\ ~Undisturbed'
        /\ \/ todo' = todo /\ GivingUp'
           \/ todo' = Tail(todo) /\ at' = 1 /\ Parked' /\ Lost'
    BY <1>4, GivesUp
  <2>2. todo' = Tail(todo) => todo' = << >>
    BY <1>4
  <2> QED BY <1>4, <2>1, <2>2 DEF InDevice, Through
<1> QED BY <1>0, <1>1, <1>2, <1>3, <1>4 DEF InDevice, Through

LEMMA WritePins ==
  ASSUME BusTypeOK, Cycle, addr \in Byte, NEW d \in Byte, d = buf[i + 1], InWrite(d),
         PinOperation, Calm
  PROVE  /\ InWrite(d)'
         /\ \/ UNCHANGED <<cells, busy>> /\ (todo' = << >> => ~Undisturbed)
            \/ /\ todo' = << >> /\ busy' = TRUE
               /\ cells' = [cells EXCEPT ![addr % ChipCells] = buf[i + 1]]
<1>0. todo # << >> /\ {"word", "data"} \subseteq Stages
  BY Runs DEF Stages
<1>a. PICK a \in Byte : a = addr /\ addr' = a
  BY DEF Calm
<1>1. CASE todo = <<Send(addr), WaitAck, Send(d), WaitAck, Stop>> /\ Sending("word", addr)
  <2>1. /\ UNCHANGED <<cells, busy, ret, acked>>
        /\ \/ todo' = todo /\ Sending("word", a)'
           \/ todo' = Tail(todo) /\ at' = 1 /\ Waiting("word", a)'
    BY <1>0, <1>a, <1>1, SendingStep
  <2>2. /\ todo = <<Send(a), WaitAck, Send(d), WaitAck, Stop>>
        /\ todo' = Tail(todo) => todo' = <<WaitAck, Send(d), WaitAck, Stop>>
    BY <1>a, <1>1
  <2>3. /\ todo' # << >>
        /\ \/ todo' = <<Send(a), WaitAck, Send(d), WaitAck, Stop>> /\ Sending("word", a)'
           \/ todo' = <<WaitAck, Send(d), WaitAck, Stop>> /\ Waiting("word", a)'
    BY <2>1, <2>2
  <2> QED BY <1>a, <2>1, <2>3 DEF InWrite
<1>2. CASE todo = <<WaitAck, Send(d), WaitAck, Stop>> /\ Waiting("word", addr)
  <2>1. /\ UNCHANGED <<cells, busy, ret>>
        /\ \/ todo' = todo /\ Waiting("word", a)'
           \/ todo' = [todo EXCEPT ![1] = Stop] /\ ~acked' /\ GivingUp'
           \/ /\ todo' = Tail(todo) /\ at' = 1 /\ acked' /\ scl' = 0 /\ odr' = 1
              /\ Lost' \/ (Acking("word", a) /\ ChipFall)
    BY <1>0, <1>a, <1>2, WaitingStep
  <2>2. /\ todo' = Tail(todo) => todo' = <<Send(d), WaitAck, Stop>>
        /\ todo' = [todo EXCEPT ![1] = Stop] => todo' = <<Stop, Send(d), WaitAck, Stop>>
        /\ todo' = todo => todo' = <<WaitAck, Send(d), WaitAck, Stop>>
    BY <1>2
  <2>3. Acking("word", a) /\ ChipFall => Taking("data", 0, 0)'
    BY <1>a, WordAcked
  <2>4. at' = 1 /\ scl' = 0 /\ (Lost' \/ Taking("data", 0, 0)') => Sending("data", d)'
    BY SendBegins DEF Between
  <2>5. /\ todo' # << >>
        /\ \/ todo' = <<WaitAck, Send(d), WaitAck, Stop>> /\ Waiting("word", a)'
           \/ todo' = <<Stop, Send(d), WaitAck, Stop>> /\ GivingUp'
           \/ todo' = <<Send(d), WaitAck, Stop>> /\ Sending("data", d)'
    <3>1. CASE todo' = todo /\ Waiting("word", a)'
      BY <2>2, <3>1
    <3>2. CASE todo' = [todo EXCEPT ![1] = Stop] /\ ~acked' /\ GivingUp'
      BY <2>2, <3>2
    <3>3. CASE /\ todo' = Tail(todo) /\ at' = 1 /\ scl' = 0
               /\ Lost' \/ (Acking("word", a) /\ ChipFall)
      BY <2>2, <2>3, <2>4, <3>3
    <3> QED BY <2>1, <3>1, <3>2, <3>3
  <2> QED BY <1>a, <2>1, <2>5 DEF InWrite
<1>3. CASE todo = <<Stop, Send(d), WaitAck, Stop>> /\ GivingUp
  <2>1. /\ UNCHANGED <<ret, acked, cells, busy>> /\ ~Undisturbed'
        /\ \/ todo' = todo /\ GivingUp'
           \/ todo' = Tail(todo) /\ at' = 1 /\ Parked' /\ Lost'
    BY <1>3, GivesUp
  <2>2. todo' = Tail(todo) => todo' = <<Send(d), WaitAck, Stop>>
    BY <1>3
  <2>3. at' = 1 /\ Parked' /\ Lost' => Sending("data", d)'
    BY SendBegins DEF Between
  <2>4. /\ todo' # << >>
        /\ \/ todo' = <<Stop, Send(d), WaitAck, Stop>> /\ GivingUp'
           \/ todo' = <<Send(d), WaitAck, Stop>> /\ Sending("data", d)'
    BY <1>3, <2>1, <2>2, <2>3
  <2> QED BY <2>1, <2>4 DEF InWrite
<1>4. CASE todo = <<Send(d), WaitAck, Stop>> /\ Sending("data", d)
  <2>1. /\ UNCHANGED <<cells, busy, ret, acked>>
        /\ \/ todo' = todo /\ Sending("data", d)'
           \/ todo' = Tail(todo) /\ at' = 1 /\ Waiting("data", d)'
    BY <1>0, <1>4, SendingStep
  <2>2. todo' = Tail(todo) => todo' = <<WaitAck, Stop>>
    BY <1>4
  <2>3. /\ todo' # << >>
        /\ \/ todo' = <<Send(d), WaitAck, Stop>> /\ Sending("data", d)'
           \/ todo' = <<WaitAck, Stop>> /\ Waiting("data", d)'
    BY <1>4, <2>1, <2>2
  <2> QED BY <2>1, <2>3 DEF InWrite
<1>5. CASE todo = <<WaitAck, Stop>> /\ Waiting("data", d)
  <2>1. /\ UNCHANGED <<cells, busy, ret>>
        /\ \/ todo' = todo /\ Waiting("data", d)'
           \/ todo' = [todo EXCEPT ![1] = Stop] /\ ~acked' /\ GivingUp'
           \/ /\ todo' = Tail(todo) /\ at' = 1 /\ acked' /\ scl' = 0 /\ odr' = 1
              /\ Lost' \/ (Acking("data", d) /\ ChipFall)
    BY <1>0, <1>5, WaitingStep
  <2>2. /\ todo' = Tail(todo) => todo' = <<Stop>>
        /\ todo' = [todo EXCEPT ![1] = Stop] => todo' = <<Stop, Stop>>
    BY <1>5
  <2>3. Acking("data", d) /\ ChipFall => Holding' /\ chip'.count = 0
    BY DataAcked
  <2>4. at' = 1 /\ scl' = 0 /\ (Lost' \/ (Holding' /\ chip'.count = 0)) => Storing'
    BY DEF Storing, Stopping
  <2>5. /\ todo' # << >>
        /\ \/ todo' = <<WaitAck, Stop>> /\ Waiting("data", d)'
           \/ todo' = <<Stop, Stop>> /\ GivingUp'
           \/ todo' = <<Stop>> /\ Storing'
    <3>1. CASE todo' = todo /\ Waiting("data", d)'
      BY <1>5, <3>1
    <3>2. CASE todo' = [todo EXCEPT ![1] = Stop] /\ ~acked' /\ GivingUp'
      BY <2>2, <3>2
    <3>3. CASE /\ todo' = Tail(todo) /\ at' = 1 /\ scl' = 0
               /\ Lost' \/ (Acking("data", d) /\ ChipFall)
      <4>1. Lost' \/ (Holding' /\ chip'.count = 0)
        BY <2>3, <3>3, Zenon
      <4>2. Storing'
        BY <2>4, <3>3, <4>1, Zenon
      <4>3. todo' = <<Stop>>
        BY <2>2, <3>3, Zenon
      <4> QED BY <4>2, <4>3
    <3> QED BY <2>1, <3>1, <3>2, <3>3
  <2> QED BY <2>1, <2>5 DEF InWrite
<1>6. CASE todo = <<Stop, Stop>> /\ GivingUp
  <2>1. /\ UNCHANGED <<ret, acked, cells, busy>> /\ ~Undisturbed'
        /\ \/ todo' = todo /\ GivingUp'
           \/ todo' = Tail(todo) /\ at' = 1 /\ Parked' /\ Lost'
    BY <1>6, GivesUp
  <2>2. todo' = Tail(todo) => todo' = <<Stop>>
    BY <1>6
  <2>3. at' = 1 /\ Parked' /\ Lost' => Storing'
    BY DEF Storing, Stopping
  <2>4. /\ todo' # << >>
        /\ \/ todo' = <<Stop, Stop>> /\ GivingUp'
           \/ todo' = <<Stop>> /\ Storing'
    BY <1>6, <2>1, <2>2, <2>3
  <2> QED BY <2>1, <2>4 DEF InWrite
<1>7. CASE todo = <<Stop>> /\ Storing
  <2>1. \/ todo' = todo /\ Storing' /\ UNCHANGED <<cells, busy>>
        \/ /\ todo' = Tail(todo) /\ at' = 1 /\ Parked'
           /\ \/ UNCHANGED <<cells, busy>> /\ ~Undisturbed
              \/ /\ busy' = TRUE
                 /\ cells' = [cells EXCEPT ![addr % ChipCells] = buf[i + 1]]
    <3>1. Head(todo) = Stop
      BY <1>7
    <3>2. Stopping(TRUE) /\ (TRUE => buf[i + 1] \in Byte)
      BY <1>7, Zenon DEF Storing
    <3> QED BY <3>1, <3>2, StoppingStep, Zenon DEF Storing
  <2>2. todo' = Tail(todo) => todo' = << >>
    BY <1>7
  <2>3. CASE todo' = todo /\ Storing' /\ UNCHANGED <<cells, busy>>
    BY <1>7, <2>3 DEF InWrite
  <2>4. ASSUME todo' = Tail(todo), at' = 1, Parked' PROVE InWrite(d)' /\ todo' = << >>
    BY <2>2, <2>4 DEF InWrite, Through
  <2> QED BY <2>1, <2>3, <2>4, <1>7
<1> QED BY <1>0, <1>1, <1>2, <1>3, <1>4, <1>5, <1>6, <1>7 DEF InWrite, Through

LEMMA AskPins ==
  ASSUME BusTypeOK, Cycle, addr \in Byte, stage = "transfer", ret = 0, InAsk,
         PinOperation, Calm
  PROVE  /\ UNCHANGED <<cells, busy, ret>>
         /\ \/ InAsk' /\ todo' # << >>
            \/ todo' = <<Call("IIC_ReceiveData"), Stop>> /\ Receives'
<1> DEFINE Data == Call("IIC_ReceiveData")
           Begin == Call("IIC_Start")
<1>0. /\ todo # << >> /\ {"word", "dev"} \subseteq Stages /\ DevRead \in Byte
      /\ Between' <=> (scl = 0 \/ (Parked /\ Lost))'
  BY Runs, ByteFacts DEF Stages, Between
<1>a. PICK a \in Byte : a = addr /\ addr' = a
  BY DEF Calm
<1>b. ASSUME at' = 1, Between', odr' = 1, Lost' \/ (Feeding(1)' /\ Got(0)')
      PROVE  Receives'
  BY <1>b DEF Receives, ReceivingBits
<1>1. CASE /\ todo = <<Send(addr), WaitAck, Begin, Send(DevRead), WaitAck, Data, Stop>>
           /\ Sending("word", addr)
  <2>1. /\ UNCHANGED <<cells, busy, ret, acked>>
        /\ \/ todo' = todo /\ Sending("word", a)'
           \/ todo' = Tail(todo) /\ at' = 1 /\ Waiting("word", a)'
    BY <1>0, <1>a, <1>1, SendingStep
  <2>2. /\ todo = <<Send(a), WaitAck, Begin, Send(DevRead), WaitAck, Data, Stop>>
        /\ todo' = Tail(todo) =>
             todo' = <<WaitAck, Begin, Send(DevRead), WaitAck, Data, Stop>>
    BY <1>a, <1>1
  <2>3. /\ todo' # << >>
        /\ \/ /\ todo' = <<Send(a), WaitAck, Begin, Send(DevRead), WaitAck, Data, Stop>>
              /\ Sending("word", a)'
           \/ /\ todo' = <<WaitAck, Begin, Send(DevRead), WaitAck, Data, Stop>>
              /\ Waiting("word", a)'
    BY <2>1, <2>2
  <2> QED BY <1>a, <2>1, <2>3 DEF InAsk
<1>2. CASE /\ todo = <<WaitAck, Begin, Send(DevRead), WaitAck, Data, Stop>>
           /\ Waiting("word", addr)
  <2>1. /\ UNCHANGED <<cells, busy, ret>>
        /\ \/ todo' = todo /\ Waiting("word", a)'
           \/ todo' = [todo EXCEPT ![1] = Stop] /\ ~acked' /\ GivingUp'
           \/ /\ todo' = Tail(todo) /\ at' = 1 /\ acked' /\ scl' = 0 /\ odr' = 1
              /\ Lost' \/ (Acking("word", a) /\ ChipFall)
    BY <1>0, <1>a, <1>2, WaitingStep
  <2>2. /\ todo' = Tail(todo) => todo' = <<Begin, Send(DevRead), WaitAck, Data, Stop>>
        /\ todo' = [todo EXCEPT ![1] = Stop] =>
             todo' = <<Stop, Begin, Send(DevRead), WaitAck, Data, Stop>>
        /\ todo' = todo => todo' = <<WaitAck, Begin, Send(DevRead), WaitAck, Data, Stop>>
    BY <1>2
  <2>3. Acking("word", a) /\ ChipFall => Taking("data", 0, 0)'
    BY <1>a, WordAcked
  <2>4. at' = 1 /\ scl' = 0 /\ odr' = 1 /\ (Lost' \/ Taking("data", 0, 0)') => Again'
    BY DEF Again, Starting, Between
  <2>5. CASE todo' = todo /\ Waiting("word", a)'
    <3>1. todo' # << >>
      BY <2>2, <2>5
    <3> QED BY <1>a, <2>1, <2>2, <2>5, <3>1 DEF InAsk
  <2>6. CASE todo' = [todo EXCEPT ![1] = Stop] /\ ~acked' /\ GivingUp'
    <3>1. todo' # << >>
      BY <2>2, <2>6
    <3> QED BY <2>1, <2>2, <2>6, <3>1 DEF InAsk
  <2>7. CASE /\ todo' = Tail(todo) /\ at' = 1 /\ scl' = 0 /\ odr' = 1
             /\ Lost' \/ (Acking("word", a) /\ ChipFall)
    <3>1. Again'
      BY <2>3, <2>4, <2>7, Zenon
    <3>2. todo' # << >>
      BY <2>2, <2>7
    <3> QED BY <2>1, <2>2, <2>7, <3>1, <3>2 DEF InAsk
  <2> QED BY <2>1, <2>5, <2>6, <2>7
<1>3. CASE todo = <<Stop, Begin, Send(DevRead), WaitAck, Data, Stop>> /\ GivingUp
  <2>1. /\ UNCHANGED <<ret, acked, cells, busy>> /\ ~Undisturbed'
        /\ \/ todo' = todo /\ GivingUp'
           \/ todo' = Tail(todo) /\ at' = 1 /\ Parked' /\ Lost'
    BY <1>3, GivesUp
  <2>2. todo' = Tail(todo) => todo' = <<Begin, Send(DevRead), WaitAck, Data, Stop>>
    BY <1>3
  <2>3. at' = 1 /\ Parked' /\ Lost' => Again'
    BY DEF Again, Starting, Between, Parked
  <2>4. /\ todo' # << >>
        /\ \/ todo' = <<Stop, Begin, Send(DevRead), WaitAck, Data, Stop>> /\ GivingUp'
           \/ todo' = <<Begin, Send(DevRead), WaitAck, Data, Stop>> /\ Again'
    BY <1>3, <2>1, <2>2, <2>3
  <2> QED BY <2>1, <2>4 DEF InAsk
<1>4. CASE todo = <<Begin, Send(DevRead), WaitAck, Data, Stop>> /\ Again
  <2>1. /\ UNCHANGED <<cells, busy, ret, acked>>
        /\ \/ todo' = todo /\ Again'
           \/ todo' = Tail(todo) /\ at' = 1 /\ scl' = 0 /\ (Lost \/ Taking("dev", 0, 0))'
    <3>1. Head(todo) = Begin
      BY <1>4
    <3>2. FALSE <=> stage # "transfer"
      OBVIOUS
    <3>3. Starting(FALSE)
      BY <1>4 DEF Again
    <3> QED BY <1>0, <3>1, <3>2, <3>3, StartingStep DEF Again
  <2>2. todo' = Tail(todo) => todo' = <<Send(DevRead), WaitAck, Data, Stop>>
    BY <1>4
  <2>3. at' = 1 /\ scl' = 0 /\ (Lost \/ Taking("dev", 0, 0))' => Sending("dev", DevRead)'
    BY <1>0, SendBegins
  <2>4. /\ todo' # << >>
        /\ \/ todo' = <<Begin, Send(DevRead), WaitAck, Data, Stop>> /\ Again'
           \/ todo' = <<Send(DevRead), WaitAck, Data, Stop>> /\ Sending("dev", DevRead)'
    BY <1>4, <2>1, <2>2, <2>3
  <2> QED BY <2>1, <2>4 DEF InAsk
<1>5. CASE todo = <<Send(DevRead), WaitAck, Data, Stop>> /\ Sending("dev", DevRead)
  <2>1. /\ UNCHANGED <<cells, busy, ret, acked>>
        /\ \/ todo' = todo /\ Sending("dev", DevRead)'
           \/ todo' = Tail(todo) /\ at' = 1 /\ Waiting("dev", DevRead)'
    BY <1>0, <1>5, SendingStep
  <2>2. todo' = Tail(todo) => todo' = <<WaitAck, Data, Stop>>
    BY <1>5
  <2>3. /\ todo' # << >>
        /\ \/ todo' = <<Send(DevRead), WaitAck, Data, Stop>> /\ Sending("dev", DevRead)'
           \/ todo' = <<WaitAck, Data, Stop>> /\ Waiting("dev", DevRead)'
    BY <1>5, <2>1, <2>2
  <2> QED BY <2>1, <2>3 DEF InAsk
<1>6. CASE todo = <<WaitAck, Data, Stop>> /\ Waiting("dev", DevRead)
  <2>1. /\ UNCHANGED <<cells, busy, ret>>
        /\ \/ todo' = todo /\ Waiting("dev", DevRead)'
           \/ todo' = [todo EXCEPT ![1] = Stop] /\ ~acked' /\ GivingUp'
           \/ /\ todo' = Tail(todo) /\ at' = 1 /\ acked' /\ scl' = 0 /\ odr' = 1
              /\ Lost' \/ (Acking("dev", DevRead) /\ ChipFall)
    BY <1>0, <1>6, WaitingStep
  <2>2. /\ todo' = Tail(todo) => todo' = <<Data, Stop>>
        /\ todo' = [todo EXCEPT ![1] = Stop] => todo' = <<Stop, Data, Stop>>
        /\ todo' = todo => todo' = <<WaitAck, Data, Stop>>
    BY <1>6
  <2>3. Acking("dev", DevRead) /\ ChipFall => Feeding(1)' /\ Got(0)'
    BY <2>1, ReadAcked
  <2>5. CASE todo' = todo /\ Waiting("dev", DevRead)'
    <3>1. todo' # << >>
      BY <2>2, <2>5
    <3> QED BY <2>1, <2>2, <2>5, <3>1 DEF InAsk
  <2>6. CASE todo' = [todo EXCEPT ![1] = Stop] /\ ~acked' /\ GivingUp'
    <3>1. todo' # << >>
      BY <2>2, <2>6
    <3> QED BY <2>1, <2>2, <2>6, <3>1 DEF InAsk
  <2>7. CASE /\ todo' = Tail(todo) /\ at' = 1 /\ scl' = 0 /\ odr' = 1
             /\ Lost' \/ (Acking("dev", DevRead) /\ ChipFall)
    <3>1. Receives'
      BY <1>0, <1>b, <2>3, <2>7
    <3> QED BY <2>1, <2>2, <2>7, <3>1
  <2> QED BY <2>1, <2>5, <2>6, <2>7
<1>7. CASE todo = <<Stop, Data, Stop>> /\ GivingUp
  <2>1. /\ UNCHANGED <<ret, acked, cells, busy>> /\ ~Undisturbed'
        /\ \/ todo' = todo /\ GivingUp'
           \/ todo' = Tail(todo) /\ at' = 1 /\ Parked' /\ Lost'
    BY <1>7, GivesUp
  <2>2. todo' = Tail(todo) => todo' = <<Data, Stop>>
    BY <1>7
  <2>3. at' = 1 /\ Parked' /\ Lost' => Receives'
    BY <1>0, <1>b DEF Parked
  <2>4. \/ todo' = <<Stop, Data, Stop>> /\ todo' # << >> /\ GivingUp'
        \/ todo' = <<Data, Stop>> /\ Receives'
    BY <1>7, <2>1, <2>2, <2>3
  <2> QED BY <2>1, <2>4 DEF InAsk
<1> QED BY <1>1, <1>2, <1>3, <1>4, <1>5, <1>6, <1>7 DEF InAsk

LEMMA ReadPins ==
  ASSUME BusTypeOK, Cycle, addr \in Byte, stage = "transfer", InRead, PinOperation, Calm
  PROVE  InRead' /\ UNCHANGED <<cells, busy>>
<1>1. CASE ret = 0 /\ InAsk
  <2>1. /\ UNCHANGED <<cells, busy, ret>>
        /\ \/ InAsk'
           \/ todo' = <<Call("IIC_ReceiveData"), Stop>> /\ Receives'
    BY <1>1, AskPins
  <2> QED BY <1>1, <2>1 DEF InRead
<1>2. CASE todo = <<Call("IIC_ReceiveData"), Stop>> /\ Receives
  <2>1. /\ UNCHANGED <<cells, busy>>
        /\ \/ todo' = todo /\ Receives'
           \/ todo' = Tail(todo) /\ at' = 1 /\ scl' = 0 /\ Off' /\ Fetched'
    <3>1. Head(todo) = Call("IIC_ReceiveData")
      BY <1>2
    <3>2. at <= 3 * Bits + 2 \/ at > 3 * Bits + 2
      BY <1>2 DEF Receives
    <3> QED BY <1>2, <3>1, <3>2, ReceivesBits, Declines
  <2>2. todo' = Tail(todo) => todo' = <<Stop>>
    BY <1>2
  <2>3. at' = 1 /\ scl' = 0 /\ Off' /\ Fetched' => Finishing'
    BY DEF Finishing, Stopping
  <2>4. \/ todo' = <<Call("IIC_ReceiveData"), Stop>> /\ Receives'
        \/ todo' = <<Stop>> /\ Finishing'
    BY <1>2, <2>1, <2>2, <2>3
  <2> QED BY <2>1, <2>4 DEF InRead
<1>3. CASE todo = <<Stop>> /\ Finishing
  <2>1. /\ UNCHANGED <<ret, cells, busy>>
        /\ \/ todo' = todo /\ Stopping(FALSE)'
           \/ todo' = Tail(todo) /\ at' = 1 /\ Parked'
    <3>1. Head(todo) = Stop
      BY <1>3
    <3>2. Stopping(FALSE) /\ (FALSE => buf[i + 1] \in Byte)
      BY <1>3 DEF Finishing
    <3> QED BY <3>1, <3>2, StoppingStep
  <2>2. Fetched'
    BY <1>3, <2>1, FetchedStays DEF Finishing
  <2>3. todo' = Tail(todo) => todo' = << >>
    BY <1>3
  <2>4. \/ todo' = <<Stop>> /\ Finishing'
        \/ todo' = << >> /\ at' = 1 /\ Parked'
    BY <1>3, <2>1, <2>2, <2>3 DEF Finishing
  <2> QED BY <2>1, <2>2, <2>4 DEF InRead, Through
<1> QED BY Runs, <1>1, <1>2, <1>3 DEF InRead, Through

-----------------------------------------------------------------------------
(* Types: the chip never counts past a byte.                               *)

\* What the routine at hand asks of a pin it can take.
Fits ==
  /\ Op \in Ops
  /\ Op = SCL(1) /\ scl = 0 /\ Receiving /\ ~chip.ninth =>
       chip.count < Bits /\ 2 * chip.shift + Sda \in Byte

LEMMA ValuesDiffer ==
  /\ \A v \in {0, 1} : Out # SCL(v) /\ In # SCL(v) /\ Sample # SCL(v) /\ Poll # SCL(v)
  /\ \A v, w \in {0, 1} : SDA(v) # SCL(w)
  /\ SCL(0) # SCL(1)
  BY DEF Out, In, Sample, Poll, SDA, SCL

LEMMA SendingFits ==
  ASSUME BusTypeOK, NEW m \in Stages, NEW d \in Byte, Head(todo) = Send(d), Sending(m, d)
  PROVE  Fits
<1>0. PICK k \in Nat : k = at \div 3
  BY DEF Sending
<1>1. /\ at \in 1 .. 3 * Bits + 2
      /\ at = 1 => Op = Out
      /\ at = 2 => Op = SCL(0)
      /\ at > 2 /\ at % 3 = 0 => Op = SDA(Bit(d, k))
      /\ at > 2 /\ at % 3 = 1 => Op = SCL(1)
      /\ at > 2 /\ at % 3 = 2 => Op = SCL(0)
      /\ at > 2 => k \in 1 .. Bits
  <2> DEFINE code == Code(Send(d))
  <2>1. /\ code[1] = Out /\ code[2] = SCL(0)
        /\ \A j \in 3 .. 3 * Bits + 2 :
              /\ j % 3 = 0 => code[j] = SDA(Bit(d, j \div 3))
              /\ j % 3 = 1 => code[j] = SCL(1)
              /\ j % 3 = 2 => code[j] = SCL(0)
    BY SendCode
  <2>2. Op = code[at]
    BY DEF Op
  <2> HIDE DEF code
  <2>3. at \in 1 .. 3 * Bits + 2
    BY DEF Sending
  <2> QED BY <1>0, <2>1, <2>2, <2>3
<1>2. at > 2 => Bit(d, k) \in {0, 1}
  BY <1>1, TopBits
<1>3. Op \in Ops
  BY <1>1, <1>2, OpTypes
<1>4. ASSUME at > 2, at % 3 = 1, Receiving
      PROVE  chip.count < Bits /\ 2 * chip.shift + Sda \in Byte
  <2>1. odr = Bit(d, k) /\ Taking(m, d, k - 1)
    BY <1>0, <1>4 DEF Sending, Lost, Off, Receiving
  <2>2. chip.shift = Top(d, k - 1) /\ chip.count = k - 1 /\ Sda = Bit(d, k)
    BY <2>1 DEF Taking, Sda
  <2>3. Top(d, k) = 2 * Top(d, k - 1) + Bit(d, k) /\ Top(d, k) \in Byte
    BY <1>1, <1>4, TopBits
  <2> QED BY <1>1, <1>4, <2>2, <2>3
<1>5. Op = SCL(1) => at > 2 /\ at % 3 = 1
  BY <1>1, <1>2, ValuesDiffer
<1> QED BY <1>3, <1>4, <1>5 DEF Fits

LEMMA WaitingFits ==
  ASSUME BusTypeOK, NEW m, NEW d, Head(todo) = WaitAck, Waiting(m, d)
  PROVE  Fits
<1>1. Op \in Ops
  BY ShortCodes, OpTypes DEF Waiting, Op
<1>2. ~Receiving \/ chip.ninth
  BY DEF Waiting, Acking, Lost, Off, Receiving
<1> QED BY <1>1, <1>2 DEF Fits

LEMMA StartingFits ==
  ASSUME BusTypeOK, NEW first \in BOOLEAN, Head(todo) = Call("IIC_Start"), Starting(first)
  PROVE  Fits
<1>1. /\ at \in 1 .. 5
      /\ at = 1 => Op = Out
      /\ at = 2 => Op = SDA(1)
      /\ at = 3 => Op = SCL(1)
      /\ at = 4 => Op = SDA(0)
      /\ at = 5 => Op = SCL(0)
  BY ShortCodes DEF Starting, Op
<1>2. Op \in Ops /\ (Op = SCL(1) => at = 3)
  BY <1>1, OpTypes, ValuesDiffer
<1>3. ASSUME at = 3, Receiving PROVE chip.count < Bits /\ 2 * chip.shift + Sda \in Byte
  <2>1. Taking("data", 0, 0)
    BY <1>3 DEF Starting, Lost, Off, Receiving
  <2>2. chip.count = 0 /\ chip.shift = 0 /\ Sda \in {0, 1}
    BY <2>1, TopBits, ByteFacts, LineTypes DEF Taking
  <2> QED BY <2>2, ByteFacts
<1> QED BY <1>2, <1>3 DEF Fits

LEMMA StoppingFits ==
  ASSUME BusTypeOK, NEW held \in BOOLEAN, Head(todo) = Stop, Stopping(held)
  PROVE  Fits
<1>1. /\ at \in 1 .. 5
      /\ at = 1 => Op = Out
      /\ at = 2 => Op = SCL(0)
      /\ at = 3 => Op = SDA(0)
      /\ at = 4 => Op = SCL(1)
      /\ at = 5 => Op = SDA(1)
  BY ShortCodes DEF Stopping, Op
<1>2. Op \in Ops /\ (Op = SCL(1) => at = 4)
  BY <1>1, OpTypes, ValuesDiffer
<1>3. ASSUME at = 4, Receiving PROVE chip.count < Bits /\ 2 * chip.shift + Sda \in Byte
  <2>1. chip.count = 0 /\ chip.shift = 0 /\ Sda \in {0, 1}
    BY <1>3, LineTypes DEF Stopping, Lost, Off, Receiving, Holding
  <2> QED BY <2>1, ByteFacts
<1> QED BY <1>2, <1>3 DEF Fits

LEMMA ReceivesFits ==
  ASSUME BusTypeOK, Head(todo) = Call("IIC_ReceiveData"), Receives
  PROVE  Fits
<1> DEFINE b == 3 * Bits
<1>1. at \in 1 .. b + 6 /\ b \in Nat \ {0}
  BY DEF Receives
<1>2. Op \in Ops /\ (Op = SCL(1) => (at \in 3 .. b + 1 /\ at % 3 = 0) \/ at = b + 5)
  <2> DEFINE code == Code(Call("IIC_ReceiveData"))
  <2>1. /\ code[1] = In
        /\ \A j \in 2 .. b + 1 :
              /\ j % 3 = 2 => code[j] = SCL(0)
              /\ j % 3 = 0 => code[j] = SCL(1)
              /\ j % 3 = 1 => code[j] = Sample
        /\ code[b + 2] = SCL(0) /\ code[b + 3] = Out /\ code[b + 4] = SDA(1)
        /\ code[b + 5] = SCL(1) /\ code[b + 6] = SCL(0)
    BY ReceiveCode
  <2>2. Op = code[at]
    BY DEF Op
  <2> HIDE DEF code
  <2> HIDE DEF b
  <2>3. \/ at = 1 /\ Op = In
        \/ at \in 2 .. b + 1 /\ at % 3 = 2 /\ Op = SCL(0)
        \/ at \in 2 .. b + 1 /\ at % 3 = 0 /\ Op = SCL(1)
        \/ at \in 2 .. b + 1 /\ at % 3 = 1 /\ Op = Sample
        \/ at \in {b + 2, b + 6} /\ Op = SCL(0)
        \/ at = b + 3 /\ Op = Out
        \/ at = b + 4 /\ Op = SDA(1)
        \/ at = b + 5 /\ Op = SCL(1)
    BY <1>1, <2>1, <2>2
  <2> QED BY <1>1, <2>3, OpTypes, ValuesDiffer
<1>3. ASSUME at \in 3 .. b + 1, at % 3 = 0 PROVE ~Receiving
  BY <1>1, <1>3 DEF Receives, ReceivingBits, Lost, Off, Feeding, Receiving
<1>4. ASSUME at = b + 5 PROVE ~Receiving
  BY <1>1, <1>4 DEF Receives, Declining, Lost, Off, Receiving
<1> QED BY <1>2, <1>3, <1>4 DEF Fits

Counts == 0 .. Bits
Places == 0 .. ChipCells - 1
Latches == Byte \cup {-1}
Chips == [mode : Modes, shift : Byte, count : Counts, ninth : BOOLEAN, pointer : Places,
          latch : Latches]

LEMMA ChipValues ==
  /\ 0 \in Byte /\ 0 \in Counts /\ 1 \in Counts /\ -1 \in Latches
  /\ {"off", "dev", "word", "data", "read"} \subseteq Modes
  /\ Byte \subseteq Latches
  BY ByteFacts DEF Counts, Latches, Modes

LEMMA ChipTyped ==
  ASSUME BusTypeOK
  PROVE  chip \in Chips /\ cells \in [Places -> Byte]
  BY DEF BusTypeOK, Chips, Counts, Places, Latches

LEMMA Updates ==
  ASSUME NEW c \in Chips
  PROVE  /\ c.mode \in Modes /\ c.shift \in Byte /\ c.count \in Counts /\ c.pointer \in Places
         /\ c.latch \in Latches
         /\ \A m \in Modes : [c EXCEPT !.mode = m] \in Chips
         /\ [c EXCEPT !.ninth = TRUE] \in Chips
         /\ \A p \in Places : [c EXCEPT !.pointer = p] \in Chips
         /\ \A p \in Places, l \in Latches :
              [c EXCEPT !.ninth = TRUE, !.pointer = p, !.latch = l] \in Chips
         /\ \A s \in Byte, k \in Counts : [c EXCEPT !.shift = s, !.count = k] \in Chips
         /\ \A m \in Modes, s \in Byte, k \in Counts :
              [c EXCEPT !.mode = m, !.ninth = FALSE, !.shift = s, !.count = k] \in Chips
         /\ \A m \in Modes, s \in Byte, k \in Counts :
              [c EXCEPT !.ninth = FALSE, !.shift = s, !.count = k, !.mode = m] \in Chips
         /\ \A m \in Modes, s \in Byte, k \in Counts, l \in Latches :
              [c EXCEPT !.mode = m, !.shift = s, !.count = k, !.ninth = FALSE,
                        !.latch = l] \in Chips
  BY DEF Chips

LEMMA SendTypes ==
  ASSUME NEW byte \in Byte, NEW k \in Counts, NEW c \in Chips, Sends(byte, k, c)
  PROVE  chip' \in Chips /\ low' \in BOOLEAN
  BY Updates, ChipValues DEF Sends

LEMMA FallTypes ==
  ASSUME BusTypeOK, ChipFall
  PROVE  chip' \in Chips /\ low' \in BOOLEAN
<1>1. chip \in Chips /\ \A c \in Places : cells[c] \in Byte
  BY ChipTyped
<1>2. /\ chip.shift \in Byte /\ chip.count \in Counts /\ chip.pointer \in Places
      /\ chip.latch \in Latches
  BY <1>1, Updates
<1>3. chip.shift % ChipCells \in Places /\ (chip.pointer + 1) % ChipCells \in Places
  <2>1. chip.shift \in Nat /\ chip.pointer + 1 \in Nat /\ ChipCells \in Nat \ {0}
    <3>1. ChipCells \in Nat \ {0} /\ Byte \subseteq Nat
      BY ByteFacts
    <3>2. chip.shift \in Nat
      BY <1>2, <3>1
    <3>3. chip.pointer + 1 \in Nat
      BY <1>2, <3>1 DEF Places
    <3> QED BY <3>1, <3>2, <3>3
  <2> QED BY <2>1, Division DEF Places
<1>4. CASE EndAck
  <2>1. CASE Sends(cells[chip.pointer], 1, chip)
    BY <1>1, <1>2, <2>1, SendTypes, ChipValues
  <2>2. CASE /\ chip' = [chip EXCEPT !.ninth = FALSE, !.shift = 0, !.count = 0,
                                     !.mode = IF @ = "dev" THEN "word" ELSE "data"]
             /\ low' = FALSE
    <3> DEFINE m == IF chip.mode = "dev" THEN "word" ELSE "data"
    <3>1. m \in Modes
      BY ChipValues
    <3>2. chip' = [chip EXCEPT !.ninth = FALSE, !.shift = 0, !.count = 0, !.mode = m]
      BY <2>2
    <3> HIDE DEF m
    <3>3. [chip EXCEPT !.ninth = FALSE, !.shift = 0, !.count = 0, !.mode = m] \in Chips
      BY <1>1, <3>1, Updates, ChipValues
    <3> QED BY <2>2, <3>2, <3>3
  <2> QED BY <1>4, <2>1, <2>2 DEF EndAck
<1>5. CASE TakeByte
  <2>1. CASE chip' = [chip EXCEPT !.mode = "off"] /\ low' = FALSE
    BY <1>1, <2>1, Updates, ChipValues
  <2>2. CASE /\ chip' = [chip EXCEPT !.ninth = TRUE,
                     !.pointer = IF chip.mode = "word" THEN chip.shift % ChipCells ELSE @,
                     !.latch = IF chip.mode = "data" THEN chip.shift ELSE @]
             /\ low' = TRUE
    <3> DEFINE p == IF chip.mode = "word" THEN chip.shift % ChipCells ELSE chip.pointer
               l == IF chip.mode = "data" THEN chip.shift ELSE chip.latch
    <3>1. p \in Places /\ l \in Latches
      BY <1>2, <1>3, ChipValues
    <3>2. chip' = [chip EXCEPT !.ninth = TRUE, !.pointer = p, !.latch = l]
      BY <2>2
    <3> HIDE DEF p, l
    <3>3. [chip EXCEPT !.ninth = TRUE, !.pointer = p, !.latch = l] \in Chips
      BY <1>1, <3>1, Updates
    <3> QED BY <2>2, <3>2, <3>3
  <2> QED BY <1>5, <2>1, <2>2 DEF TakeByte
<1>6. CASE SendNext
  <2>1. CASE chip' = [chip EXCEPT !.ninth = TRUE] /\ low' = FALSE
    BY <1>1, <2>1, Updates
  <2>2. CASE chip.count # Bits /\ Sends(chip.shift, chip.count + 1, chip)
    <3>1. chip.count + 1 \in Counts
      BY <1>2, <2>2 DEF Counts
    <3> QED BY <1>1, <1>2, <2>2, <3>1, SendTypes
  <2> QED BY <1>6, <2>1, <2>2 DEF SendNext
<1>7. CASE SendNextByte
  <2> DEFINE next == (chip.pointer + 1) % ChipCells
             c == [chip EXCEPT !.pointer = next]
  <2>1. Sends(cells[next], 1, c)
    BY <1>7 DEF SendNextByte
  <2>2. next \in Places
    BY <1>3
  <2> HIDE DEF next
  <2>3. c \in Chips /\ cells[next] \in Byte
    BY <1>1, <2>2, Updates
  <2> HIDE DEF c
  <2> QED BY <2>1, <2>3, SendTypes, ChipValues
<1>8. CASE UNCHANGED <<chip, low>>
  BY <1>1, <1>8 DEF BusTypeOK
<1> QED BY <1>4, <1>5, <1>6, <1>7, <1>8 DEF ChipFall

LEMMA PinTypes ==
  ASSUME BusTypeOK, Fits, PinOperation
  PROVE  BusTypeOK'
<1>0. todo # << >> /\ Op[2] \in {0, 1} /\ (Op[1] = "scl" /\ Op[2] = 1 => Op = SCL(1))
  <2>1. PICK name \in {"out", "in", "sda", "scl", "sample", "poll"}, v \in {0, 1} :
          Op = <<name, v>>
    BY DEF Fits, Ops
  <2> QED BY <2>1, Runs DEF SCL
<1>1. chip \in Chips /\ cells \in [Places -> Byte] /\ low \in BOOLEAN /\ busy \in BOOLEAN
  BY ChipTyped DEF BusTypeOK
<1>2. at' \in Nat \ {0}
  BY DEF PinOperation, Direction, SetSda, SetScl, Read, AckSeen, AckTimeout, Done, BusTypeOK
<1>3. scl' \in {0, 1} /\ odr' \in {0, 1} /\ out' \in BOOLEAN /\ acked' \in BOOLEAN
  BY <1>0 DEF PinOperation, Direction, SetSda, SetScl, Read, AckSeen, AckTimeout, Doing,
              BusTypeOK
<1>4. ret' \in Byte
  <2>1. CASE Read
    <3> DEFINE p == Pow2[Bits]
    <3>1. p \in Nat \ {0} /\ 2 * ret + Sda \in Nat
      BY ByteFacts, LineTypes DEF BusTypeOK
    <3>2. ret' = (2 * ret + Sda) % p
      BY <2>1 DEF Read
    <3> HIDE DEF p
    <3>3. ret' \in 0 .. p - 1
      BY <3>1, <3>2
    <3> QED BY <3>3 DEF Byte, p
  <2>2. CASE ~Read
    BY <2>2 DEF PinOperation, Direction, SetSda, SetScl, AckSeen, AckTimeout, BusTypeOK
  <2> QED BY <2>1, <2>2
<1>5. chip' \in Chips /\ cells' \in [Places -> Byte] /\ low' \in BOOLEAN /\ busy' \in BOOLEAN
  <2>1. CASE UNCHANGED slave
    BY <1>1, <2>1 DEF slave
  <2>2. CASE ChipStart
    BY <1>1, <2>2, Updates, ChipValues DEF ChipStart
  <2>3. CASE ChipStop
    <3>1. chip' \in Chips
      BY <1>1, <2>3, Updates, ChipValues DEF ChipStop
    <3>2. chip.latch # -1 => chip.latch \in Byte
      BY <1>1, Updates DEF Latches
    <3> QED BY <1>1, <2>3, <3>1, <3>2 DEF ChipStop
  <2>4. CASE ChipFall
    BY <1>1, <2>4, FallTypes DEF ChipFall
  <2>5. CASE Doing("scl") /\ scl = 0 /\ Op[2] = 1 /\ ChipRise
    <3>1. CASE Receiving /\ ~chip.ninth
      <4>1. chip.count < Bits /\ 2 * chip.shift + Sda \in Byte
        BY <1>0, <2>5, <3>1 DEF Fits, Doing
      <4>2. chip' = [chip EXCEPT !.shift = 2 * @ + Sda, !.count = @ + 1]
        BY <2>5, <3>1 DEF ChipRise
      <4> DEFINE s == 2 * chip.shift + Sda
                 k == chip.count + 1
      <4>3. chip' = [chip EXCEPT !.shift = s, !.count = k]
        BY <4>2
      <4>4. s \in Byte /\ k \in Counts
        <5>1. chip.count \in Counts
          BY <1>1, Updates
        <5>2. k \in Counts
          BY <4>1, <5>1 DEF Counts
        <5> QED BY <4>1, <5>2
      <4> HIDE DEF s, k
      <4>5. chip' \in Chips
        BY <1>1, <4>3, <4>4, Updates
      <4> QED BY <1>1, <2>5, <4>5 DEF ChipRise
    <3>2. CASE ~(Receiving /\ ~chip.ninth)
      <4>1. chip' = chip \/ chip' = [chip EXCEPT !.mode = "off"]
        BY <2>5, <3>2 DEF ChipRise
      <4>2. chip' \in Chips
        BY <1>1, <4>1, Updates, ChipValues
      <4> QED BY <1>1, <2>5, <4>2 DEF ChipRise
    <3> QED BY <3>1, <3>2
  <2>6. UNCHANGED slave \/ ChipStart \/ ChipStop \/ ChipFall
        \/ (Doing("scl") /\ scl = 0 /\ Op[2] = 1 /\ ChipRise)
    BY DEF PinOperation, Direction, SetSda, SetScl, Read, AckSeen, AckTimeout
  <2> QED BY <2>1, <2>2, <2>3, <2>4, <2>5, <2>6
<1> QED BY <1>2, <1>3, <1>4, <1>5
        DEF BusTypeOK, Chips, Counts, Places, Latches

\* Busy, the chip hears nothing.
LEMMA BusyDeaf ==
  ASSUME BusTypeOK, busy => chip.mode = "off", PinOperation
  PROVE  busy' => chip'.mode = "off"
<1>1. CASE UNCHANGED slave
  BY <1>1 DEF slave
<1>2. CASE ChipStart
  BY <1>2 DEF ChipStart
<1>3. CASE ChipStop
  BY <1>3 DEF ChipStop, BusTypeOK
<1>4. CASE ChipRise \/ ChipFall
  <2>1. busy' = busy
    BY <1>4 DEF ChipRise, ChipFall
  <2>2. busy => UNCHANGED slave
    BY <1>4, OffSleeps
  <2> QED BY <2>1, <2>2 DEF slave
<1> QED BY <1>1, <1>2, <1>3, <1>4
        DEF PinOperation, Direction, SetSda, SetScl, Read, AckSeen, AckTimeout

-----------------------------------------------------------------------------
(* The invariant, step by step.                                            *)

Buses == /\ TypeOK
         /\ Bus
         /\ Cycle
         /\ Arguments

LEMMA DriverFacts ==
  ASSUME Buses
  PROVE  /\ BusTypeOK /\ addr \in Byte
         /\ stage \in {"idle", "loop", "device", "transfer"}
         /\ stage = "transfer" /\ Writing => buf[i + 1] \in Byte /\ i < bufnum
<1>1. BusTypeOK /\ addr \in 0 .. EEPROM_ENDADDR /\ buf \in Seq(Bytes) /\ i \in Nat
      /\ stage \in {"idle", "loop", "device", "transfer"}
  BY EepromAssumption DEF Buses, TypeOK, EepromAssumption
<1>2. addr \in Byte
  BY <1>1, ByteFacts
<1>3. ASSUME stage = "transfer", Writing PROVE buf[i + 1] \in Byte /\ i < bufnum
  <2>1. bufnum = Len(buf) /\ i < bufnum
    BY <1>3 DEF Buses, Arguments
  <2>2. i + 1 \in 1 .. Len(buf)
    BY <1>1, <2>1
  <2>3. buf[i + 1] \in Bytes
    BY <1>1, <2>2
  <2> QED BY <2>1, <2>3, ByteFacts
<1> QED BY <1>1, <1>2, <1>3

LEMMA Calmly == ASSUME Quietly PROVE Calm
  BY DEF Quietly, Calm, driver, history

LEMMA RoutinesFit ==
  ASSUME Buses, todo # << >>
  PROVE  Fits
<1>0. /\ BusTypeOK /\ addr \in Byte /\ stage \in {"idle", "loop", "device", "transfer"}
      /\ stage = "transfer" /\ Writing => buf[i + 1] \in Byte
      /\ DevWrite \in Byte /\ DevRead \in Byte /\ {"dev", "word", "data"} \subseteq Stages
  BY DriverFacts, ByteFacts DEF Stages
<1>1. ASSUME NEW m \in Stages, NEW d \in Byte, Head(todo) = Send(d), Sending(m, d) PROVE Fits
  BY <1>0, <1>1, SendingFits
<1>2. ASSUME NEW m, NEW d, Head(todo) = WaitAck, Waiting(m, d) PROVE Fits
  BY <1>0, <1>2, WaitingFits
<1>3. ASSUME Head(todo) = Stop, GivingUp \/ Storing \/ Finishing PROVE Fits
  <2>1. Stopping(TRUE) \/ Stopping(FALSE)
    BY <1>3, Zenon DEF GivingUp, Storing, Finishing
  <2> QED BY <1>0, <1>3, <2>1, StoppingFits
<1>4. ASSUME Head(todo) = Call("IIC_Start"), First \/ Again PROVE Fits
  <2>1. Starting(TRUE) \/ Starting(FALSE)
    BY <1>4, Zenon DEF First, Again
  <2> QED BY <1>0, <1>4, <2>1, StartingFits
<1>5. ASSUME Head(todo) = Call("IIC_ReceiveData"), Receives PROVE Fits
  BY <1>0, <1>5, ReceivesFits
<1>6. CASE stage \in {"idle", "loop"}
  BY <1>6 DEF Buses, Bus, Through
<1>7. CASE stage = "device"
  <2>1. InDevice
    BY <1>7 DEF Buses, Bus
  <2>2. \/ Head(todo) = Call("IIC_Start") /\ First
        \/ Head(todo) = Send(DevWrite) /\ Sending("dev", DevWrite)
        \/ Head(todo) = WaitAck /\ Waiting("dev", DevWrite)
        \/ Head(todo) = Stop /\ GivingUp
    BY <2>1 DEF InDevice, Through
  <2> QED BY <1>0, <1>1, <1>2, <1>3, <1>4, <2>2
<1>8. CASE stage = "transfer" /\ Writing
  <2>1. PICK d \in Byte : d = buf[i + 1]
    BY <1>0, <1>8
  <2>2. InWrite(d)
    BY <1>8, <2>1 DEF Buses, Bus
  <2>3. \/ Head(todo) = Send(addr) /\ Sending("word", addr)
        \/ Head(todo) = Send(d) /\ Sending("data", d)
        \/ Head(todo) = WaitAck /\ (Waiting("word", addr) \/ Waiting("data", d))
        \/ Head(todo) = Stop /\ (GivingUp \/ Storing)
    BY <2>2 DEF InWrite, Through
  <2> QED BY <1>0, <1>1, <1>2, <1>3, <2>3
<1>9. CASE stage = "transfer" /\ ~Writing
  <2>1. InRead
    BY <1>9 DEF Buses, Bus
  <2>2. \/ Head(todo) = Send(addr) /\ Sending("word", addr)
        \/ Head(todo) = Send(DevRead) /\ Sending("dev", DevRead)
        \/ Head(todo) = WaitAck /\ (Waiting("word", addr) \/ Waiting("dev", DevRead))
        \/ Head(todo) = Call("IIC_Start") /\ Again
        \/ Head(todo) = Call("IIC_ReceiveData") /\ Receives
        \/ Head(todo) = Stop /\ (GivingUp \/ Finishing)
    BY <2>1 DEF InRead, InAsk, Through
  <2> QED BY <1>0, <1>1, <1>2, <1>3, <1>4, <1>5, <2>2
<1> QED BY <1>0, <1>6, <1>7, <1>8, <1>9

\* The byte that the driver was called with is stored.
Lands ==
  /\ stage = "transfer" /\ Writing /\ todo' = << >>
  /\ cells' = [cells EXCEPT ![addr % ChipCells] = buf[i + 1]]

LEMMA PinsStep ==
  ASSUME Buses, PinOperation, Quietly
  PROVE  /\ Buses'
         /\ \/ Lands
            \/ cells' = cells /\ (stage = "transfer" /\ Writing /\ todo' = << >> => ~Undisturbed)
<1>0. /\ BusTypeOK /\ addr \in Byte /\ stage \in {"idle", "loop", "device", "transfer"}
      /\ stage = "transfer" /\ Writing => buf[i + 1] \in Byte
      /\ Calm /\ todo # << >> /\ Cycle
  BY DriverFacts, Calmly, Runs DEF Buses
<1>1. stage \notin {"idle", "loop"}
  BY <1>0 DEF Buses, Bus, Through
<1>2. TypeOK'
  <2>1. BusTypeOK'
    BY <1>0, RoutinesFit, PinTypes
  <2> QED BY <2>1 DEF Buses, TypeOK, Quietly, driver, history
<1>3. Arguments'
  BY DEF Buses, Arguments, Writing, Quietly, driver, history
<1>4. /\ stage' = stage /\ (Writing' <=> Writing) /\ buf' = buf /\ i' = i
      /\ (Undisturbed' <=> Undisturbed)
  BY <1>0, StaysUnsure DEF Calm, Writing
<1>5. busy' => chip'.mode = "off"
  BY <1>0, BusyDeaf DEF Cycle
<1>6. ~(busy /\ Undisturbed)
  BY <1>0 DEF Cycle
<1>7. CASE stage = "device"
  <2>1. InDevice /\ ret = 0
    BY <1>7 DEF Buses, Bus
  <2>2. InDevice' /\ UNCHANGED <<ret, cells, busy>>
    BY <1>0, <1>7, <2>1, DevicePins
  <2>3. Bus'
    BY <1>4, <1>7, <2>1, <2>2 DEF Bus
  <2>4. Cycle'
    BY <1>4, <1>5, <1>6, <2>2 DEF Cycle
  <2> QED BY <1>2, <1>3, <1>7, <2>2, <2>3, <2>4 DEF Buses
<1>8. CASE stage = "transfer" /\ Writing
  <2>1. PICK d \in Byte : d = buf[i + 1] /\ buf'[i' + 1] = d
    BY <1>0, <1>4, <1>8
  <2>2. InWrite(d)
    BY <1>8, <2>1 DEF Buses, Bus
  <2>3. /\ InWrite(d)'
        /\ \/ UNCHANGED <<cells, busy>> /\ (todo' = << >> => ~Undisturbed)
           \/ /\ todo' = << >> /\ busy' = TRUE
              /\ cells' = [cells EXCEPT ![addr % ChipCells] = buf[i + 1]]
    BY <1>0, <2>1, <2>2, WritePins
  <2>4. Bus'
    BY <1>4, <1>8, <2>1, <2>3 DEF Bus
  <2>5. Cycle'
    BY <1>4, <1>5, <1>6, <1>8, <2>3 DEF Cycle
  <2> QED BY <1>2, <1>3, <1>8, <2>3, <2>4, <2>5 DEF Buses, Lands
<1>9. CASE stage = "transfer" /\ ~Writing
  <2>1. InRead
    BY <1>9 DEF Buses, Bus
  <2>2. InRead' /\ UNCHANGED <<cells, busy>>
    BY <1>0, <1>9, <2>1, ReadPins
  <2>3. Bus'
    BY <1>4, <1>9, <2>2 DEF Bus
  <2>4. Cycle'
    BY <1>4, <1>5, <1>6, <2>2 DEF Cycle
  <2> QED BY <1>2, <1>3, <1>9, <2>2, <2>3, <2>4 DEF Buses
<1> QED BY <1>0, <1>1, <1>7, <1>8, <1>9

\* The chip loses its place: from then on it counts as lost.
Shaken == /\ ~Undisturbed' /\ Off' /\ Lost'
          /\ UNCHANGED <<master, call, stage, addr, buf, i>>

LEMMA ShakenSending == ASSUME Shaken, NEW m, NEW d, Sending(m, d) PROVE Sending(m, d)'
  BY DEF Shaken, Sending, Between, Parked, master

LEMMA ShakenWaiting == ASSUME Shaken, NEW m, NEW d, Waiting(m, d) PROVE Waiting(m, d)'
  BY DEF Shaken, Waiting, master

LEMMA ShakenStarting == ASSUME Shaken PROVE (First => First') /\ (Again => Again')
  BY DEF Shaken, First, Again, Starting, Between, Parked, master

LEMMA ShakenStopping ==
  ASSUME Shaken
  PROVE  (GivingUp => GivingUp') /\ (Storing => Storing') /\ (Finishing => Finishing')
<1>1. GivingUp => GivingUp'
  BY DEF Shaken, GivingUp, Stopping, Parked, master
<1>2. Storing => Storing'
  BY DEF Shaken, Storing, Stopping, Parked, master
<1>3. Finishing => Finishing'
  BY DEF Shaken, Finishing, Stopping, Fetched, Parked, master
<1> QED BY <1>1, <1>2, <1>3

LEMMA ShakenReceives == ASSUME Shaken, Receives PROVE Receives'
<1>1. ReceivingBits => ReceivingBits'
  BY DEF Shaken, ReceivingBits, Between, Parked, master
<1>2. Declining => Declining'
  BY DEF Shaken, Declining, Fetched, master
<1> QED BY <1>1, <1>2 DEF Receives, Shaken, master

LEMMA ShakenBus ==
  ASSUME Shaken, Bus
  PROVE  Bus'
<1>0. /\ todo' = todo /\ at' = at /\ acked' = acked /\ ret' = ret /\ scl' = scl /\ odr' = odr
      /\ stage' = stage /\ addr' = addr /\ buf' = buf /\ i' = i /\ (Writing' <=> Writing)
      /\ ~Undisturbed' /\ Off' /\ Lost'
  BY DEF Shaken, master, Writing
<1>1. Parked => Parked'
  BY <1>0 DEF Parked
<1>2. Fetched'
  BY <1>0 DEF Fetched
<1>3. InDevice => InDevice'
  <2>1. Sending("dev", DevWrite) => Sending("dev", DevWrite)'
    BY ShakenSending
  <2>2. Waiting("dev", DevWrite) => Waiting("dev", DevWrite)'
    BY ShakenWaiting
  <2> QED BY <1>0, <1>1, <2>1, <2>2, ShakenStarting, ShakenStopping DEF InDevice, Through
<1>4. ASSUME NEW d, InWrite(d) PROVE InWrite(d)'
  <2>a. PICK a : a = addr /\ addr' = a
    BY <1>0
  <2>1. (Sending("word", a) => Sending("word", a)') /\ (Sending("data", d) => Sending("data", d)')
    BY ShakenSending
  <2>2. (Waiting("word", a) => Waiting("word", a)') /\ (Waiting("data", d) => Waiting("data", d)')
    BY ShakenWaiting
  <2> QED BY <1>0, <1>1, <1>4, <2>a, <2>1, <2>2, ShakenStopping DEF InWrite, Through
<1>5. InAsk => InAsk'
  <2>a. PICK a : a = addr /\ addr' = a
    BY <1>0
  <2>1. /\ Sending("word", a) => Sending("word", a)'
        /\ Sending("dev", DevRead) => Sending("dev", DevRead)'
    BY ShakenSending
  <2>2. /\ Waiting("word", a) => Waiting("word", a)'
        /\ Waiting("dev", DevRead) => Waiting("dev", DevRead)'
    BY ShakenWaiting
  <2> QED BY <1>0, <2>a, <2>1, <2>2, ShakenStarting, ShakenStopping DEF InAsk
<1>6. InRead => InRead'
  BY <1>0, <1>1, <1>2, <1>5, ShakenReceives, ShakenStopping DEF InRead, Through
<1>7. PICK d : d = buf[i + 1] /\ buf'[i' + 1] = d
  BY <1>0
<1>8. InWrite(d) => InWrite(d)'
  BY <1>4
<1> QED BY <1>0, <1>1, <1>3, <1>6, <1>7, <1>8 DEF Bus, Through

LEMMA DisturbStep ==
  ASSUME Buses, Disturb
  PROVE  Buses' /\ UNCHANGED <<master, cells, driver, history>> /\ ~Undisturbed'
<1>1. /\ UNCHANGED <<master, cells, busy, driver, history, calls>> /\ low' = FALSE
      /\ \E p \in Places : chip' = [ChipOff EXCEPT !.pointer = p]
      /\ resets' = resets + 1 /\ resets' \in 0 .. MaxResets
  BY EepromAssumption DEF Disturb, ChipReset, Places, Buses, TypeOK, EepromAssumption
<1>2. chip'.mode = "off" /\ chip' \in Chips
  <2>1. ChipOff \in Chips
    BY ChipValues, ByteFacts DEF ChipOff, Chips, Places
  <2> QED BY <1>1, <2>1, Updates DEF ChipOff
<1>3. ~Undisturbed'
  BY <1>1 DEF Undisturbed, Buses, TypeOK
<1>4. Shaken
  BY <1>1, <1>2, <1>3 DEF Shaken, Lost, Off, driver
<1>5. Bus'
  BY <1>4, ShakenBus DEF Buses
<1>6. TypeOK'
  <2>1. BusTypeOK'
    BY <1>1, <1>2, ChipTyped
       DEF Buses, TypeOK, BusTypeOK, master, Chips, Counts, Places, Latches
  <2> QED BY <1>1, <2>1 DEF Buses, TypeOK, driver, history
<1>7. Cycle'
  BY <1>2, <1>3 DEF Cycle
<1>8. Arguments'
  BY <1>1 DEF Buses, Arguments, Writing, driver, history
<1> QED BY <1>1, <1>3, <1>5, <1>6, <1>7, <1>8 DEF Buses

\* What the chip is does not depend on a write cycle.
LEMMA BusyApart ==
  ASSUME UNCHANGED <<master, chip, low, cells>>, Calm, Bus
  PROVE  Bus'
<1>0. /\ todo' = todo /\ at' = at /\ acked' = acked /\ ret' = ret /\ scl' = scl /\ odr' = odr
      /\ out' = out /\ chip' = chip /\ low' = low /\ cells' = cells
      /\ stage' = stage /\ addr' = addr /\ buf' = buf /\ i' = i /\ (Writing' <=> Writing)
      /\ (Undisturbed' <=> Undisturbed)
  BY StaysUnsure DEF master, Calm, Writing
<1>1. (Off <=> Off') /\ (Lost <=> Lost') /\ (Parked <=> Parked') /\ (Between <=> Between')
      /\ (Fetched <=> Fetched') /\ (Holding <=> Holding')
  BY <1>0 DEF Off, Lost, Parked, Between, Fetched, Holding, Points
<1>2. \A m, d, c : Taking(m, d, c) <=> Taking(m, d, c)'
  BY <1>0 DEF Taking, Pointed, Points
<1>3. \A m, d : Acking(m, d) <=> Acking(m, d)'
  BY <1>0 DEF Acking, Pointed, Points
<1>4. \A k : (Feeding(k) <=> Feeding(k)') /\ (Got(k) <=> Got(k)')
  BY <1>0 DEF Feeding, Got
<1>5. (First => First') /\ (Again => Again')
  BY <1>0, <1>1, <1>2 DEF First, Again, Starting, Points
<1>6. ASSUME NEW m, NEW d, Sending(m, d) PROVE Sending(m, d)'
  BY <1>0, <1>1, <1>2, <1>6 DEF Sending
<1>7. ASSUME NEW m, NEW d, Waiting(m, d) PROVE Waiting(m, d)'
  BY <1>0, <1>1, <1>3, <1>7 DEF Waiting
<1>8. (GivingUp => GivingUp') /\ (Storing => Storing') /\ (Finishing => Finishing')
  <2>1. GivingUp => GivingUp'
    BY <1>0, <1>1 DEF GivingUp, Stopping
  <2>2. Storing => Storing'
    BY <1>0, <1>1 DEF Storing, Stopping
  <2>3. Finishing => Finishing'
    BY <1>0, <1>1 DEF Finishing, Stopping
  <2> QED BY <2>1, <2>2, <2>3
<1>9. Receives => Receives'
  <2>1. ReceivingBits => ReceivingBits'
    BY <1>0, <1>1, <1>4 DEF ReceivingBits
  <2>2. Declining => Declining'
    BY <1>0, <1>1 DEF Declining
  <2> QED BY <1>0, <2>1, <2>2 DEF Receives
<1>10. InDevice => InDevice'
  BY <1>0, <1>1, <1>2, <1>5, <1>6, <1>7, <1>8 DEF InDevice, Through
<1>11. PICK a, d : a = addr /\ addr' = a /\ d = buf[i + 1] /\ buf'[i' + 1] = d
  BY <1>0
<1>12. InWrite(d) => InWrite(d)'
  BY <1>0, <1>1, <1>6, <1>7, <1>8, <1>11 DEF InWrite, Through
<1>13. InAsk => InAsk'
  BY <1>0, <1>5, <1>6, <1>7, <1>8, <1>11 DEF InAsk
<1>14. InRead => InRead'
  BY <1>0, <1>1, <1>8, <1>9, <1>13 DEF InRead, Through
<1> QED BY <1>0, <1>1, <1>10, <1>11, <1>12, <1>14 DEF Bus, Through

LEMMA ReadyStep ==
  ASSUME Buses, ChipReady, Quietly
  PROVE  Buses'
<1>1. Calm /\ UNCHANGED <<master, chip, low, cells>> /\ busy' = FALSE
  BY Calmly DEF ChipReady
<1>2. Bus'
  BY <1>1, BusyApart DEF Buses
<1>3. TypeOK'
  <2>1. BusTypeOK'
    BY <1>1 DEF Buses, TypeOK, BusTypeOK, master
  <2> QED BY <2>1 DEF Buses, TypeOK, Quietly, driver, history
<1>4. Cycle'
  BY <1>1 DEF Cycle
<1>5. Arguments'
  BY DEF Buses, Arguments, Writing, Quietly, driver, history
<1> QED BY <1>2, <1>3, <1>4, <1>5 DEF Buses

-----------------------------------------------------------------------------
(* The driver's own steps.                                                 *)

\* Between two transfers, and with nothing under way.
LEMMA AtRest ==
  ASSUME Buses, stage \in {"idle", "loop"}
  PROVE  Through /\ Parked /\ ~(busy /\ Undisturbed)
  BY DEF Buses, Bus, Cycle

LEMMA RestStays ==
  ASSUME Through, Parked, UNCHANGED busVars, stage' \in {"idle", "loop"},
         ~(busy /\ Undisturbed'), Cycle
  PROVE  Bus' /\ Cycle'
  BY DEF Bus, Cycle, Through, Parked, Off, busVars, master, slave

Calls == {"write", "read", "check", "probe"}

LEMMA EnterStep ==
  ASSUME Buses, NEW name \in Calls, NEW a \in 0 .. EEPROM_ENDADDR,
         NEW b \in Seq(Bytes), NEW n \in Nat, Enter(name, a, b, n),
         IF name \in {"write", "check"} THEN n = Len(b) ELSE b = << >>,
         checked' \in {"none", "error", "ok"}, calls' \in 0 .. MaxCalls
  PROVE  Buses'
<1>1. /\ stage = "idle" /\ stage' = "loop" /\ call' = name /\ addr' = a /\ buf' = b
      /\ bufnum' = n /\ i' = 0 /\ rbuf' = << >> /\ before' = cells /\ from' = a
      /\ UNCHANGED <<busVars, late, resets>>
  BY DEF Enter
<1>2. Bus' /\ Cycle'
  BY <1>1, AtRest, RestStays DEF Buses, Undisturbed
<1>3. BusTypeOK'
  BY <1>1 DEF Buses, TypeOK, BusTypeOK, busVars, master, slave
<1>4. TypeOK'
  BY <1>1, <1>3, EepromAssumption DEF Buses, TypeOK, EepromAssumption, Calls
<1>5. Arguments'
  BY <1>1 DEF Buses, TypeOK, BusTypeOK, Arguments, Writing
<1> QED BY <1>2, <1>4, <1>5 DEF Buses

LEMMA StartStep ==
  ASSUME Buses,
         \/ \E a \in 0 .. EEPROM_ENDADDR, b \in Buffers : AT24CXX_write(a, b)
         \/ \E a \in 0 .. EEPROM_ENDADDR, n \in Lengths : AT24CXX_read(a, n)
         \/ AT24CXX_check
         \/ CheckRead
  PROVE  /\ Buses'
         /\ \E name \in Calls, a \in 0 .. EEPROM_ENDADDR, b \in Seq(Bytes), n \in Nat :
              /\ Enter(name, a, b, n)
              /\ IF name \in {"write", "check"} THEN n = Len(b) ELSE b = << >>
<1>0. /\ EEPROM_ENDADDR \in Nat /\ Buffers \subseteq Seq(Bytes) /\ Lengths \subseteq Nat
      /\ Probe \in Bytes /\ MaxCalls \in Nat /\ calls \in 0 .. MaxCalls
      /\ checked \in {"none", "error", "ok"}
  BY EepromAssumption, ByteFacts DEF EepromAssumption, Buses, TypeOK
<1>1. ASSUME NEW name \in {"write", "read", "check"}, NEW a \in 0 .. EEPROM_ENDADDR,
             NEW b \in Seq(Bytes), NEW n \in Nat, Start(name, a, b, n),
             IF name \in {"write", "check"} THEN n = Len(b) ELSE b = << >>
      PROVE  Buses' /\ Enter(name, a, b, n)
  <2>1. Enter(name, a, b, n) /\ checked' = "none" /\ calls' \in 0 .. MaxCalls
    BY <1>0, <1>1 DEF Start
  <2> QED BY <1>1, <2>1, EnterStep DEF Calls
<1> DEFINE Entered(name, a, b, n) ==
             /\ Enter(name, a, b, n)
             /\ IF name \in {"write", "check"} THEN n = Len(b) ELSE b = << >>
<1> HIDE DEF Entered
<1> DEFINE Goal ==
             /\ Buses'
             /\ \E name \in Calls, a \in 0 .. EEPROM_ENDADDR, b \in Seq(Bytes), n \in Nat :
                  Entered(name, a, b, n)
<1>2. ASSUME \E a \in 0 .. EEPROM_ENDADDR, b \in Buffers : AT24CXX_write(a, b) PROVE Goal
  <2>1. PICK a \in 0 .. EEPROM_ENDADDR, b \in Buffers : Start("write", a, b, Len(b))
    BY <1>2 DEF AT24CXX_write
  <2>2. b \in Seq(Bytes) /\ Len(b) \in Nat
    BY <1>0
  <2>3. Buses' /\ Enter("write", a, b, Len(b))
    BY <1>1, <2>1, <2>2
  <2>4. Entered("write", a, b, Len(b))
    BY <2>3 DEF Entered
  <2> QED BY <2>2, <2>3, <2>4 DEF Calls
<1>3. ASSUME \E a \in 0 .. EEPROM_ENDADDR, n \in Lengths : AT24CXX_read(a, n) PROVE Goal
  <2>1. PICK a \in 0 .. EEPROM_ENDADDR, n \in Lengths : Start("read", a, << >>, n)
    BY <1>3 DEF AT24CXX_read
  <2>2. << >> \in Seq(Bytes) /\ n \in Nat
    BY <1>0
  <2>3. Buses' /\ Enter("read", a, << >>, n)
    BY <1>1, <2>1, <2>2
  <2>4. Entered("read", a, << >>, n)
    BY <2>3 DEF Entered
  <2> QED BY <2>2, <2>3, <2>4 DEF Calls
<1>4. ASSUME AT24CXX_check PROVE Goal
  <2>1. Start("check", EEPROM_ENDADDR, <<Probe, Probe>>, 2)
    BY <1>4 DEF AT24CXX_check
  <2>2. <<Probe, Probe>> \in Seq(Bytes) /\ Len(<<Probe, Probe>>) = 2
        /\ EEPROM_ENDADDR \in 0 .. EEPROM_ENDADDR
    BY <1>0
  <2> DEFINE b == <<Probe, Probe>>
             n == 2
  <2>3. Start("check", EEPROM_ENDADDR, b, n) /\ b \in Seq(Bytes) /\ Len(b) = n /\ n \in Nat
    BY <2>1, <2>2
  <2> HIDE DEF b, n
  <2>4. Buses' /\ Enter("check", EEPROM_ENDADDR, b, n)
    BY <1>1, <2>2, <2>3
  <2>5. Entered("check", EEPROM_ENDADDR, b, n)
    BY <2>3, <2>4 DEF Entered
  <2> QED BY <2>2, <2>3, <2>4, <2>5 DEF Calls
<1>5. ASSUME CheckRead PROVE Goal
  <2>1. Enter("probe", 0, << >>, 1) /\ UNCHANGED <<checked, calls>>
    BY <1>5 DEF CheckRead
  <2>2. << >> \in Seq(Bytes) /\ 0 \in 0 .. EEPROM_ENDADDR
    BY <1>0
  <2>3. Buses'
    BY <1>0, <2>1, <2>2, EnterStep DEF Calls
  <2>4. Entered("probe", 0, << >>, 1)
    BY <2>1 DEF Entered
  <2> QED BY <2>2, <2>3, <2>4 DEF Calls
<1>6. Goal
  BY <1>2, <1>3, <1>4, <1>5
<1> QED BY <1>6 DEF Entered

LEMMA BeginStep ==
  ASSUME Buses, BeginByte
  PROVE  Buses'
<1>1. /\ stage = "loop" /\ stage' = "device" /\ i < bufnum /\ ret' = 0
      /\ todo' = <<Call("IIC_Start"), Send(DevWrite), WaitAck>>
      /\ UNCHANGED <<scl, out, odr, at, acked, slave, call, addr, buf, bufnum, i, rbuf,
                     checked, history, calls, resets>>
  BY DEF BeginByte, WaitAck
<1>2. Through /\ Parked /\ ~(busy /\ Undisturbed)
  BY <1>1, AtRest
<1>3. First'
  BY <1>1, <1>2 DEF First, Starting, Through, Parked, Off, slave
<1>4. Bus'
  BY <1>1, <1>3 DEF Bus, InDevice
<1>5. Cycle'
  BY <1>1, <1>2 DEF Buses, Cycle, Undisturbed, slave, history
<1>6. BusTypeOK'
  BY <1>1, ByteFacts DEF Buses, TypeOK, BusTypeOK, slave
<1>7. TypeOK'
  BY <1>1, <1>6 DEF Buses, TypeOK, history
<1>8. Arguments'
  BY <1>1 DEF Buses, Arguments, Writing, history
<1> QED BY <1>4, <1>5, <1>7, <1>8 DEF Buses

LEMMA AnsweredStep ==
  ASSUME Buses, DeviceAnswered
  PROVE  Buses' /\ todo' # << >>
<1>1. /\ stage = "device" /\ stage' = "transfer" /\ todo = << >> /\ acked
      /\ todo' = (IF Writing THEN WriteRest ELSE ReadRest)
      /\ UNCHANGED <<scl, out, odr, at, acked, ret, slave, call, addr, buf, bufnum, i, rbuf,
                     checked, history, calls, resets>>
  BY DEF DeviceAnswered
<1>2. /\ ret = 0 /\ at = 1 /\ scl = 0 /\ (Lost \/ Taking("word", 0, 0))
  <2>1. ret = 0 /\ InDevice
    BY <1>1 DEF Buses, Bus
  <2> QED BY <1>1, <2>1 DEF InDevice, Through
<1>3. Undisturbed' <=> Undisturbed
  BY <1>1 DEF Undisturbed, history
<1>4. Lost' \/ Taking("word", 0, 0)'
  BY <1>1, <1>2, <1>3 DEF Lost, Off, Taking, Pointed, slave
<1>5. addr \in Byte
  BY DriverFacts
<1>6. PICK a \in Byte : a = addr /\ addr' = a
  BY <1>1, <1>5
<1>7. Sending("word", a)'
  BY <1>1, <1>2, <1>4, SendBegins DEF Between
<1>8. PICK d : d = buf[i + 1] /\ buf'[i' + 1] = d
  BY <1>1
<1>9. ASSUME Writing PROVE Bus' /\ todo' # << >>
  <2>1. todo' = <<Send(a), WaitAck, Send(d), WaitAck, Stop>>
    BY <1>1, <1>6, <1>8, <1>9 DEF WriteRest, WaitAck, Stop
  <2>2. InWrite(d)'
    BY <1>6, <1>7, <2>1 DEF InWrite
  <2> QED BY <1>1, <1>8, <1>9, <2>1, <2>2 DEF Bus, Writing
<1>10. ASSUME ~Writing PROVE Bus' /\ todo' # << >>
  <2>1. todo' = <<Send(a), WaitAck, Call("IIC_Start"), Send(DevRead), WaitAck,
                  Call("IIC_ReceiveData"), Stop>>
    BY <1>1, <1>6, <1>10 DEF ReadRest, WaitAck, Stop
  <2>2. InAsk'
    BY <1>6, <1>7, <2>1 DEF InAsk
  <2> QED BY <1>1, <1>2, <1>10, <2>1, <2>2 DEF Bus, InRead, Writing
<1>11. Bus' /\ todo' # << >>
  BY <1>9, <1>10
<1>12. Cycle'
  BY <1>1, <1>3 DEF Buses, Cycle, slave
<1>13. BusTypeOK'
  BY <1>1 DEF Buses, TypeOK, BusTypeOK, slave
<1>14. TypeOK'
  BY <1>1, <1>13 DEF Buses, TypeOK, history
<1>15. Arguments'
  BY <1>1 DEF Buses, Arguments, Writing, history
<1> QED BY <1>11, <1>12, <1>14, <1>15 DEF Buses

\* What a read has collected with one byte more, and where it goes on.
LEMMA AdvanceTypes ==
  ASSUME TypeOK, Advance
  PROVE  /\ addr' \in 0 .. EEPROM_ENDADDR /\ i' \in 0 .. IndexWrap - 1 /\ rbuf' \in Seq(Byte)
         /\ stage' = "loop"
<1>1. /\ addr \in 0 .. EEPROM_ENDADDR /\ EEPROM_ENDADDR \in Nat /\ IndexWrap \in Nat \ {0}
      /\ i \in 0 .. IndexWrap - 1 /\ rbuf \in Seq(Byte) /\ ret \in Byte
  BY EepromAssumption, ByteFacts DEF TypeOK, BusTypeOK, EepromAssumption
<1>2. addr' \in 0 .. EEPROM_ENDADDR
  BY <1>1 DEF Advance, Rolled
<1>3. i' \in 0 .. IndexWrap - 1
  BY <1>1 DEF Advance
<1>4. rbuf' \in Seq(Byte)
  <2>1. Append(rbuf, ret) \in Seq(Byte)
    BY <1>1
  <2>2. ASSUME i < Len(rbuf) PROVE [rbuf EXCEPT ![i + 1] = ret] \in Seq(Byte)
    <3>1. rbuf \in [1 .. Len(rbuf) -> Byte] /\ Len(rbuf) \in Nat
      BY <1>1
    <3>2. [rbuf EXCEPT ![i + 1] = ret] \in [1 .. Len(rbuf) -> Byte]
      BY <1>1, <3>1
    <3> QED BY <3>1, <3>2
  <2> QED BY <1>1, <2>1, <2>2 DEF Advance, Collected
<1> QED BY <1>2, <1>3, <1>4 DEF Advance

LEMMA SilentStep ==
  ASSUME Buses, DeviceSilent
  PROVE  Buses' /\ ~Undisturbed /\ ~Undisturbed'
<1>1. /\ stage = "device" /\ todo = << >> /\ ~acked /\ Advance
      /\ UNCHANGED <<busVars, call, buf, bufnum, checked, history, calls, resets>>
  BY DEF DeviceSilent
<1>2. Through /\ Parked /\ ~Undisturbed
  BY <1>1 DEF Buses, Bus, InDevice, Through
<1>3. ~Undisturbed'
  BY <1>1, <1>2 DEF Undisturbed, history
<1>4. TypeOK'
  <2>1. BusTypeOK'
    BY <1>1 DEF Buses, TypeOK, BusTypeOK, busVars, master, slave
  <2> QED BY <1>1, <2>1, AdvanceTypes DEF Buses, TypeOK, history
<1>5. stage' = "loop"
  BY <1>1 DEF Advance
<1>6. Bus' /\ Cycle'
  BY <1>1, <1>2, <1>3, <1>5, RestStays DEF Buses
<1>7. Arguments'
  BY <1>1, <1>5 DEF Buses, Arguments, Writing, history
<1> QED BY <1>2, <1>3, <1>4, <1>6, <1>7 DEF Buses

LEMMA EndStep ==
  ASSUME Buses, EndByte
  PROVE  /\ Buses'
         /\ ~Writing => Fetched
<1>1. /\ stage = "transfer" /\ todo = << >> /\ Advance
      /\ late' = (late \/ (Writing /\ busy))
      /\ UNCHANGED <<busVars, call, buf, bufnum, checked, before, goal, from, calls, resets>>
  BY DEF EndByte
<1>2. Through /\ Parked /\ (~Writing => Fetched)
  <2>1. CASE Writing
    <3>1. PICK d : d = buf[i + 1]
      OBVIOUS
    <3>2. InWrite(d)
      BY <1>1, <2>1, <3>1 DEF Buses, Bus
    <3> QED BY <1>1, <2>1, <3>2 DEF InWrite, Through
  <2>2. CASE ~Writing
    <3>1. InRead
      BY <1>1, <2>2 DEF Buses, Bus
    <3> QED BY <1>1, <2>2, <3>1 DEF InRead, InAsk, Through
  <2> QED BY <2>1, <2>2
<1>3. ~(busy /\ Undisturbed')
  <2>1. busy /\ Undisturbed => Writing
    BY DEF Buses, Cycle
  <2> QED BY <1>1, <2>1 DEF Undisturbed
<1>4. TypeOK'
  <2>1. BusTypeOK'
    BY <1>1 DEF Buses, TypeOK, BusTypeOK, busVars, master, slave
  <2>2. late' \in BOOLEAN
    BY <1>1
  <2> QED BY <1>1, <2>1, <2>2, AdvanceTypes DEF Buses, TypeOK
<1>5. stage' = "loop"
  BY <1>1 DEF Advance
<1>6. Bus' /\ Cycle'
  BY <1>1, <1>2, <1>3, <1>5, RestStays DEF Buses
<1>7. Arguments'
  BY <1>1, <1>5 DEF Buses, Arguments, Writing
<1> QED BY <1>2, <1>4, <1>6, <1>7 DEF Buses

LEMMA ReturnStep ==
  ASSUME Buses, Return
  PROVE  Buses'
<1>1. /\ stage = "loop" /\ stage' = "idle" /\ checked' \in {"none", "error", "ok"}
      /\ UNCHANGED <<busVars, call, addr, buf, bufnum, i, rbuf, history, calls, resets>>
  BY DEF Return, Buses, TypeOK
<1>2. Through /\ Parked /\ ~(busy /\ Undisturbed)
  BY <1>1, AtRest
<1>3. Bus' /\ Cycle'
  BY <1>1, <1>2, RestStays DEF Buses, Undisturbed, history
<1>4. BusTypeOK'
  BY <1>1 DEF Buses, TypeOK, BusTypeOK, busVars, master, slave
<1>5. TypeOK'
  BY <1>1, <1>4 DEF Buses, TypeOK, history
<1>6. Arguments'
  BY <1>1 DEF Buses, Arguments, Writing, history
<1> QED BY <1>3, <1>5, <1>6 DEF Buses

LEMMA Begins == ASSUME Init PROVE Buses
<1>1. /\ scl = 1 /\ out = TRUE /\ odr = 1 /\ todo = << >> /\ at = 1 /\ acked = FALSE /\ ret = 0
      /\ chip = ChipOff /\ low = FALSE /\ busy = FALSE
      /\ cells \in [0 .. ChipCells - 1 -> Bytes]
      /\ call = "none" /\ stage = "idle" /\ addr = 0 /\ buf = << >> /\ bufnum = 0
      /\ i = 0 /\ rbuf = << >> /\ checked = "none" /\ before = cells /\ from = 0
      /\ late = FALSE /\ calls = 0 /\ resets = 0
  BY DEF Init, BusInit
<1>2. EEPROM_ENDADDR \in Nat /\ IndexWrap \in Nat \ {0} /\ MaxCalls \in Nat /\ MaxResets \in Nat
  BY EepromAssumption, ByteFacts DEF EepromAssumption
<1>3. cells \in [0 .. ChipCells - 1 -> Byte]
  BY <1>1, ByteFacts
<1>4. BusTypeOK
  <2>1. ChipOff \in Chips
    BY ChipValues, ByteFacts DEF ChipOff, Chips, Places
  <2>2. chip \in [mode : Modes, shift : Byte, count : 0 .. Bits, ninth : BOOLEAN,
                  pointer : 0 .. ChipCells - 1, latch : Byte \cup {-1}]
    BY <1>1, <2>1 DEF Chips, Counts, Places, Latches
  <2>3. ret \in Byte /\ at \in Nat \ {0}
    BY <1>1, ByteFacts
  <2> QED BY <1>1, <1>3, <2>2, <2>3 DEF BusTypeOK
<1>5. TypeOK
  <2>1. buf \in Seq(Bytes) /\ rbuf \in Seq(Byte)
    BY <1>1
  <2>2. addr \in 0 .. EEPROM_ENDADDR /\ i \in 0 .. IndexWrap - 1 /\ bufnum \in Nat
        /\ calls \in 0 .. MaxCalls /\ resets \in 0 .. MaxResets
    BY <1>1, <1>2
  <2> QED BY <1>1, <1>4, <2>1, <2>2 DEF TypeOK
<1>6. Bus /\ Cycle
  BY <1>1 DEF Bus, Cycle, Through, Parked, Off, ChipOff
<1>7. Arguments
  BY <1>1, <1>2, <1>3 DEF Arguments, Writing
<1> QED BY <1>5, <1>6, <1>7 DEF Buses

\* A step of the whole: the driver and its history stand still, or not.
LEMMA StepKeeps ==
  ASSUME Buses, [Next]_vars
  PROVE  /\ Buses'
         /\ cells' = cells \/ Lands
<1>1. CASE \/ \E a \in 0 .. EEPROM_ENDADDR, b \in Buffers : AT24CXX_write(a, b)
           \/ \E a \in 0 .. EEPROM_ENDADDR, n \in Lengths : AT24CXX_read(a, n)
           \/ AT24CXX_check
           \/ CheckRead
  <2>1. cells' = cells
    BY <1>1 DEF AT24CXX_write, AT24CXX_read, AT24CXX_check, CheckRead, Start, Enter,
                busVars, slave
  <2> QED BY <1>1, <2>1, StartStep
<1>2. CASE BeginByte
  BY <1>2, BeginStep DEF BeginByte, slave
<1>3. CASE DeviceAnswered
  BY <1>3, AnsweredStep DEF DeviceAnswered, slave
<1>4. CASE DeviceSilent
  BY <1>4, SilentStep DEF DeviceSilent, busVars, slave
<1>5. CASE EndByte
  BY <1>5, EndStep DEF EndByte, busVars, slave
<1>6. CASE Return
  BY <1>6, ReturnStep DEF Return, busVars, slave
<1>7. CASE PinOperation /\ Quietly
  BY <1>7, PinsStep
<1>8. CASE ChipReady /\ Quietly
  BY <1>8, ReadyStep DEF ChipReady
<1>9. CASE Disturb
  BY <1>9, DisturbStep
<1>10. CASE UNCHANGED vars
  <2>1. Calm /\ UNCHANGED <<master, chip, low, cells, busy>>
    BY <1>10 DEF vars, busVars, slave, driver, history, Calm
  <2>2. Bus'
    BY <2>1, BusyApart DEF Buses
  <2>3. BusTypeOK'
    BY <2>1 DEF Buses, TypeOK, BusTypeOK, master
  <2>4. TypeOK'
    BY <1>10, <2>3 DEF Buses, TypeOK, vars, driver, history
  <2>5. Cycle' /\ Arguments'
    BY <1>10, <2>1 DEF Buses, Cycle, Undisturbed, Calm, Arguments, Writing, vars, busVars,
                       driver, history, master
  <2> QED BY <2>1, <2>2, <2>4, <2>5 DEF Buses
<1> QED BY <1>1, <1>2, <1>3, <1>4, <1>5, <1>6, <1>7, <1>8, <1>9, <1>10 DEF Next, Driver

LEMMA AlwaysBuses == Spec => []Buses
<1>1. Init => Buses
  BY Begins
<1>2. Buses /\ [Next]_vars => Buses'
  BY StepKeeps
<1> QED BY <1>1, <1>2, PTL DEF Spec

-----------------------------------------------------------------------------
(***************************************************************************)
(* Every variable of the driver, the bus and the chip keeps its type: the  *)
(* loop index its width, the address its range, and the chip never counts  *)
(* more bits than a byte has.                                              *)
(***************************************************************************)
THEOREM TypeCorrect == Spec => []TypeOK
<1>1. Buses => TypeOK
  BY DEF Buses
<1> QED BY AlwaysBuses, <1>1, PTL

(***************************************************************************)
(* No bit and no acknowledge is ever taken from a line that the master and *)
(* the chip drive against each other.                                      *)
(***************************************************************************)
THEOREM NoBitDisputed == Spec => []NoDisputedBit
<1>1. ASSUME Buses, scl = 1, out, odr = 1, low PROVE FALSE
  <2>1. stage \in {"idle", "loop", "device", "transfer"}
    BY <1>1, DriverFacts
  <2>2. ~Lost /\ ~Off /\ ~Parked
    BY <1>1 DEF Lost, Off, Parked
  <2>3. \A m, d, c : ~Taking(m, d, c)
    BY <1>1 DEF Taking
  <2>4. ASSUME NEW m, NEW d, Sending(m, d) PROVE FALSE
    BY <1>1, <2>2, <2>3, <2>4 DEF Sending, Between
  <2>5. ASSUME NEW m, NEW d, Waiting(m, d) PROVE FALSE
    BY <1>1, <2>5 DEF Waiting
  <2>6. ASSUME First \/ Again PROVE FALSE
    BY <1>1, <2>2, <2>3, <2>6 DEF First, Again, Starting, Between
  <2>7. ~GivingUp /\ ~Storing /\ ~Finishing
    BY <1>1, <2>2 DEF GivingUp, Storing, Finishing, Stopping, Holding
  <2>8. ASSUME Receives PROVE FALSE
    <3>1. CASE at <= 3 * Bits + 2
      BY <1>1, <2>2, <2>8, <3>1 DEF Receives, ReceivingBits, Between
    <3>2. CASE at > 3 * Bits + 2
      BY <1>1, <2>2, <2>8, <3>2 DEF Receives, Declining
    <3> QED BY <2>8, <3>1, <3>2 DEF Receives
  <2>9. CASE stage \in {"idle", "loop"}
    BY <1>1, <2>2, <2>9 DEF Buses, Bus
  <2>10. CASE stage = "device"
    BY <1>1, <2>2, <2>4, <2>5, <2>6, <2>7, <2>10 DEF Buses, Bus, InDevice
  <2>11. CASE stage = "transfer" /\ Writing
    <3>1. PICK d : d = buf[i + 1]
      OBVIOUS
    <3>2. InWrite(d)
      BY <1>1, <2>11, <3>1 DEF Buses, Bus
    <3> QED BY <2>2, <2>4, <2>5, <2>7, <3>2 DEF InWrite
  <2>12. CASE stage = "transfer" /\ ~Writing
    <3>1. InRead
      BY <1>1, <2>12 DEF Buses, Bus
    <3> QED BY <2>2, <2>4, <2>5, <2>6, <2>7, <2>8, <3>1 DEF InRead, InAsk
  <2> QED BY <2>1, <2>9, <2>10, <2>11, <2>12
<1>2. Buses => NoDisputedBit
  BY <1>1 DEF NoDisputedBit
<1> QED BY AlwaysBuses, <1>2, PTL

(***************************************************************************)
(* Whatever went wrong in the transfer of a byte (no answer, a chip that   *)
(* lost its place in the middle of it or was still in a write cycle),      *)
(* behind it both lines are high and the chip waits for a START.           *)
(***************************************************************************)
THEOREM BusLeftFree == Spec => []BusFree
<1>1. Buses => BusFree
  BY DEF Buses, Bus, BusFree, Parked, Off
<1> QED BY AlwaysBuses, <1>1, PTL


-----------------------------------------------------------------------------
(* What is stored and what is read.                                        *)

LEMMA Greatest ==
  ASSUME NEW n \in Nat, NEW T \in SUBSET (1 .. n), T # {}
  PROVE  Max(T) \in T /\ \A k \in T : k <= Max(T)
<1> DEFINE R == {r \in Nat : n - r \in T}
<1>1. R \in SUBSET Nat /\ R # {} /\ \A j \in T : n - j \in R
  <2>1. \A j \in T : n - j \in Nat /\ n - (n - j) = j
    OBVIOUS
  <2> QED BY <2>1
<1>2. PICK r \in R : \A s \in R : r <= s
  <2> HIDE DEF R
  <2> QED BY <1>1, LeastNumber
<1>3. PICK k \in T : k = n - r
  BY <1>2
<1>4. ASSUME NEW j \in T PROVE k >= j
  <2>1. r <= n - j
    BY <1>1, <1>2
  <2> QED BY <1>2, <1>3, <2>1
<1>5. \E m \in T : \A j \in T : m >= j
  BY <1>4
<1>6. Max(T) \in T /\ \A j \in T : Max(T) >= j
  BY <1>5, Zenon DEF Max
<1> QED BY <1>6

LEMMA PlaceNext ==
  ASSUME NEW a \in 0 .. EEPROM_ENDADDR, NEW n \in Nat
  PROVE  /\ Place(a, 0) = a /\ Place(a, n) \in 0 .. EEPROM_ENDADDR
         /\ Place(a, n + 1) = IF Place(a, n) + 1 > EEPROM_ENDADDR THEN 0 ELSE Place(a, n) + 1
<1> DEFINE m == EEPROM_ENDADDR + 1
           q == (a + n) \div m
           r == (a + n) % m
<1>1. m \in Nat \ {0} /\ a \in 0 .. m - 1 /\ a + n \in Nat /\ a \in Nat
      /\ EEPROM_ENDADDR \in Nat /\ m = EEPROM_ENDADDR + 1
  BY ByteFacts
<1> HIDE DEF m
<1>2. q \in Nat /\ r \in 0 .. m - 1 /\ a + n = m * q + r
  BY <1>1, Division
<1>3. Place(a, 0) = a
  <2>1. a = m * 0 + a
    BY <1>1
  <2>2. a % m = a
    BY <1>1, <2>1, Quotient
  <2>3. a + 0 = a
    BY <1>1
  <2> QED BY <2>2, <2>3 DEF Place, m
<1>4. Place(a, n) = r
  BY DEF Place, m
<1> HIDE DEF q, r
<1>5. CASE r + 1 > EEPROM_ENDADDR
  <2>1. a + (n + 1) = m * (q + 1) + 0 /\ q + 1 \in Nat /\ a + (n + 1) \in Nat /\ 0 \in 0 .. m - 1
    BY <1>1, <1>2, <1>5
  <2>2. (a + (n + 1)) % m = 0
    BY <1>1, <2>1, Quotient
  <2> QED BY <1>1, <1>2, <1>3, <1>4, <1>5, <2>2 DEF Place, m
<1>6. CASE ~(r + 1 > EEPROM_ENDADDR)
  <2>1. a + (n + 1) = m * q + (r + 1) /\ a + (n + 1) \in Nat /\ r + 1 \in 0 .. m - 1
    BY <1>1, <1>2, <1>6
  <2>2. (a + (n + 1)) % m = r + 1
    BY <1>1, <1>2, <2>1, Quotient
  <2> QED BY <1>1, <1>2, <1>3, <1>4, <1>6, <2>2 DEF Place, m
<1> QED BY <1>5, <1>6

LEMMA Cut ==
  ASSUME NEW b \in Seq(Bytes), NEW n \in 0 .. Len(b)
  PROVE  /\ Len(SubSeq(b, 1, n)) = n /\ \A k \in 1 .. n : SubSeq(b, 1, n)[k] = b[k]
         /\ n = Len(b) => SubSeq(b, 1, n) = b
         /\ n = 0 => SubSeq(b, 1, n) = << >>
  OBVIOUS

LEMMA OverwriteNone ==
  ASSUME NEW f \in [0 .. ChipCells - 1 -> Byte], NEW a
  PROVE  Overwrite(f, a, << >>) = f
<1> DEFINE hits(c) == {k \in 1 .. Len(<< >>) : Place(a, k - 1) % ChipCells = c}
<1>1. \A c : hits(c) = {}
  OBVIOUS
<1>2. Overwrite(f, a, << >>) = [c \in 0 .. ChipCells - 1 |->
                                  IF hits(c) = {} THEN f[c] ELSE << >>[Max(hits(c))]]
  BY DEF Overwrite
<1> HIDE DEF hits
<1> QED BY <1>1, <1>2

LEMMA OverwriteNext ==
  ASSUME NEW f \in [0 .. ChipCells - 1 -> Byte], NEW a \in 0 .. EEPROM_ENDADDR,
         NEW b \in Seq(Bytes), NEW n \in Nat, n < Len(b),
         NEW p, p = Place(a, n) % ChipCells
  PROVE  Overwrite(f, a, SubSeq(b, 1, n + 1)) =
           [Overwrite(f, a, SubSeq(b, 1, n)) EXCEPT ![p] = b[n + 1]]
<1> DEFINE s == SubSeq(b, 1, n)
           t == SubSeq(b, 1, n + 1)
           hit(c, m) == {k \in 1 .. m : Place(a, k - 1) % ChipCells = c}
           g == [c \in 0 .. ChipCells - 1 |->
                   IF hit(c, n) = {} THEN f[c] ELSE s[Max(hit(c, n))]]
           h == [c \in 0 .. ChipCells - 1 |->
                   IF hit(c, n + 1) = {} THEN f[c] ELSE t[Max(hit(c, n + 1))]]
<1>1. /\ Len(s) = n /\ \A k \in 1 .. n : s[k] = b[k]
      /\ Len(t) = n + 1 /\ \A k \in 1 .. n + 1 : t[k] = b[k]
  BY Cut
<1> HIDE DEF s, t
<1>2. Overwrite(f, a, s) = g /\ Overwrite(f, a, t) = h
  BY <1>1 DEF Overwrite
<1>3. p \in 0 .. ChipCells - 1
  <2>1. Place(a, n) \in Nat /\ ChipCells \in Nat \ {0}
    BY PlaceNext, ByteFacts
  <2> QED BY <2>1, Division
<1>4. Place(a, (n + 1) - 1) % ChipCells = p
  <2>1. (n + 1) - 1 = n
    OBVIOUS
  <2> QED BY <2>1
<1>5. h[p] = b[n + 1]
  <2> DEFINE T == hit(p, n + 1)
  <2>1. n + 1 \in T /\ T \in SUBSET (1 .. n + 1) /\ T # {} /\ n + 1 \in Nat
    <3>1. n + 1 \in 1 .. n + 1
      OBVIOUS
    <3>2. n + 1 \in T
      BY <1>4, <3>1, Zenon
    <3>3. T \in SUBSET (1 .. n + 1)
      OBVIOUS
    <3> HIDE DEF T
    <3> QED BY <3>2, <3>3
  <2>2. h[p] = IF T = {} THEN f[p] ELSE t[Max(T)]
    BY <1>3
  <2> HIDE DEF T, h
  <2>3. Max(T) \in T /\ n + 1 <= Max(T)
    BY <2>1, Greatest
  <2>4. Max(T) = n + 1
    <3>1. Max(T) \in 1 .. n + 1
      BY <2>1, <2>3, Zenon
    <3> QED BY <2>3, <3>1
  <2> QED BY <1>1, <2>1, <2>2, <2>4
<1>6. ASSUME NEW c \in 0 .. ChipCells - 1, c # p PROVE h[c] = g[c]
  <2> DEFINE T == hit(c, n)
  <2>1. hit(c, n + 1) = T /\ T \in SUBSET (1 .. n)
    BY <1>4, <1>6
  <2>2. /\ h[c] = IF T = {} THEN f[c] ELSE t[Max(T)]
        /\ g[c] = IF T = {} THEN f[c] ELSE s[Max(T)]
    BY <2>1
  <2> HIDE DEF T, g, h
  <2>3. T # {} => Max(T) \in 1 .. n
    BY <2>1, Greatest
  <2> QED BY <1>1, <2>2, <2>3
<1> HIDE DEF g, h
<1>7. h = [g EXCEPT ![p] = b[n + 1]]
  <2>1. /\ h = [c \in 0 .. ChipCells - 1 |-> h[c]]
        /\ g = [c \in 0 .. ChipCells - 1 |-> g[c]]
    BY DEF g, h
  <2> QED BY <1>3, <1>5, <1>6, <2>1
<1> QED BY <1>2, <1>7 DEF s, t

\* A step that stores nothing and leaves the loop where it is.
LEMMA MemoryStays ==
  ASSUME Memory,
         UNCHANGED <<cells, goal, before, from, buf, bufnum, i, addr, rbuf, call>>,
         stage' = "idle" => bufnum <= i /\ bufnum < IndexWrap,
         Undisturbed' => Undisturbed /\ Landed' = Landed
  PROVE  Memory'
  BY DEF Memory, Writing

LEMMA MemoryEnters ==
  ASSUME TypeOK, NEW name, NEW a \in 0 .. EEPROM_ENDADDR, NEW b \in Seq(Bytes), NEW n \in Nat,
         Enter(name, a, b, n)
  PROVE  Memory'
<1>1. /\ stage' = "loop" /\ addr' = a /\ buf' = b /\ bufnum' = n /\ i' = 0 /\ rbuf' = << >>
      /\ before' = cells /\ goal' = Overwrite(cells, a, b) /\ from' = a /\ cells' = cells
  BY DEF Enter, busVars, slave
<1>2. Landed' = 0
  BY <1>1 DEF Landed
<1>3. Place(a, 0) = a
  BY PlaceNext
<1>4. Overwrite(cells, a, SubSeq(b, 1, 0)) = cells
  <2>1. cells \in [0 .. ChipCells - 1 -> Byte]
    BY DEF TypeOK, BusTypeOK
  <2>2. SubSeq(b, 1, 0) = << >>
    BY Cut
  <2> QED BY <2>1, <2>2, OverwriteNone
<1>5. << >> = [k \in 1 .. 0 |-> cells[Place(a, k - 1) % ChipCells]]
  OBVIOUS
<1> QED BY <1>1, <1>2, <1>3, <1>4, <1>5 DEF Memory

LEMMA MemoryLands ==
  ASSUME Buses, Memory, Lands, Quietly, todo # << >>
  PROVE  Memory'
<1>1. /\ stage = "transfer" /\ Writing /\ todo' = << >>
      /\ cells' = [cells EXCEPT ![addr % ChipCells] = buf[i + 1]]
      /\ UNCHANGED <<call, stage, addr, buf, bufnum, i, rbuf, goal, before, from, late, resets>>
  BY DEF Lands, Quietly, driver, history
<1>2. (Undisturbed' <=> Undisturbed) /\ Writing'
  BY <1>1 DEF Undisturbed, Writing
<1>3. Landed' = i + 1
  BY <1>1, <1>2 DEF Landed
<1>4. ASSUME bufnum < IndexWrap, Undisturbed
      PROVE  cells' = Overwrite(before, from, SubSeq(buf, 1, i + 1))
  <2>1. /\ i \in Nat /\ i < Len(buf) /\ buf \in Seq(Bytes) /\ from \in 0 .. EEPROM_ENDADDR
        /\ before \in [0 .. ChipCells - 1 -> Byte]
    BY <1>1, EepromAssumption, DriverFacts
       DEF Buses, Arguments, TypeOK, EepromAssumption
  <2>2. addr = Place(from, i)
    BY <1>4 DEF Memory
  <2>3. cells = Overwrite(before, from, SubSeq(buf, 1, i))
    BY <1>1, <1>4 DEF Memory, Landed
  <2>4. Overwrite(before, from, SubSeq(buf, 1, i + 1)) =
          [Overwrite(before, from, SubSeq(buf, 1, i)) EXCEPT
             ![Place(from, i) % ChipCells] = buf[i + 1]]
    <3>1. PICK f \in [0 .. ChipCells - 1 -> Byte], a \in 0 .. EEPROM_ENDADDR,
               b \in Seq(Bytes), n \in Nat :
            f = before /\ a = from /\ b = buf /\ n = i /\ n < Len(b)
      BY <2>1, Zenon
    <3> DEFINE p == Place(a, n) % ChipCells
    <3>2. p = Place(a, n) % ChipCells
      OBVIOUS
    <3> HIDE DEF p
    <3>3. Overwrite(f, a, SubSeq(b, 1, n + 1)) =
            [Overwrite(f, a, SubSeq(b, 1, n)) EXCEPT ![p] = b[n + 1]]
      BY <3>1, <3>2, OverwriteNext
    <3> QED BY <3>1, <3>2, <3>3
  <2> QED BY <1>1, <2>2, <2>3, <2>4
<1> QED BY <1>1, <1>2, <1>3, <1>4 DEF Memory

LEMMA MemoryAdvances ==
  ASSUME Buses, Memory, Advance, i < bufnum,
         UNCHANGED <<cells, goal, before, from, buf, bufnum, call>>,
         Undisturbed' => /\ Undisturbed /\ stage = "transfer" /\ todo = << >>
                         /\ ~Writing => Fetched
  PROVE  Memory'
<1>1. /\ stage' = "loop" /\ rbuf' = Collected /\ i' = (i + 1) % IndexWrap
      /\ addr' = IF addr + 1 > EEPROM_ENDADDR THEN 0 ELSE addr + 1
      /\ (Writing' <=> Writing)
  BY DEF Advance, Rolled, Writing
<1>2. /\ i \in Nat /\ from \in 0 .. EEPROM_ENDADDR /\ IndexWrap \in Nat \ {0} /\ bufnum \in Nat
      /\ rbuf \in Seq(Byte) /\ buf \in Seq(Bytes) /\ before \in [0 .. ChipCells - 1 -> Byte]
  BY EepromAssumption DEF Buses, Arguments, TypeOK, EepromAssumption
<1>3. ASSUME bufnum < IndexWrap
      PROVE  /\ i' = i + 1 /\ i + 1 <= bufnum /\ addr = Place(from, i)
             /\ addr' = Place(from, i + 1)
  <2>1. addr = Place(from, i)
    BY <1>3 DEF Memory
  <2>2. i + 1 \in 0 .. IndexWrap - 1 /\ i + 1 \in Nat /\ i + 1 = IndexWrap * 0 + (i + 1)
        /\ i + 1 <= bufnum
    BY <1>2, <1>3
  <2>3. (i + 1) % IndexWrap = i + 1
    BY <1>2, <2>2, Quotient
  <2>4. addr' = Place(from, i + 1)
    BY <1>1, <1>2, <2>1, PlaceNext
  <2> QED BY <1>1, <2>1, <2>2, <2>3, <2>4
<1>4. ASSUME bufnum < IndexWrap, Undisturbed'
      PROVE  cells' = Overwrite(before', from', SubSeq(buf', 1, Landed'))
  <2>1. Landed' = Landed
    BY <1>1, <1>3, <1>4 DEF Landed
  <2> QED BY <1>4, <2>1 DEF Memory
<1>5. ASSUME bufnum < IndexWrap, Undisturbed', ~Writing
      PROVE  rbuf' = [k \in 1 .. i + 1 |-> before[Place(from, k - 1) % ChipCells]]
  <2> DEFINE g(k) == before[Place(from, k - 1) % ChipCells]
  <2>1. cells = before
    <3>1. cells = Overwrite(before, from, SubSeq(buf, 1, 0))
      BY <1>4, <1>5 DEF Memory, Landed
    <3>2. SubSeq(buf, 1, 0) = << >>
      BY <1>2, Cut
    <3> QED BY <1>2, <3>1, <3>2, OverwriteNone
  <2>2. ret = g(i + 1)
    <3>1. ret = cells[addr % ChipCells]
      BY <1>5 DEF Fetched
    <3>2. (i + 1) - 1 = i
      BY <1>2
    <3> QED BY <1>3, <1>5, <2>1, <3>1, <3>2
  <2>3. rbuf = [k \in 1 .. i |-> g(k)]
    BY <1>5 DEF Memory
  <2> HIDE DEF g
  <2>4. Len(rbuf) = i
    BY <1>2, <2>3
  <2>5. rbuf' = Append(rbuf, ret)
    BY <1>1, <1>2, <1>5, <2>4 DEF Collected
  <2>6. Append(rbuf, ret) = [k \in 1 .. i + 1 |-> g(k)]
    BY <1>2, <2>2, <2>3, <2>4
  <2> QED BY <2>5, <2>6 DEF g
<1>6. ASSUME bufnum < IndexWrap, Undisturbed', ~Writing
      PROVE  rbuf' = [k \in 1 .. i' |-> before'[Place(from', k - 1) % ChipCells]]
  BY <1>3, <1>5, <1>6
<1> QED BY <1>1, <1>3, <1>4, <1>6 DEF Memory

LEMMA MemoryKept ==
  ASSUME Buses, Memory, [Next]_vars
  PROVE  Memory'
<1>1. CASE \/ \E a \in 0 .. EEPROM_ENDADDR, b \in Buffers : AT24CXX_write(a, b)
           \/ \E a \in 0 .. EEPROM_ENDADDR, n \in Lengths : AT24CXX_read(a, n)
           \/ AT24CXX_check
           \/ CheckRead
  <2>1. PICK name \in Calls, a \in 0 .. EEPROM_ENDADDR, b \in Seq(Bytes), n \in Nat :
          Enter(name, a, b, n)
    BY <1>1, StartStep
  <2> QED BY <2>1, MemoryEnters DEF Buses
<1>2. CASE BeginByte
  <2>1. Landed' = Landed /\ (Undisturbed' <=> Undisturbed) /\ stage' = "device"
        /\ UNCHANGED <<cells, goal, before, from, buf, bufnum, i, addr, rbuf, call>>
    BY <1>2 DEF BeginByte, Landed, Writing, Undisturbed, slave, history
  <2> QED BY <2>1, MemoryStays
<1>3. CASE DeviceAnswered
  <2>1. /\ stage = "device" /\ stage' = "transfer" /\ (Undisturbed' <=> Undisturbed)
        /\ UNCHANGED <<cells, goal, before, from, buf, bufnum, i, addr, rbuf, call>>
    BY <1>3 DEF DeviceAnswered, Undisturbed, slave, history
  <2>2. Landed' = Landed
    BY <1>3, <2>1, AnsweredStep DEF Landed, Writing
  <2> QED BY <2>1, <2>2, MemoryStays
<1>4. CASE DeviceSilent
  <2>1. /\ Advance /\ stage = "device" /\ ~Undisturbed'
        /\ UNCHANGED <<cells, goal, before, from, buf, bufnum, call>>
    BY <1>4, SilentStep DEF DeviceSilent, busVars, slave, history
  <2>2. i < bufnum
    BY <2>1 DEF Buses, Arguments
  <2> QED BY <2>1, <2>2, MemoryAdvances
<1>5. CASE EndByte
  <2>1. /\ Advance /\ stage = "transfer" /\ todo = << >> /\ (Undisturbed' => Undisturbed)
        /\ UNCHANGED <<cells, goal, before, from, buf, bufnum, call>>
    BY <1>5 DEF EndByte, Undisturbed, busVars, slave
  <2>2. i < bufnum /\ (~Writing => Fetched)
    BY <1>5, <2>1, EndStep DEF Buses, Arguments
  <2> QED BY <2>1, <2>2, MemoryAdvances
<1>6. CASE Return
  <2>1. /\ stage = "loop" /\ stage' = "idle" /\ i >= bufnum /\ (Undisturbed' <=> Undisturbed)
        /\ UNCHANGED <<cells, goal, before, from, buf, bufnum, i, addr, rbuf, call>>
    BY <1>6 DEF Return, Undisturbed, busVars, slave, history
  <2>2. bufnum <= i /\ bufnum < IndexWrap
    <3>1. i \in 0 .. IndexWrap - 1 /\ bufnum \in Nat /\ IndexWrap \in Nat
      BY EepromAssumption DEF Buses, TypeOK, EepromAssumption
    <3> QED BY <2>1, <3>1
  <2>3. Landed' = Landed
    BY <2>1 DEF Landed, Writing
  <2> QED BY <2>1, <2>2, <2>3, MemoryStays
<1>7. CASE PinOperation /\ Quietly
  <2>1. /\ UNCHANGED <<goal, before, from, buf, bufnum, i, addr, rbuf, call, stage>>
        /\ (Undisturbed' <=> Undisturbed) /\ (Writing' <=> Writing) /\ todo # << >>
    BY <1>7, Runs DEF Quietly, driver, history, Undisturbed, Writing
  <2>2. CASE Lands
    BY <1>7, <2>1, <2>2, MemoryLands
  <2>3. CASE cells' = cells /\ (stage = "transfer" /\ Writing /\ todo' = << >> => ~Undisturbed)
    <3>1. Undisturbed => Landed' = Landed
      BY <2>1, <2>3 DEF Landed
    <3>2. stage' = "idle" => bufnum <= i /\ bufnum < IndexWrap
      BY <2>1 DEF Memory
    <3> QED BY <2>1, <2>3, <3>1, <3>2, MemoryStays
  <2> QED BY <1>7, <2>2, <2>3, PinsStep
<1>8. CASE \/ ChipReady /\ Quietly
           \/ Disturb
           \/ UNCHANGED vars
  <2>1. /\ UNCHANGED <<cells, goal, before, from, buf, bufnum, i, addr, rbuf, call, stage, todo>>
        /\ Undisturbed' => Undisturbed
    <3>1. CASE ChipReady /\ Quietly
      BY <3>1 DEF ChipReady, Quietly, driver, history, Undisturbed, master
    <3>2. CASE Disturb
      BY <3>2, DisturbStep DEF driver, history, master
    <3>3. CASE UNCHANGED vars
      BY <3>3 DEF vars, busVars, slave, master, driver, history, Undisturbed
    <3> QED BY <1>8, <3>1, <3>2, <3>3
  <2>2. Landed' = Landed
    BY <2>1 DEF Landed, Writing
  <2>3. stage' = "idle" => bufnum <= i /\ bufnum < IndexWrap
    BY <2>1 DEF Memory
  <2> QED BY <2>1, <2>2, <2>3, MemoryStays
<1> QED BY <1>1, <1>2, <1>3, <1>4, <1>5, <1>6, <1>7, <1>8 DEF Next, Driver

LEMMA MemoryBegins == ASSUME Init PROVE Memory
<1>1. /\ cells \in [0 .. ChipCells - 1 -> Bytes] /\ before = cells /\ goal = cells
      /\ call = "none" /\ stage = "idle" /\ addr = 0 /\ buf = << >> /\ bufnum = 0 /\ i = 0
      /\ rbuf = << >> /\ from = 0
  BY DEF Init, BusInit
<1>2. cells \in [0 .. ChipCells - 1 -> Byte] /\ IndexWrap \in Nat \ {0} /\ EEPROM_ENDADDR \in Nat
  BY <1>1, ByteFacts, EepromAssumption DEF EepromAssumption
<1>3. Overwrite(cells, 0, << >>) = cells
  BY <1>2, OverwriteNone
<1>4. Place(0, 0) = 0
  BY <1>2, PlaceNext
<1>5. SubSeq(<< >>, 1, 0) = << >> /\ << >> = [k \in 1 .. 0 |-> cells[Place(0, k - 1) % ChipCells]]
  OBVIOUS
<1>6. Landed = 0 /\ ~Writing
  BY <1>1 DEF Landed, Writing
<1>7. goal = Overwrite(before, from, buf)
  BY <1>1, <1>3
<1>8. cells = Overwrite(before, from, SubSeq(buf, 1, Landed))
  BY <1>1, <1>3, <1>5, <1>6
<1>9. rbuf = [k \in 1 .. i |-> before[Place(from, k - 1) % ChipCells]]
  BY <1>1, <1>5
<1> QED BY <1>1, <1>2, <1>4, <1>7, <1>8, <1>9 DEF Memory

LEMMA AlwaysMemory == Spec => [](Buses /\ Memory)
<1>1. Init => Buses /\ Memory
  BY Begins, MemoryBegins
<1>2. Buses /\ Memory /\ [Next]_vars => (Buses /\ Memory)'
  BY StepKeeps, MemoryKept
<1> QED BY <1>1, <1>2, PTL DEF Spec

(***************************************************************************)
(* A write that nothing disturbed (the chip kept its place, and no write   *)
(* cycle outlasted the delay loop) ends with the chip as it was at the     *)
(* call, but for the bytes of the buffer, from the address on and round    *)
(* the end of the chip.                                                    *)
(***************************************************************************)
THEOREM WritesLand == Spec => []WriteLands
<1>1. ASSUME Buses, Memory, stage = "idle", Undisturbed PROVE cells = goal
  <2>1. i \in Nat /\ bufnum \in Nat /\ buf \in Seq(Bytes)
    BY <1>1, EepromAssumption DEF Buses, TypeOK, EepromAssumption
  <2>2. /\ i = bufnum /\ goal = Overwrite(before, from, buf)
        /\ cells = Overwrite(before, from, SubSeq(buf, 1, Landed))
    BY <1>1, <2>1 DEF Memory
  <2>3. Landed = Len(buf)
    <3>1. CASE Writing
      BY <1>1, <2>2, <3>1 DEF Buses, Arguments, Landed
    <3>2. CASE ~Writing
      BY <1>1, <3>2 DEF Buses, Arguments, Landed
    <3> QED BY <3>1, <3>2
  <2>4. SubSeq(buf, 1, Len(buf)) = buf
    BY <2>1, Cut
  <2> QED BY <2>2, <2>3, <2>4
<1>2. Buses /\ Memory => WriteLands
  BY <1>1 DEF WriteLands
<1> QED BY AlwaysMemory, <1>2, PTL

(***************************************************************************)
(* A read that nothing disturbed returns the bytes the chip held at the    *)
(* call, from the address on and round the end of the chip.                *)
(***************************************************************************)
THEOREM ReadsReturn == Spec => []ReadReturns
<1>1. ASSUME Buses, Memory, stage = "idle", call = "read", Undisturbed
      PROVE  rbuf = [k \in 1 .. bufnum |-> before[Place(from, k - 1) % ChipCells]]
  <2>1. i \in Nat /\ bufnum \in Nat /\ ~Writing
    BY <1>1, EepromAssumption DEF Buses, TypeOK, EepromAssumption, Writing
  <2>2. i = bufnum /\ rbuf = [k \in 1 .. i |-> before[Place(from, k - 1) % ChipCells]]
    BY <1>1, <2>1 DEF Memory
  <2> QED BY <2>2
<1>2. Buses /\ Memory => ReadReturns
  BY <1>1 DEF ReadReturns
<1> QED BY AlwaysMemory, <1>2, PTL

-----------------------------------------------------------------------------
(* The driver implements EepromStore.                                      *)

\* The mapped variables.
Work == IF stage = "idle" THEN "none" ELSE IF Writing THEN "write" ELSE "read"
PlaceNow == IF Settled THEN Rolled ELSE addr
IndexNow == IF Settled THEN (i + 1) % IndexWrap ELSE i
Step == [Store!StoreNext]_(Store!storeVars)

\* Nothing happens there but, perhaps, a disturbance.
LEMMA Stands ==
  ASSUME UNCHANGED <<cells, Work, buf, bufnum, PlaceNow, IndexNow, rbuf>>,
         Undisturbed' => Undisturbed
  PROVE  Step
<1>1. CASE Undisturbed' = Undisturbed
  BY <1>1 DEF Step, Store!storeVars, Store!call, Work, PlaceNow, IndexNow
<1>2. CASE ~Undisturbed'
  <2>1. Store!Disturb
    BY <1>2 DEF Store!Disturb, Store!call, Work, PlaceNow, IndexNow
  <2> QED BY <2>1 DEF Step, Store!StoreNext
<1>3. Undisturbed \in BOOLEAN /\ Undisturbed' \in BOOLEAN
  BY DEF Undisturbed
<1> QED BY <1>1, <1>2, <1>3

\* The byte that comes next is done with.
Passes ==
  /\ ~Settled /\ i < bufnum
  /\ PlaceNow' = Rolled /\ IndexNow' = (i + 1) % IndexWrap
  /\ UNCHANGED <<Work, buf, bufnum>> /\ Undisturbed' = Undisturbed

LEMMA PassesByte == ASSUME Buses, Passes PROVE Store!NextByte
<1>1. addr \in 0 .. EEPROM_ENDADDR /\ EEPROM_ENDADDR \in Nat
  BY ByteFacts DEF Buses, TypeOK
<1>2. Rolled = IF addr = EEPROM_ENDADDR THEN 0 ELSE addr + 1
  BY <1>1 DEF Rolled
<1>3. PlaceNow = addr /\ IndexNow = i
  BY DEF Passes, PlaceNow, IndexNow
<1> QED BY <1>2, <1>3 DEF Passes, Store!NextByte, Store!call, Work, PlaceNow, IndexNow

LEMMA PutsByte ==
  ASSUME Buses, Passes, Work = "write", rbuf' = rbuf,
         \/ cells' = [cells EXCEPT ![addr % ChipCells] = buf[i + 1]]
         \/ cells' = cells /\ ~Undisturbed
  PROVE  Step
<1>1. Store!NextByte
  BY PassesByte
<1>2. PlaceNow = addr /\ IndexNow = i
  BY DEF Passes, PlaceNow, IndexNow
<1>3. CASE cells' = [cells EXCEPT ![addr % ChipCells] = buf[i + 1]]
  <2>1. Store!Put
    BY <1>1, <1>2, <1>3 DEF Store!Put, Work, PlaceNow, IndexNow
  <2> QED BY <2>1 DEF Step, Store!StoreNext
<1>4. CASE cells' = cells /\ ~Undisturbed
  <2>1. Store!Miss
    BY <1>1, <1>4 DEF Store!Miss, Work
  <2> QED BY <2>1 DEF Step, Store!StoreNext
<1> QED BY <1>3, <1>4

LEMMA GetsByte ==
  ASSUME Buses, Passes, Work = "read", ~Writing, cells' = cells, rbuf' = Collected,
         Undisturbed => Fetched
  PROVE  Step
<1>1. Store!NextByte
  BY PassesByte
<1>2. PlaceNow = addr /\ IndexNow = i
  BY DEF Passes, PlaceNow, IndexNow
<1>3. ret \in Byte
  BY DEF Buses, TypeOK, BusTypeOK
<1>4. rbuf' = IF i < Len(rbuf) THEN [rbuf EXCEPT ![i + 1] = ret] ELSE Append(rbuf, ret)
  BY DEF Collected
<1>5. ~Undisturbed \/ ret = cells[addr % ChipCells]
  BY DEF Fetched
<1>6. Store!Get
  BY <1>1, <1>2, <1>3, <1>4, <1>5 DEF Store!Get, Work, PlaceNow, IndexNow
<1> QED BY <1>6 DEF Step, Store!StoreNext

LEMMA BeginsCall ==
  ASSUME Buses, NEW name \in Calls, NEW a \in 0 .. EEPROM_ENDADDR, NEW b \in Seq(Bytes),
         NEW n \in Nat, Enter(name, a, b, n),
         IF name \in {"write", "check"} THEN n = Len(b) ELSE b = << >>
  PROVE  Step
<1>1. /\ stage = "idle" /\ stage' = "loop" /\ call' = name /\ addr' = a /\ buf' = b
      /\ bufnum' = n /\ i' = 0 /\ rbuf' = << >>
      /\ UNCHANGED <<busVars, late, resets>>
  BY DEF Enter
<1>2. /\ Work = "none" /\ ~Settled /\ ~Settled'
      /\ Undisturbed' = Undisturbed /\ cells' = cells
  <2>1. Work = "none" /\ ~Settled /\ ~Settled'
    BY <1>1 DEF Work, Settled
  <2>2. Undisturbed' = Undisturbed
    <3>1. UNCHANGED <<late, resets>>
      BY <1>1
    <3> QED BY <3>1 DEF Undisturbed
  <2>3. cells' = cells
    BY <1>1 DEF busVars, slave
  <2> QED BY <2>1, <2>2, <2>3
<1>3. b \in Seq(Byte)
  BY ByteFacts, SeqMonotonic, Zenon
<1>4. \/ Work' = "write" /\ n = Len(b)
      \/ Work' = "read" /\ b = << >>
  BY <1>1 DEF Work, Writing, Calls
<1>5. PlaceNow' = a /\ IndexNow' = 0
  BY <1>1, <1>2 DEF PlaceNow, IndexNow
<1>6. Store!Begin
  BY <1>1, <1>2, <1>3, <1>4, <1>5 DEF Store!Begin, Work, PlaceNow, IndexNow
<1> QED BY <1>6 DEF Step, Store!StoreNext

LEMMA EndsCall == ASSUME Buses, Return PROVE Step
<1>1. /\ stage = "loop" /\ stage' = "idle" /\ i >= bufnum
      /\ UNCHANGED <<busVars, call, addr, buf, bufnum, i, rbuf, history, calls, resets>>
  BY DEF Return
<1>2. /\ Work # "none" /\ Work' = "none" /\ ~Settled /\ ~Settled'
      /\ Undisturbed' = Undisturbed /\ cells' = cells
  BY <1>1 DEF Work, Settled, Undisturbed, busVars, slave, history
<1>3. PlaceNow' = PlaceNow /\ IndexNow' = IndexNow /\ IndexNow = i
  BY <1>1, <1>2 DEF PlaceNow, IndexNow
<1>4. Store!End
  BY <1>1, <1>2, <1>3 DEF Store!End, Work, PlaceNow, IndexNow
<1> QED BY <1>4 DEF Step, Store!StoreNext

\* The end of the loop's body, with the byte done with before, or now.
LEMMA AdvancesStore ==
  ASSUME Buses, Advance, i < bufnum, stage # "idle",
         UNCHANGED <<cells, call, buf, bufnum>>,
         Undisturbed' => Undisturbed,
         \/ Settled
         \/ ~Settled /\ Undisturbed' = Undisturbed /\ (Writing => ~Undisturbed)
            /\ (~Writing => (Undisturbed => Fetched))
  PROVE  Step
<1>1. /\ stage' = "loop" /\ rbuf' = Collected /\ addr' = Rolled
      /\ i' = (i + 1) % IndexWrap /\ (Writing' <=> Writing)
  BY DEF Advance, Writing
<1>2. ~Settled' /\ Work' = Work
  BY <1>1 DEF Settled, Work
<1>3. PlaceNow' = Rolled /\ IndexNow' = (i + 1) % IndexWrap
  BY <1>1, <1>2 DEF PlaceNow, IndexNow
<1>4. Writing => Collected = rbuf
  BY DEF Collected
<1>5. CASE Settled
  <2>1. Writing /\ PlaceNow' = PlaceNow /\ IndexNow' = IndexNow
    BY <1>3, <1>5 DEF Settled, PlaceNow, IndexNow
  <2> QED BY <1>1, <1>2, <1>4, <2>1, Stands
<1>6. CASE ~Settled
  <2>1. Passes
    BY <1>2, <1>3, <1>6 DEF Passes
  <2>2. CASE Writing
    BY <1>1, <1>4, <1>6, <2>1, <2>2, PutsByte DEF Work
  <2>3. CASE ~Writing
    BY <1>1, <1>6, <2>1, <2>3, GetsByte DEF Work
  <2> QED BY <2>2, <2>3
<1> QED BY <1>5, <1>6

LEMMA PinsStore == ASSUME Buses, PinOperation, Quietly PROVE Step
<1>1. /\ UNCHANGED <<stage, call, addr, buf, bufnum, i, rbuf>> /\ Undisturbed' = Undisturbed
      /\ (Writing' <=> Writing) /\ todo # << >> /\ Work' = Work /\ Rolled' = Rolled
  BY Runs DEF Quietly, driver, history, Undisturbed, Writing, Work, Rolled
<1>2. /\ ~Settled
      /\ Settled' <=> stage = "transfer" /\ Writing /\ todo' = << >>
  BY <1>1 DEF Settled
<1>3. CASE Settled'
  <2>1. Work = "write" /\ i < bufnum
    BY <1>2, <1>3, DriverFacts DEF Work
  <2>2. Passes
    BY <1>1, <1>2, <1>3, <2>1 DEF Passes, PlaceNow, IndexNow
  <2>3. \/ cells' = [cells EXCEPT ![addr % ChipCells] = buf[i + 1]]
        \/ cells' = cells /\ ~Undisturbed
    BY <1>2, <1>3, PinsStep DEF Lands
  <2> QED BY <1>1, <2>1, <2>2, <2>3, PutsByte
<1>4. CASE ~Settled'
  <2>1. cells' = cells
    BY <1>2, <1>4, PinsStep DEF Lands
  <2>2. PlaceNow' = PlaceNow /\ IndexNow' = IndexNow
    BY <1>1, <1>2, <1>4 DEF PlaceNow, IndexNow
  <2> QED BY <1>1, <2>1, <2>2, Stands
<1> QED BY <1>3, <1>4

LEMMA StepStore == ASSUME Buses, [Next]_vars PROVE Step
<1>1. CASE \/ \E a \in 0 .. EEPROM_ENDADDR, b \in Buffers : AT24CXX_write(a, b)
           \/ \E a \in 0 .. EEPROM_ENDADDR, n \in Lengths : AT24CXX_read(a, n)
           \/ AT24CXX_check
           \/ CheckRead
  <2>1. PICK name \in Calls, a \in 0 .. EEPROM_ENDADDR, b \in Seq(Bytes), n \in Nat :
          /\ Enter(name, a, b, n)
          /\ IF name \in {"write", "check"} THEN n = Len(b) ELSE b = << >>
    BY <1>1, StartStep
  <2> QED BY <2>1, BeginsCall
<1>2. CASE BeginByte \/ DeviceAnswered
  <2>1. /\ stage # "idle" /\ stage' # "idle" /\ ~Settled /\ ~Settled'
        /\ UNCHANGED <<cells, call, addr, buf, bufnum, i, rbuf, late, resets>>
    <3>1. CASE BeginByte
      BY <3>1 DEF BeginByte, Settled, slave, history
    <3>2. CASE DeviceAnswered
      BY <3>2, AnsweredStep DEF DeviceAnswered, Settled, slave, history
    <3> QED BY <1>2, <3>1, <3>2
  <2>2. UNCHANGED <<Work, PlaceNow, IndexNow>> /\ (Undisturbed' => Undisturbed)
    BY <2>1 DEF Work, Writing, PlaceNow, IndexNow, Undisturbed
  <2> QED BY <2>1, <2>2, Stands
<1>3. CASE DeviceSilent
  <2>1. /\ Advance /\ stage = "device" /\ ~Settled /\ i < bufnum
        /\ UNCHANGED <<cells, call, buf, bufnum, late, resets>>
    BY <1>3 DEF DeviceSilent, Settled, Buses, Arguments, busVars, slave, history
  <2>2. ~Undisturbed /\ Undisturbed' = Undisturbed
    BY <1>3, <2>1, SilentStep DEF Undisturbed
  <2> QED BY <2>1, <2>2, AdvancesStore
<1>4. CASE EndByte
  <2>1. /\ Advance /\ stage = "transfer" /\ todo = << >> /\ i < bufnum
        /\ UNCHANGED <<cells, call, buf, bufnum, resets>>
        /\ late' = (late \/ (Writing /\ busy)) /\ late \in BOOLEAN
    BY <1>4 DEF EndByte, Buses, TypeOK, Arguments, busVars, slave
  <2>2. Undisturbed' => Undisturbed
    BY <2>1 DEF Undisturbed
  <2>3. CASE Writing
    <3>1. Settled
      BY <2>1, <2>3 DEF Settled
    <3> QED BY <2>1, <2>2, <3>1, AdvancesStore
  <2>4. CASE ~Writing
    <3>1. ~Settled /\ Undisturbed' = Undisturbed /\ Fetched
      BY <1>4, <2>1, <2>4, EndStep DEF Settled, Undisturbed
    <3> QED BY <2>1, <2>2, <2>4, <3>1, AdvancesStore
  <2> QED BY <2>3, <2>4
<1>5. CASE Return
  BY <1>5, EndsCall
<1>6. CASE PinOperation /\ Quietly
  BY <1>6, PinsStore
<1>7. CASE \/ ChipReady /\ Quietly
           \/ Disturb
           \/ UNCHANGED vars
  <2>1. /\ UNCHANGED <<cells, call, addr, buf, bufnum, i, rbuf, stage, todo>>
        /\ Undisturbed' => Undisturbed
    <3>1. CASE ChipReady /\ Quietly
      BY <3>1 DEF ChipReady, Quietly, driver, history, Undisturbed, master
    <3>2. CASE Disturb
      BY <3>2, DisturbStep DEF driver, history, master
    <3>3. CASE UNCHANGED vars
      BY <3>3 DEF vars, busVars, slave, master, driver, history, Undisturbed
    <3> QED BY <1>7, <3>1, <3>2, <3>3
  <2>2. UNCHANGED <<Work, PlaceNow, IndexNow>>
    BY <2>1 DEF Work, Writing, Settled, Rolled, PlaceNow, IndexNow
  <2> QED BY <2>1, <2>2, Stands
<1> QED BY <1>1, <1>2, <1>3, <1>4, <1>5, <1>6, <1>7 DEF Next, Driver

LEMMA InitStore == Init => Store!StoreInit
<1> SUFFICES ASSUME Init PROVE Store!StoreInit
  OBVIOUS
<1>1. /\ cells \in [0 .. ChipCells - 1 -> Byte] /\ stage = "idle" /\ buf = << >> /\ bufnum = 0
      /\ addr = 0 /\ i = 0 /\ rbuf = << >> /\ resets = 0 /\ late = FALSE
  BY ByteFacts DEF Init, BusInit
<1>2. Work = "none" /\ PlaceNow = 0 /\ IndexNow = 0 /\ ~~Undisturbed
  BY <1>1 DEF Work, PlaceNow, IndexNow, Settled, Undisturbed
<1> QED BY <1>1, <1>2 DEF Store!StoreInit, Work, PlaceNow, IndexNow

(***************************************************************************)
(* Pin operation by pin operation, with acknowledges that stay out, write  *)
(* cycles of any length and a chip that loses its place, the driver does   *)
(* what EepromStore promises: bytes go into the chip one by one, each      *)
(* once, in the order of their addresses, and nothing else does; only a    *)
(* chip that was disturbed or busy misses one.                             *)
(***************************************************************************)
THEOREM StoresBytes == Spec => ImplementsStore
<1>1. Buses /\ [Next]_vars => [Store!StoreNext]_(Store!storeVars)
  BY StepStore DEF Step
<1> QED BY <1>1, InitStore, AlwaysBuses, PTL DEF Spec, ImplementsStore, Store!StoreSpec
=============================================================================
