--------------------------- MODULE ImuPacketProofs ---------------------------
(***************************************************************************)
(* Theorems about ImuPacket, for every byte width, buffer and checksum.    *)
(***************************************************************************)
EXTENDS ImuPacket, TLAPS

\* In every state the fields hold what came behind the last A5.
Trail ==
  /\ status = "LenLow"  => Len(raw) = 0
  /\ status = "LenHigh" => Len(raw) = 1
  /\ status = "CRCLow"  => Len(raw) = 2
  /\ status = "CRCHigh" => Len(raw) = 3
  /\ status = "Data"    => Len(raw) = 4 + ofs /\ (ofs = 0 \/ ofs < payload_len)
  /\ status = "LenHigh" => payload_len = raw[1] /\ crc_header[1] = raw[1]
  /\ status \in {"CRCLow", "CRCHigh", "Data"}
       => payload_len = raw[1] + Radix * raw[2] /\ crc_header = <<raw[1], raw[2]>>
  /\ status = "CRCHigh" => CRCReceived = raw[3]
  /\ status = "Data"
       => /\ CRCReceived = raw[3] + Radix * raw[4]
          /\ \A k \in 1 .. ofs : buf[k - 1] = raw[4 + k]

IInv == TypeOK /\ Trail /\ DeliveredWhole

USE RadixAssumption, CodesAssumption, LengthAssumption
    DEF RadixAssumption, CodesAssumption, LengthAssumption

\* Two bytes put together, low and high, fit in 16 bits.
LEMMA TwoBytes ==
  ASSUME NEW lo \in Byte, NEW hi \in Byte
  PROVE  lo + Radix * hi \in Word
<1>1. lo \in Nat /\ hi \in Nat /\ lo <= Radix - 1 /\ hi <= Radix - 1
  BY DEF Byte
<1>2. Radix * hi \in Nat /\ Radix * hi <= Radix * (Radix - 1)
  BY <1>1, SMTT(30)
<1>3. Radix * (Radix - 1) = Radix * Radix - Radix /\ Radix * Radix \in Nat
  BY SMTT(30)
<1> QED BY <1>1, <1>2, <1>3 DEF Word

LEMMA ByteIsWord == Byte \subseteq Word
<1>1. Radix * Radix \in Nat /\ Radix * Radix >= Radix
  BY SMTT(30)
<1> QED BY <1>1 DEF Byte, Word

LEMMA InitInv == Init => IInv
<1>1. 0 \in Byte /\ 0 \in Word
  BY ByteIsWord DEF Byte
<1> QED BY <1>1 DEF Init, IInv, TypeOK, Trail, DeliveredWhole

-----------------------------------------------------------------------------
(* The header.                                                             *)

LEMMA HeaderKeeps ==
  ASSUME IInv, NEW c \in Byte, event' = << >>,
         Idle(c) \/ Cmd(c) \/ LenLow(c) \/ LenHigh(c) \/ CRCLow(c) \/ CRCHigh(c)
  PROVE  IInv'
<1>0. DeliveredWhole' /\ event' \in Seq(Byte)
  BY DEF DeliveredWhole
<1>1. raw \in Seq(Byte) /\ crc_header \in Byte \X Byte
  BY DEF IInv, TypeOK
<1>2. /\ Append(raw, c) \in Seq(Byte) /\ Len(Append(raw, c)) = Len(raw) + 1
      /\ Append(raw, c)[Len(raw) + 1] = c
      /\ \A k \in 1 .. Len(raw) : Append(raw, c)[k] = raw[k]
  BY <1>1
<1> USE DEF IInv, TypeOK, Trail, Header
<1>3. CASE Idle(c)
  BY <1>0, <1>3 DEF Idle
<1>4. CASE Cmd(c)
  BY <1>0, <1>4 DEF Cmd
<1>5. CASE LenLow(c)
  <2>1. payload_len' \in Word
    BY <1>5, ByteIsWord DEF LenLow
  <2> QED BY <1>0, <1>1, <1>2, <1>5, <2>1 DEF LenLow
<1>6. CASE LenHigh(c)
  <2>1. raw[1] \in Byte /\ Len(raw) = 1
    BY <1>1, <1>6 DEF LenHigh
  <2>2. payload_len' \in Word
    BY <1>6, <2>1, TwoBytes DEF LenHigh
  <2> QED BY <1>0, <1>1, <1>2, <1>6, <2>1, <2>2 DEF LenHigh
<1>7. CASE CRCLow(c)
  <2>1. CRCReceived' \in Word
    BY <1>7, ByteIsWord DEF CRCLow
  <2>2. /\ Len(raw') = 3 /\ raw' \in Seq(Byte)
        /\ raw'[1] = raw[1] /\ raw'[2] = raw[2] /\ raw'[3] = c
    <3>1. raw' = Append(raw, c) /\ Len(raw) = 2
      BY <1>7 DEF CRCLow
    <3>2. raw'[3] = c
      BY <1>2, <3>1
    <3> QED BY <1>2, <3>1, <3>2
  <2>3. /\ payload_len' = raw'[1] + Radix * raw'[2]
        /\ crc_header' = <<raw'[1], raw'[2]>> /\ CRCReceived' = raw'[3]
    BY <1>7, <2>2 DEF CRCLow
  <2>4. TypeOK'
    BY <1>0, <1>7, <2>1, <2>2 DEF CRCLow
  <2>5. Trail'
    BY <1>7, <2>2, <2>3 DEF CRCLow
  <2> QED BY <1>0, <2>4, <2>5
<1>8. CASE CRCHigh(c)
  <2>1. raw[3] \in Byte /\ Len(raw) = 3
    BY <1>1, <1>8 DEF CRCHigh
  <2>2. CRCReceived' \in Word
    BY <1>8, <2>1, TwoBytes DEF CRCHigh
  <2> QED BY <1>0, <1>1, <1>2, <1>8, <2>1, <2>2 DEF CRCHigh, Place
<1> QED BY <1>3, <1>4, <1>5, <1>6, <1>7, <1>8

-----------------------------------------------------------------------------
(* The data.                                                               *)

LEMMA DataKeeps == ASSUME IInv, NEW c \in Byte, Data(c) PROVE IInv'
<1>1. /\ ofs \in Nat /\ ofs < MAX_PACKET_LEN /\ ofs' = ofs + 1
      /\ buf \in [0 .. MAX_PACKET_LEN - 1 -> Byte]
      /\ buf' = [buf EXCEPT ![ofs] = c]
      /\ raw \in Seq(Byte) /\ Len(raw) = 4 + ofs /\ raw' = Append(raw, c)
      /\ payload_len \in Nat /\ payload_len' = payload_len
  BY DEF Data, IInv, TypeOK, Trail, Word
<1>2. buf' \in [0 .. MAX_PACKET_LEN - 1 -> Byte] /\ raw' \in Seq(Byte)
  BY <1>1
<1>3. /\ Len(raw') = 4 + ofs' /\ raw'[4 + ofs'] = c
      /\ \A k \in 1 .. Len(raw) : raw'[k] = raw[k]
  BY <1>1
<1>4. \A k \in 1 .. ofs' : buf'[k - 1] = raw'[4 + k]
  <2> SUFFICES ASSUME NEW k \in 1 .. ofs' PROVE buf'[k - 1] = raw'[4 + k]
    OBVIOUS
  <2>1. CASE k = ofs'
    BY <1>1, <1>3, <2>1
  <2>2. CASE k # ofs'
    <3>1. buf'[k - 1] = buf[k - 1] /\ k \in 1 .. ofs
      BY <1>1, <2>2
    <3>2. buf[k - 1] = raw[4 + k]
      BY <3>1 DEF Data, IInv, Trail
    <3> QED BY <1>1, <1>3, <3>1, <3>2
  <2> QED BY <2>1, <2>2
<1>5. /\ raw'[1] = raw[1] /\ raw'[2] = raw[2] /\ raw'[3] = raw[3] /\ raw'[4] = raw[4]
  BY <1>1, <1>3
<1>6. /\ payload_len = raw[1] + Radix * raw[2] /\ crc_header = <<raw[1], raw[2]>>
      /\ CRCReceived = raw[3] + Radix * raw[4]
  BY DEF Data, IInv, Trail
<1>7. TypeOK' /\ Trail'
  <2>1. event' \in Seq(Byte)
    <3>1. CASE ~Full /\ ofs' >= payload_len
      <4>1. \A k \in 1 .. payload_len : buf'[k - 1] \in Byte
        BY <1>1, <1>2, <3>1 DEF Full
      <4>2. [k \in 1 .. payload_len |-> buf'[k - 1]] \in Seq(Byte)
        BY <1>1, <4>1
      <4> QED BY <4>2 DEF Data
    <3>2. CASE ~(~Full /\ ofs' >= payload_len)
      BY <3>2 DEF Data
    <3> QED BY <3>1, <3>2
  <2>2. TypeOK'
    BY <1>1, <1>2, <2>1 DEF Data, Full, IInv, TypeOK
  <2>3. status' = "Data" => ofs' < payload_len
    BY <1>1 DEF Data
  <2>4. Trail'
    BY <1>1, <1>3, <1>4, <1>5, <1>6, <2>3 DEF Data, Trail
  <2> QED BY <2>2, <2>4
<1>8. DeliveredWhole'
  <2> SUFFICES ASSUME event' # << >>
               PROVE  /\ raw'[1] + Radix * raw'[2] = Len(event')
                      /\ Len(raw') = 4 + Len(event')
                      /\ \A k \in 1 .. Len(event') : event'[k] = raw'[4 + k]
                      /\ Crc(<<First, Second>> \o <<raw'[1], raw'[2]>> \o event')
                           = raw'[3] + Radix * raw'[4]
    BY DEF DeliveredWhole
  <2>1. /\ ofs' >= payload_len /\ Agrees
        /\ event' = [k \in 1 .. payload_len |-> buf'[k - 1]]
    BY DEF Data
  <2>2. payload_len = ofs'
    <3>1. ofs = 0 \/ ofs < payload_len
      BY DEF Data, IInv, Trail
    <3>2. payload_len # 0
      BY <2>1
    <3> QED BY <1>1, <2>1, <3>1, <3>2
  <2>3. event' = [k \in 1 .. ofs' |-> buf'[k - 1]]
    BY <2>1, <2>2
  <2>4. Len(event') = ofs'
    BY <1>1, <2>3
  <2>5. Crc(<<First, Second>> \o crc_header \o event') = CRCReceived
    BY <2>1, <2>3 DEF Agrees
  <2>6. raw'[1] + Radix * raw'[2] = Len(event')
    BY <1>5, <1>6, <2>2, <2>4
  <2>7. \A k \in 1 .. Len(event') : event'[k] = raw'[4 + k]
    BY <1>4, <2>3, <2>4
  <2>8. Crc(<<First, Second>> \o <<raw'[1], raw'[2]>> \o event') = raw'[3] + Radix * raw'[4]
    BY <1>5, <1>6, <2>5
  <2> QED BY <1>3, <2>4, <2>6, <2>7, <2>8
<1> QED BY <1>7, <1>8 DEF IInv

LEMMA StutterKeeps == ASSUME IInv, UNCHANGED vars PROVE IInv'
  BY DEF vars, IInv, TypeOK, Trail, DeliveredWhole

LEMMA Invariance == Spec => []IInv
<1>1. IInv /\ [Next]_vars => IInv'
  BY HeaderKeeps, DataKeeps, StutterKeeps DEF Next, packet_decode
<1> QED BY InitInv, <1>1, PTL DEF Spec

\* The parser's fields keep their C types and no byte is stored behind the
\* buffer, whatever the line carries.
THEOREM TypeCorrect == Spec => []TypeOK
<1>1. IInv => TypeOK
  BY DEF IInv
<1> QED BY Invariance, <1>1, PTL

\* What event_handler gets is the payload of one packet, whole and by itself.
THEOREM OnlyWholePackets == Spec => []DeliveredWhole
<1>1. IInv => DeliveredWhole
  BY DEF IInv
<1> QED BY Invariance, <1>1, PTL
=============================================================================
