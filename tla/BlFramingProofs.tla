--------------------------- MODULE BlFramingProofs ---------------------------
(***************************************************************************)
(* Theorems about BlFraming, for every byte width, buffer length, packet   *)
(* size, checksum and initial stack contents.                              *)
(***************************************************************************)
EXTENDS BlFraming, TLAPS

-----------------------------------------------------------------------------
(* Arithmetic of the two uint16_t of the parser.                           *)

\* Two bytes put together, low and high, fit in 16 bits.
LEMMA TwoBytes ==
  ASSUME NEW lo \in Byte, NEW hi \in Byte
  PROVE  lo + Radix * hi \in 0 .. CountWrap - 1
<1>1. Radix \in Nat /\ Radix > 1
  BY RadixAssumption
<1>2. lo \in Nat /\ hi \in Nat /\ lo <= Radix - 1 /\ hi <= Radix - 1
  BY <1>1 DEF Byte
<1>3. Radix * hi \in Nat /\ Radix * hi <= Radix * (Radix - 1)
  BY <1>1, <1>2, SMTT(30)
<1>4. Radix * (Radix - 1) = Radix * Radix - Radix
  BY <1>1, SMTT(30)
<1>5. Radix * Radix \in Nat
  BY <1>1, SMTT(30)
<1> QED
  BY <1>1, <1>2, <1>3, <1>4, <1>5 DEF CountWrap

\* A 16-bit counter has more than one value.
LEMMA WrapPositive == CountWrap \in Nat /\ CountWrap > 1
<1>1. Radix \in Nat /\ Radix > 1
  BY RadixAssumption
<1>2. Radix * Radix \in Nat /\ Radix * Radix > 1
  BY <1>1, SMTT(30)
<1> QED
  BY <1>2 DEF CountWrap

\* count++ of a uint16_t: one more, or zero when it wraps.
LEMMA CountStep ==
  ASSUME count \in 0 .. CountWrap - 1
  PROVE  /\ Next_count \in 0 .. CountWrap - 1
         /\ Next_count = IF count + 1 = CountWrap THEN 0 ELSE count + 1
<1> DEFINE w == CountWrap
<1>1. w \in Nat /\ w > 1
  BY WrapPositive
<1>2. count \in Int /\ 0 <= count /\ count <= w - 1
  BY <1>1
<1> HIDE DEF w
<1>3. CASE count + 1 = w
  <2>1. (count + 1) % w = 0
    BY <1>1, <1>2, <1>3
  <2> QED
    BY <1>1, <1>3, <2>1 DEF Next_count, w
<1>4. CASE count + 1 # w
  <2>1. (count + 1) % w = count + 1
    BY <1>1, <1>2, <1>4
  <2> QED
    BY <1>1, <1>2, <1>4, <2>1 DEF Next_count, w
<1> QED
  BY <1>3, <1>4

-----------------------------------------------------------------------------
(* The inductive invariant: in every state of the parser, what the history *)
(* says was received is what fp_t and length hold.                         *)

InPacket ==
  \/ status \in {"LenLow", "LenHigh", "CrcLow", "CrcHigh"}
  \/ status = "Data" /\ fp.packet_type # PingResponse

Framed ==
  /\ status = "Cmd" => fp.start_byte = StartByte
  /\ InPacket => /\ fp.start_byte = StartByte
                 /\ fp.packet_type \in {Command, Data}
                 /\ raw[1] = fp.packet_type
  /\ status = "LenLow"  => Len(raw) = 1
  /\ status = "LenHigh" => Len(raw) = 2
  /\ status = "CrcLow"  => Len(raw) = 3
  /\ status = "CrcHigh" => Len(raw) = 4
  /\ InPacket /\ status # "LenLow" => raw[2] = fp.len_low
  /\ InPacket /\ status \in {"CrcLow", "CrcHigh", "Data"}
       => /\ raw[3] = fp.len_high
          /\ length = fp.len_low + Radix * fp.len_high
          /\ length <= packet_size
  /\ InPacket /\ status \in {"CrcHigh", "Data"} => raw[4] = fp.crc_low
  /\ InPacket /\ status = "Data"
       => /\ raw[5] = fp.crc_high
          /\ Len(raw) = 5 + (IF count <= LENGTH THEN count ELSE LENGTH)
          /\ \A i \in 1 .. Len(raw) - 5 : fp.data[i - 1] = raw[i + 5]

IInv == TypeOK /\ NoStaleCount /\ Framed /\ DispatchIntegrity

USE RadixAssumption, BytesAssumption, TypesAssumption, SizeAssumption

\* memset leaves a packet, and so does a store inside the buffer.
LEMMA ZeroIsPacket == ZeroPacket \in Packet
BY DEF ZeroPacket, Packet, Byte

\* A byte stored in the payload leaves a packet.
LEMMA StoredType ==
  ASSUME fp \in Packet, NEW b \in Byte, count \in Nat
  PROVE  Stored(b) \in Packet
<1>1. CASE count < LENGTH
  <2>1. [fp.data EXCEPT ![count] = b] \in [0 .. LENGTH - 1 -> Byte]
    BY <1>1 DEF Packet
  <2> QED
    BY <1>1, <2>1 DEF Stored, Packet
<1>2. CASE ~(count < LENGTH)
  BY <1>2 DEF Stored
<1> QED
  BY <1>1, <1>2

\* So does storing a header byte.
LEMMA HeaderType ==
  ASSUME fp \in Packet, NEW b \in Byte
  PROVE  /\ [fp EXCEPT !.start_byte = b] \in Packet
         /\ [fp EXCEPT !.packet_type = b] \in Packet
         /\ [fp EXCEPT !.len_low = b] \in Packet
         /\ [fp EXCEPT !.len_high = b] \in Packet
         /\ [fp EXCEPT !.crc_low = b] \in Packet
         /\ [fp EXCEPT !.crc_high = b] \in Packet
BY DEF Packet

\* The history of the line holds bytes.
LEMMA HistoryType ==
  ASSUME raw \in Seq(Byte), NEW b \in Byte
  PROVE  /\ Append(raw, b) \in Seq(Byte)
         /\ <<b>> \in Seq(Byte)
         /\ << >> \in Seq(Byte)
OBVIOUS

\* One more byte keeps what the history held before.
LEMMA HistoryStep ==
  ASSUME raw \in Seq(Byte), NEW b \in Byte
  PROVE  /\ Len(raw) \in Nat
         /\ Len(Append(raw, b)) = Len(raw) + 1
         /\ \A i \in 1 .. Len(raw) : Append(raw, b)[i] = raw[i]
         /\ Append(raw, b)[Len(raw) + 1] = b
OBVIOUS

\* The parser starts in a state of the invariant.
LEMMA InitIInv == Init => IInv
<1> SUFFICES ASSUME Init PROVE IInv
  OBVIOUS
<1>1. TypeOK
  <2>1. << >> \in Seq(Byte) /\ 0 \in 0 .. CountWrap - 1
    BY WrapPositive
  <2> QED
    BY <2>1, JunkAssumption DEF Init, TypeOK
<1>2. NoStaleCount /\ Framed
  BY DEF Init, NoStaleCount, Framed, InPacket
<1>3. DispatchIntegrity
  BY DEF Init, DispatchIntegrity
<1> QED
  BY <1>1, <1>2, <1>3 DEF IInv

\* Every step keeps the variables in their types.
LEMMA NextTypeOK == TypeOK /\ [Next]_vars => TypeOK'
<1> SUFFICES ASSUME TypeOK, [Next]_vars PROVE TypeOK'
  OBVIOUS
<1>1. ASSUME NEW b \in Bytes, AtStart(b) PROVE TypeOK'
  BY <1>1, HeaderType, HistoryType DEF AtStart, TypeOK
<1>2. ASSUME NEW b \in Bytes, CmdSkip(b) \/ CmdDrop(b) PROVE TypeOK'
  BY <1>2 DEF CmdSkip, CmdDrop, TypeOK
<1>3. ASSUME NEW b \in Bytes, CmdPacket(b) PROVE TypeOK'
  BY <1>3, HeaderType, HistoryType DEF CmdPacket, TypeOK
<1>4. ASSUME NEW b \in Bytes, CmdPing(b) \/ CmdPingResponse(b) PROVE TypeOK'
  BY <1>4, HeaderType DEF CmdPing, CmdPingResponse, TypeOK
<1>5. ASSUME NEW b \in Bytes, AtLenLow(b) PROVE TypeOK'
  BY <1>5, HeaderType, HistoryType DEF AtLenLow, TypeOK
<1>6. ASSUME NEW b \in Bytes, AtLenHigh(b) PROVE TypeOK'
  <2>1. fp.len_low \in Byte /\ b \in Byte
    BY DEF TypeOK, Packet
  <2>2. length' \in 0 .. CountWrap - 1
    BY <1>6, <2>1, TwoBytes DEF AtLenHigh
  <2>3. status' \in {"CrcLow", "Start"}
    BY <1>6 DEF AtLenHigh
  <2> QED
    BY <1>6, <2>1, <2>2, <2>3, HeaderType, HistoryType DEF AtLenHigh, TypeOK
<1>7. ASSUME NEW b \in Bytes, AtCrcLow(b) \/ AtCrcHigh(b) PROVE TypeOK'
  BY <1>7, HeaderType, HistoryType DEF AtCrcLow, AtCrcHigh, TypeOK
<1>8. ASSUME NEW b \in Bytes, DataMore(b) PROVE TypeOK'
  <2>1. Stored(b) \in Packet /\ Next_count \in 0 .. CountWrap - 1
    BY StoredType, CountStep, WrapPositive DEF TypeOK
  <2> QED
    BY <1>8, <2>1 DEF DataMore, TypeOK
<1>9. ASSUME NEW b \in Bytes, DataLast(b) PROVE TypeOK'
  <2>1. Stored(b) \in Packet
    BY StoredType, WrapPositive DEF TypeOK
  <2>2. fp' \in {Stored(b), ZeroPacket}
        /\ event' \in {"command", "data", "unhandled", "badCrc"}
    BY <1>9 DEF DataLast, check_crc, handled
  <2>3. fp' \in Packet
    BY <2>1, <2>2, ZeroIsPacket
  <2> QED
    BY <1>9, <2>2, <2>3, WrapPositive DEF DataLast, TypeOK
<1>10. CASE Fault
  BY <1>10 DEF Fault, TypeOK
<1>11. CASE UNCHANGED vars
  BY <1>11 DEF vars, TypeOK
<1> QED
  BY <1>1, <1>2, <1>3, <1>4, <1>5, <1>6, <1>7, <1>8, <1>9, <1>10, <1>11
     DEF Next, Receive, analysis_packet

\* The steps through a header: fp_t and the history grow by the same byte.
LEMMA HeaderInv ==
  ASSUME IInv, NEW b \in Byte,
         \/ AtStart(b) \/ CmdSkip(b) \/ CmdDrop(b) \/ CmdPacket(b) \/ CmdPing(b)
         \/ CmdPingResponse(b) \/ AtLenLow(b) \/ AtLenHigh(b) \/ AtCrcLow(b)
         \/ AtCrcHigh(b)
  PROVE  NoStaleCount' /\ Framed' /\ DispatchIntegrity'
<1>0. TypeOK /\ NoStaleCount /\ Framed /\ raw \in Seq(Byte) /\ fp \in Packet
  BY DEF IInv, TypeOK
<1>1. DispatchIntegrity'
  <2>1. event' \in {"none", "pong"}
    BY DEF AtStart, CmdSkip, CmdDrop, CmdPacket, CmdPing, CmdPingResponse,
           AtLenLow, AtLenHigh, AtCrcLow, AtCrcHigh
  <2> QED
    BY <2>1 DEF DispatchIntegrity
<1>2. NoStaleCount'
  BY <1>0 DEF AtStart, CmdSkip, CmdDrop, CmdPacket, CmdPing, CmdPingResponse,
     AtLenLow, AtLenHigh, AtCrcLow, AtCrcHigh, NoStaleCount, TypeOK
<1>3. Framed'
  <2>1. CASE AtStart(b)
    BY <1>0, <2>1 DEF AtStart, Framed, InPacket, Packet
  <2>2. CASE CmdSkip(b) \/ CmdDrop(b)
    BY <1>0, <2>2 DEF CmdSkip, CmdDrop, Framed, InPacket
  <2>3. CASE CmdPacket(b)
    BY <1>0, <2>3 DEF CmdPacket, Framed, InPacket, Packet
  <2>4. CASE CmdPing(b) \/ CmdPingResponse(b)
    BY <1>0, <2>4 DEF CmdPing, CmdPingResponse, Framed, InPacket, Packet
  <2>5. CASE AtLenLow(b)
    <3>1. Len(raw) = 1 /\ raw' = Append(raw, b)
      BY <1>0, <2>5 DEF AtLenLow, Framed
    <3>2. Len(raw') = 2 /\ raw'[2] = b
          /\ raw'[1] = raw[1]
      BY <1>0, <3>1, HistoryStep
    <3>3. /\ fp'.len_low = b
          /\ fp'.start_byte = fp.start_byte /\ fp'.packet_type = fp.packet_type /\ fp'.len_high = fp.len_high
          /\ fp'.crc_low = fp.crc_low /\ fp'.crc_high = fp.crc_high /\ fp'.data = fp.data
      BY <1>0, <2>5 DEF AtLenLow, Packet
    <3> QED
      BY <1>0, <2>5, <3>2, <3>3 DEF AtLenLow, Framed, InPacket
  <2>6. CASE AtLenHigh(b)
    <3>1. Len(raw) = 2 /\ raw' = Append(raw, b)
      BY <1>0, <2>6 DEF AtLenHigh, Framed
    <3>2. Len(raw') = 3 /\ raw'[3] = b
          /\ raw'[1] = raw[1] /\ raw'[2] = raw[2]
      BY <1>0, <3>1, HistoryStep
    <3>3. /\ fp'.len_high = b
          /\ fp'.start_byte = fp.start_byte /\ fp'.packet_type = fp.packet_type /\ fp'.len_low = fp.len_low
          /\ fp'.crc_low = fp.crc_low /\ fp'.crc_high = fp.crc_high /\ fp'.data = fp.data
      BY <1>0, <2>6 DEF AtLenHigh, Packet
    <3> QED
      BY <1>0, <2>6, <3>2, <3>3 DEF AtLenHigh, Framed, InPacket
  <2>7. CASE AtCrcLow(b)
    <3>1. Len(raw) = 3 /\ raw' = Append(raw, b)
      BY <1>0, <2>7 DEF AtCrcLow, Framed
    <3>2. Len(raw') = 4 /\ raw'[4] = b
          /\ raw'[1] = raw[1] /\ raw'[2] = raw[2] /\ raw'[3] = raw[3]
      BY <1>0, <3>1, HistoryStep
    <3>3. /\ fp'.crc_low = b
          /\ fp'.start_byte = fp.start_byte /\ fp'.packet_type = fp.packet_type /\ fp'.len_low = fp.len_low
          /\ fp'.len_high = fp.len_high /\ fp'.crc_high = fp.crc_high /\ fp'.data = fp.data
      BY <1>0, <2>7 DEF AtCrcLow, Packet
    <3> QED
      BY <1>0, <2>7, <3>2, <3>3 DEF AtCrcLow, Framed, InPacket
  <2>8. CASE AtCrcHigh(b)
    <3>1. Len(raw) = 4 /\ raw' = Append(raw, b)
      BY <1>0, <2>8 DEF AtCrcHigh, Framed
    <3>2. Len(raw') = 5 /\ raw'[5] = b
          /\ raw'[1] = raw[1] /\ raw'[2] = raw[2] /\ raw'[3] = raw[3] /\ raw'[4] = raw[4]
      BY <1>0, <3>1, HistoryStep
    <3>3. /\ fp'.crc_high = b
          /\ fp'.start_byte = fp.start_byte /\ fp'.packet_type = fp.packet_type /\ fp'.len_low = fp.len_low
          /\ fp'.len_high = fp.len_high /\ fp'.crc_low = fp.crc_low /\ fp'.data = fp.data
      BY <1>0, <2>8 DEF AtCrcHigh, Packet
    <3> QED
      BY <1>0, <2>8, <3>2, <3>3 DEF AtCrcHigh, Framed, InPacket, NoStaleCount
  <2> QED
    BY <2>1, <2>2, <2>3, <2>4, <2>5, <2>6, <2>7, <2>8
<1> QED
  BY <1>1, <1>2, <1>3

\* A byte of the payload goes to the same place of the buffer and the history.
LEMMA PayloadStored ==
  ASSUME IInv, NEW b \in Byte, status = "Data",
         fp.packet_type # PingResponse, raw' = IF count < LENGTH
                                              THEN Append(raw, b) ELSE raw
  PROVE  LET f == Stored(b) IN
         /\ f \in Packet
         /\ f.start_byte = fp.start_byte /\ f.packet_type = fp.packet_type
         /\ f.len_low = fp.len_low /\ f.len_high = fp.len_high
         /\ f.crc_low = fp.crc_low /\ f.crc_high = fp.crc_high
         /\ Len(raw') = 5 + (IF count + 1 <= LENGTH THEN count + 1 ELSE LENGTH)
         /\ \A i \in 1 .. 5 : raw'[i] = raw[i]
         /\ \A i \in 1 .. Len(raw') - 5 : f.data[i - 1] = raw'[i + 5]
<1> DEFINE f == Stored(b)
<1>1. /\ fp \in Packet /\ raw \in Seq(Byte) /\ count \in Nat /\ LENGTH \in Nat
      /\ Len(raw) = 5 + (IF count <= LENGTH THEN count ELSE LENGTH)
      /\ \A i \in 1 .. Len(raw) - 5 : fp.data[i - 1] = raw[i + 5]
  BY WrapPositive DEF IInv, TypeOK, Framed, InPacket
<1>2. f \in Packet
  BY <1>1, StoredType
<1>3. CASE count < LENGTH
  <2>1. raw' = Append(raw, b) /\ Len(raw) = 5 + count
    BY <1>1, <1>3
  <2>2. /\ Len(raw') = 6 + count /\ raw'[6 + count] = b
        /\ \A i \in 1 .. 5 + count : raw'[i] = raw[i]
    BY <1>1, <2>1, HistoryStep
  <2>3. /\ f.start_byte = fp.start_byte /\ f.packet_type = fp.packet_type
        /\ f.len_low = fp.len_low /\ f.len_high = fp.len_high
        /\ f.crc_low = fp.crc_low /\ f.crc_high = fp.crc_high
        /\ f.data = [fp.data EXCEPT ![count] = b]
    BY <1>1, <1>3 DEF Stored, Packet
  <2>4. /\ fp.data \in [0 .. LENGTH - 1 -> Byte]
        /\ f.data[count] = b
        /\ \A j \in 0 .. LENGTH - 1 : j # count => f.data[j] = fp.data[j]
    BY <1>1, <1>3, <2>3 DEF Packet
  <2>5. ASSUME NEW i \in 1 .. 1 + count PROVE f.data[i - 1] = raw'[i + 5]
    <3>1. CASE i = 1 + count
      BY <1>1, <2>2, <2>4, <3>1
    <3>2. CASE i # 1 + count
      <4>1. i \in 1 .. count /\ i - 1 \in 0 .. LENGTH - 1 /\ i - 1 # count
        BY <1>1, <1>3, <3>2
      <4>2. fp.data[i - 1] = raw[i + 5] /\ raw'[i + 5] = raw[i + 5]
        BY <1>1, <2>1, <2>2, <4>1
      <4> QED
        BY <2>4, <4>1, <4>2
    <3> QED
      BY <3>1, <3>2
  <2> QED
    BY <1>1, <1>2, <1>3, <2>2, <2>3, <2>5
<1>4. CASE ~(count < LENGTH)
  <2>1. f = fp /\ raw' = raw
    BY <1>4 DEF Stored
  <2>2. Len(raw) = 5 + LENGTH
    BY <1>1, <1>4
  <2> QED
    BY <1>1, <1>2, <1>4, <2>1, <2>2
<1> QED
  BY <1>3, <1>4

\* A payload byte that is not the last keeps the invariant.
LEMMA DataMoreInv ==
  ASSUME IInv, NEW b \in Byte, DataMore(b)
  PROVE  NoStaleCount' /\ Framed' /\ DispatchIntegrity'
<1>1. /\ status = "Data" /\ status' = "Data" /\ event' = "none"
      /\ fp' = Stored(b) /\ count' = Next_count /\ length' = length
      /\ Next_count # length
      /\ raw' = IF count < LENGTH THEN Append(raw, b) ELSE raw
  BY DEF DataMore
<1>2. /\ count \in Nat /\ length \in Nat /\ fp \in Packet
      /\ Next_count = IF count + 1 = CountWrap THEN 0 ELSE count + 1
      /\ length < CountWrap /\ CountWrap \in Nat
  BY CountStep, WrapPositive DEF IInv, TypeOK
<1>3. DispatchIntegrity'
  BY <1>1 DEF DispatchIntegrity
<1>4. length # 0 => count < length
  BY <1>1 DEF IInv, NoStaleCount
<1>5. NoStaleCount'
  BY <1>1, <1>2, <1>4 DEF NoStaleCount
<1>6. Framed'
  <2>1. CASE fp.packet_type = PingResponse
    <3>1. fp'.packet_type = PingResponse
      BY <1>1, <1>2, <2>1 DEF Stored, Packet
    <3> QED
      BY <1>1, <3>1 DEF Framed, InPacket
  <2>2. CASE fp.packet_type # PingResponse
    <3>1. /\ fp.start_byte = StartByte
          /\ fp.packet_type \in {Command, Data}
          /\ raw[1] = fp.packet_type
          /\ raw[2] = fp.len_low /\ raw[3] = fp.len_high
          /\ length = fp.len_low + Radix * fp.len_high
          /\ length <= packet_size
          /\ raw[4] = fp.crc_low /\ raw[5] = fp.crc_high
      BY <1>1, <2>2 DEF IInv, Framed, InPacket
    <3>2. count + 1 # CountWrap
      \* the wrap to zero would have ended a packet of length 0, and a longer
      \* one ends before it
      BY <1>1, <1>2, <1>4
    <3>3. count' = count + 1
      BY <1>1, <1>2, <3>2
    <3>4. /\ fp'.start_byte = fp.start_byte /\ fp'.packet_type = fp.packet_type
          /\ fp'.len_low = fp.len_low /\ fp'.len_high = fp.len_high
          /\ fp'.crc_low = fp.crc_low /\ fp'.crc_high = fp.crc_high
          /\ Len(raw') = 5 + (IF count' <= LENGTH THEN count' ELSE LENGTH)
          /\ raw'[1] = raw[1] /\ raw'[2] = raw[2] /\ raw'[3] = raw[3]
          /\ raw'[4] = raw[4] /\ raw'[5] = raw[5]
          /\ \A i \in 1 .. Len(raw') - 5 : fp'.data[i - 1] = raw'[i + 5]
      <4> DEFINE f == Stored(b)
      <4>1. /\ f.start_byte = fp.start_byte /\ f.packet_type = fp.packet_type
            /\ f.len_low = fp.len_low /\ f.len_high = fp.len_high
            /\ f.crc_low = fp.crc_low /\ f.crc_high = fp.crc_high
            /\ Len(raw') = 5 + (IF count + 1 <= LENGTH THEN count + 1 ELSE LENGTH)
            /\ \A i \in 1 .. 5 : raw'[i] = raw[i]
            /\ \A i \in 1 .. Len(raw') - 5 : f.data[i - 1] = raw'[i + 5]
        BY <1>1, <2>2, PayloadStored
      <4>2. fp' = f
        BY <1>1
      <4> HIDE DEF f
      <4> QED
        BY <4>1, <4>2, <3>3
    <3> QED
      BY <1>1, <3>1, <3>4 DEF Framed, InPacket
  <2> QED
    BY <2>1, <2>2
<1> QED
  BY <1>3, <1>5, <1>6

\* The last byte of the payload keeps it: what a handler is given is the
\* packet of the history.
LEMMA DataLastInv ==
  ASSUME IInv, NEW b \in Byte, DataLast(b)
  PROVE  NoStaleCount' /\ Framed' /\ DispatchIntegrity'
<1> DEFINE f == Stored(b)
<1>1. /\ status = "Data" /\ status' = "Start" /\ count' = 0
      /\ Next_count = length /\ length' = length
      /\ raw' = IF count < LENGTH THEN Append(raw, b) ELSE raw
  BY DEF DataLast
<1>2. /\ count \in Nat /\ length \in Nat /\ fp \in Packet
      /\ Next_count = IF count + 1 = CountWrap THEN 0 ELSE count + 1
      /\ CountWrap \in Nat /\ LENGTH \in Nat /\ packet_size \in Nat
      /\ LENGTH < CountWrap /\ packet_size <= LENGTH
  BY CountStep, WrapPositive DEF IInv, TypeOK
<1>3. NoStaleCount' /\ Framed'
  BY <1>1 DEF NoStaleCount, Framed, InPacket
<1>4. DispatchIntegrity'
  <2> SUFFICES ASSUME event' \in {"command", "data"} PROVE DispatchIntegrity'
    BY DEF DispatchIntegrity
  <2>1. /\ f.packet_type = IF event' = "command" THEN Command ELSE Data
        /\ fp' \in {f, ZeroPacket}
        /\ length <= LENGTH => CrcAgrees(f, length)
    <3>1. check_crc(f, length)
      BY DEF DataLast
    <3>2. CASE length <= LENGTH
      BY <1>2, <3>1, <3>2 DEF check_crc, handled
    <3>3. CASE ~(length <= LENGTH)
      BY <3>1, <3>3 DEF check_crc, handled
    <3> QED
      BY <3>2, <3>3
  <2>2. fp.packet_type # PingResponse
    BY <1>2, <2>1 DEF Stored, Packet
  <2>3. /\ fp.start_byte = StartByte
        /\ raw[1] = fp.packet_type
        /\ raw[2] = fp.len_low /\ raw[3] = fp.len_high
        /\ length = fp.len_low + Radix * fp.len_high
        /\ length <= packet_size
        /\ raw[4] = fp.crc_low /\ raw[5] = fp.crc_high
    BY <1>1, <2>2 DEF IInv, Framed, InPacket
  <2>4. /\ f \in Packet
        /\ f.start_byte = fp.start_byte /\ f.packet_type = fp.packet_type
        /\ f.len_low = fp.len_low /\ f.len_high = fp.len_high
        /\ f.crc_low = fp.crc_low /\ f.crc_high = fp.crc_high
        /\ Len(raw') = 5 + (IF count + 1 <= LENGTH THEN count + 1 ELSE LENGTH)
        /\ \A i \in 1 .. 5 : raw'[i] = raw[i]
        /\ \A i \in 1 .. Len(raw') - 5 : f.data[i - 1] = raw'[i + 5]
    BY <1>1, <2>2, PayloadStored
  <2>5. RawLength' = length
    BY <2>3, <2>4 DEF RawLength
  <2>6. /\ length # 0 => Len(raw') = 5 + length
        /\ Len(raw') >= 5 + length /\ Len(raw') >= 5
    BY <1>1, <1>2, <2>3, <2>4
  <2>7. \A i \in 1 .. length : f.data[i - 1] = raw'[i + 5]
    <3>1. Len(raw') \in Int /\ Len(raw') - 5 >= length
      BY <1>2, <2>4, <2>6
    <3>2. 1 .. length \subseteq 1 .. Len(raw') - 5
      BY <1>2, <3>1
    <3> QED
      BY <2>4, <3>2
  <2>8. Crc(<<StartByte, raw'[1], raw'[2], raw'[3]>>
              \o [i \in 1 .. length |-> raw'[i + 5]])
          = raw'[4] + Radix * raw'[5]
    <3>1. CrcAgrees(f, length)
      BY <1>2, <2>1, <2>3
    <3>2. Payload(f, length) = [i \in 1 .. length |-> raw'[i + 5]]
      BY <2>7 DEF Payload
    <3>3. /\ raw'[1] = f.packet_type /\ raw'[2] = f.len_low
          /\ raw'[3] = f.len_high /\ raw'[4] = f.crc_low
          /\ raw'[5] = f.crc_high /\ f.start_byte = StartByte
      BY <2>3, <2>4
    <3> QED
      BY <3>1, <3>2, <3>3 DEF CrcAgrees
  <2>9. fp' # ZeroPacket => \A i \in 1 .. length : fp'.data[i - 1] = raw'[i + 5]
    BY <2>1, <2>7
  <2>10. raw'[1] = IF event' = "command" THEN Command ELSE Data
    BY <2>1, <2>3, <2>4
  <2> QED
    BY <2>3, <2>5, <2>6, <2>8, <2>9, <2>10 DEF DispatchIntegrity
<1> QED
  BY <1>3, <1>4

-----------------------------------------------------------------------------
\* Every step of the parser keeps the invariant.
LEMMA NextIInv == IInv /\ [Next]_vars => IInv'
<1> SUFFICES ASSUME IInv, [Next]_vars PROVE IInv'
  OBVIOUS
<1>1. TypeOK'
  BY NextTypeOK DEF IInv
<1>2. ASSUME NEW b \in Bytes, analysis_packet(b)
      PROVE  NoStaleCount' /\ Framed' /\ DispatchIntegrity'
  BY <1>2, HeaderInv, DataMoreInv, DataLastInv DEF analysis_packet
<1>3. CASE Fault
  <2>1. /\ status' = "Fault" /\ event' = "none"
    BY <1>3 DEF Fault
  <2>2. NoStaleCount' /\ Framed'
    BY <2>1 DEF NoStaleCount, Framed, InPacket
  <2>3. DispatchIntegrity'
    BY <2>1 DEF DispatchIntegrity
  <2> QED
    BY <1>1, <2>2, <2>3 DEF IInv
<1>4. CASE UNCHANGED vars
  <2>1. NoStaleCount' = NoStaleCount /\ Framed' = Framed
    BY <1>4 DEF vars, NoStaleCount, Framed, InPacket
  <2>2. RawLength' = RawLength
    BY <1>4 DEF vars, RawLength
  <2>3. DispatchIntegrity' = DispatchIntegrity
    BY <1>4, <2>2 DEF vars, DispatchIntegrity
  <2> QED
    BY <1>1, <2>1, <2>3 DEF IInv
<1> QED
  BY <1>1, <1>2, <1>3, <1>4 DEF IInv, Next, Receive

\* The invariant holds in every reachable state.
LEMMA Invariance == Spec => []IInv
BY InitIInv, NextIInv, PTL DEF Spec

\* The variables of bl_variate and fp_t keep their C types: no byte or counter
\* leaves its width, whatever bytes arrive.
THEOREM TypeCorrect == Spec => []TypeOK
<1>1. IInv => TypeOK
  BY DEF IInv
<1> QED
  BY <1>1, Invariance, PTL

\* A command or data handler of bl.c is only entered with the payload of one
\* contiguous packet of the line whose CRC agrees (DispatchIntegrity).
THEOREM DispatchedWasSent == Spec => []DispatchIntegrity
<1>1. IInv => DispatchIntegrity
  BY DEF IInv
<1> QED
  BY <1>1, Invariance, PTL

\* No packet is stored or measured with a count left over from another packet
\* (NoStaleCount), although only a complete packet resets count.
THEOREM CountIsFresh == Spec => []NoStaleCount
<1>1. IInv => NoStaleCount
  BY DEF IInv
<1> QED
  BY <1>1, Invariance, PTL

\* analysis_packet stores behind fp_t.data only for a length of zero or in a
\* ping response (StrayStores): a data packet of legal length cannot.
THEOREM StraysExplained == Spec => StrayStores
<1>1. ASSUME IInv, [Next]_vars
      PROVE  [overrun' # overrun => length = 0 \/ fp.packet_type = PingResponse]_vars
  <2>1. CASE \E b \in Bytes : DataMore(b) \/ DataLast(b)
    <3> SUFFICES ASSUME overrun' # overrun, length # 0,
                        fp.packet_type # PingResponse
                 PROVE  FALSE
      OBVIOUS
    <3>1. status = "Data" /\ ~(count < LENGTH) /\ count \in Nat
      BY <1>1, <2>1, WrapPositive DEF DataMore, DataLast, IInv, TypeOK
    <3>2. count < length /\ length <= packet_size
      BY <1>1, <3>1 DEF IInv, NoStaleCount, Framed, InPacket
    <3> QED
      BY <1>1, <3>1, <3>2 DEF IInv, TypeOK
  <2>2. CASE ~ \E b \in Bytes : DataMore(b) \/ DataLast(b)
    <3>1. overrun' = overrun
      BY <1>1, <2>2 DEF Next, Receive, analysis_packet, AtStart, CmdSkip,
         CmdDrop, CmdPacket, CmdPing, CmdPingResponse, AtLenLow, AtLenHigh,
         AtCrcLow, AtCrcHigh, Fault, vars
    <3> QED
      BY <3>1
  <2> QED
    BY <2>1, <2>2
<1> QED
  BY <1>1, Invariance, PTL DEF Spec, StrayStores

=============================================================================
