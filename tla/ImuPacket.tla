------------------------------ MODULE ImuPacket ------------------------------
(***************************************************************************)
(* The byte parser of the IMU's serial packets (packet.c)                  *)
(*      5A, A5, len_low, len_high, crc_low, crc_high, data[0..len-1]       *)
(* USART2_IRQHandler gives it one byte per call.  on_data_received is left *)
(* at what it is called with.  The line carries any bytes: packets may be  *)
(* damaged, cut short or run into each other.                              *)
(***************************************************************************)
EXTENDS Integers, Sequences

CONSTANTS
  Radix,           \* values of a byte: 256 in the code
  First, Second,   \* 0x5A and 0xA5
  MAX_PACKET_LEN,  \* bytes in packet_t.buf, 2048 in the code
  Crc(_)           \* crc16_update from 0 over a sequence of bytes

Byte == 0 .. Radix - 1
Word == 0 .. Radix * Radix - 1

ASSUME RadixAssumption == Radix \in Nat /\ Radix > 1
ASSUME CodesAssumption == First \in Byte /\ Second \in Byte /\ First # Second
ASSUME LengthAssumption == MAX_PACKET_LEN \in Nat /\ MAX_PACKET_LEN > 0

VARIABLES
  status, type, payload_len, CRCReceived, ofs, buf,
  crc_header,   \* the two bytes of it that change: the length
  event,   \* the packet handed to event_handler by the last byte, or << >>
  raw      \* history: the bytes behind the last A5 that began a packet

vars == <<status, type, payload_len, CRCReceived, ofs, buf, crc_header, event, raw>>

\* The fields keep their C types, and a byte is stored only inside buf.
TypeOK ==
  /\ status \in {"Idle", "Cmd", "LenLow", "LenHigh", "CRCLow", "CRCHigh", "Data"}
  /\ type \in Byte /\ payload_len \in Word /\ CRCReceived \in Word
  /\ ofs \in 0 .. MAX_PACKET_LEN /\ (status = "Data" => ofs < MAX_PACKET_LEN)
  /\ buf \in [0 .. MAX_PACKET_LEN - 1 -> Byte] /\ crc_header \in Byte \X Byte
  /\ event \in Seq(Byte) /\ raw \in Seq(Byte)

\* Two static zeros; packet_decode_init clears the packet.
Init ==
  /\ status = "Idle" /\ type = 0 /\ payload_len = 0 /\ CRCReceived = 0
  /\ ofs = 0 /\ buf = [k \in 0 .. MAX_PACKET_LEN - 1 |-> 0]
  /\ crc_header = <<0, 0>> /\ event = << >> /\ raw = << >>

Header(c, from, to) == status = from /\ status' = to /\ raw' = Append(raw, c)

Idle(c) ==
  /\ status = "Idle" /\ status' = IF c = First THEN "Cmd" ELSE "Idle"
  /\ UNCHANGED <<type, payload_len, CRCReceived, ofs, buf, crc_header, raw>>

\* Anything but A5 is skipped, another 5A as well.
Cmd(c) ==
  /\ status = "Cmd" /\ type' = c
  /\ status' = IF c = Second THEN "LenLow" ELSE "Cmd"
  /\ raw' = << >>
  /\ UNCHANGED <<payload_len, CRCReceived, ofs, buf, crc_header>>

LenLow(c) ==
  /\ Header(c, "LenLow", "LenHigh") /\ payload_len' = c
  /\ crc_header' = <<c, crc_header[2]>>
  /\ UNCHANGED <<type, CRCReceived, ofs, buf>>

LenHigh(c) ==
  /\ Header(c, "LenHigh", "CRCLow") /\ payload_len' = payload_len + Radix * c
  /\ crc_header' = <<crc_header[1], c>>
  /\ UNCHANGED <<type, CRCReceived, ofs, buf>>

CRCLow(c) ==
  /\ Header(c, "CRCLow", "CRCHigh") /\ CRCReceived' = c
  /\ UNCHANGED <<type, payload_len, ofs, buf, crc_header>>

\* mutant: the place of an abandoned packet is kept
MutPlace == ofs

Place == 0

CRCHigh(c) ==
  /\ Header(c, "CRCHigh", "Data") /\ CRCReceived' = CRCReceived + Radix * c
  /\ ofs' = Place
  /\ UNCHANGED <<type, payload_len, buf, crc_header>>

\* mutant: the buffer may be filled one further
MutFull == ofs + 1 > MAX_PACKET_LEN

Full == ofs + 1 >= MAX_PACKET_LEN

\* The CRC runs over 5A, A5, the length and what was stored.
Agrees ==
  LET data == [k \in 1 .. ofs' |-> buf'[k - 1]]
  IN  Crc(<<First, Second>> \o crc_header \o data) = CRCReceived

\* A full buffer ends the packet before its length is looked at; a length of 0
\* takes a byte, too.
Data(c) ==
  /\ status = "Data"
  /\ buf' = [buf EXCEPT ![ofs] = c] /\ ofs' = ofs + 1
  /\ status' = IF Full \/ ofs' >= payload_len THEN "Idle" ELSE "Data"
  /\ event' = IF ~Full /\ ofs' >= payload_len /\ Agrees
              THEN [k \in 1 .. payload_len |-> buf'[k - 1]] ELSE << >>
  /\ raw' = Append(raw, c)
  /\ UNCHANGED <<type, payload_len, CRCReceived, crc_header>>

packet_decode(c) ==
  \/ /\ Idle(c) \/ Cmd(c) \/ LenLow(c) \/ LenHigh(c) \/ CRCLow(c) \/ CRCHigh(c)
     /\ event' = << >>
  \/ Data(c)

Next == \E c \in Byte : packet_decode(c)

Spec == Init /\ [][Next]_vars

-----------------------------------------------------------------------------
(***************************************************************************)
(* event_handler gets bytes of one packet only: what came behind a single  *)
(* header, as long as that header said, and in agreement with its CRC;     *)
(* nothing an abandoned packet left in the buffer, the length or the CRC.  *)
(***************************************************************************)
DeliveredWhole ==
  event # << >> =>
    /\ raw[1] + Radix * raw[2] = Len(event)
    /\ Len(raw) = 4 + Len(event)
    /\ \A k \in 1 .. Len(event) : event[k] = raw[4 + k]
    /\ Crc(<<First, Second>> \o <<raw[1], raw[2]>> \o event)
         = raw[3] + Radix * raw[4]
=============================================================================
