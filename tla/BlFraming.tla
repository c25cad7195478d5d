------------------------------ MODULE BlFraming ------------------------------
(***************************************************************************)
(* The byte parser of the serial bootloader (analysis_packet, check_crc).  *)
(* main feeds it one received byte at a time; it assembles a framing       *)
(* packet                                                                  *)
(*      5A, type, len_low, len_high, crc_low, crc_high, data[0..len-1]     *)
(* in fp_t and hands a packet whose CRC agrees to the command or the data  *)
(* handler.  The handlers are modelled in Bootloader: the only thing they  *)
(* do to the parser's own state is to clear fp_t when they send a response.*)
(***************************************************************************)
EXTENDS Integers, Sequences

CONSTANTS
  Radix,                        \* values of a byte: 256 in the code
  Bytes,                        \* the bytes the line may carry
  StartByte, Ack, Nak, AckAbort, Command, Data, Ping, PingResponse,
  LENGTH,                       \* bytes in fp_t.data
  packet_size,                  \* the longest payload main accepts
  Crc(_),                       \* crc_update of a sequence of bytes
  StackJunk                     \* what main's stack may hold in fp_t at boot

Byte == 0 .. Radix - 1
Types == {Ack, Nak, AckAbort, Command, Data, Ping, PingResponse}
CountWrap == Radix * Radix      \* count and length are uint16_t

Packet == [start_byte : Byte, packet_type : Byte, len_low : Byte,
           len_high : Byte, crc_low : Byte, crc_high : Byte,
           data : [0 .. LENGTH - 1 -> Byte]]

ZeroPacket == [start_byte |-> 0, packet_type |-> 0, len_low |-> 0,
               len_high |-> 0, crc_low |-> 0, crc_high |-> 0,
               data |-> [i \in 0 .. LENGTH - 1 |-> 0]]

ASSUME RadixAssumption == Radix \in Nat /\ Radix > 1
ASSUME BytesAssumption == Bytes \subseteq Byte /\ Types \cup {StartByte} \subseteq Byte
ASSUME TypesAssumption ==
  /\ Ack \notin {Nak, AckAbort, Command, Data, Ping, PingResponse}
  /\ Nak \notin {AckAbort, Command, Data, Ping, PingResponse}
  /\ AckAbort \notin {Command, Data, Ping, PingResponse}
  /\ Command \notin {Data, Ping, PingResponse}
  /\ Data \notin {Ping, PingResponse}
  /\ Ping # PingResponse
\* bl.h sizes the buffer with LENGTH, main.c the check with PACKET_SIZE.
ASSUME SizeAssumption ==
  /\ LENGTH \in Nat \ {0}
  /\ packet_size \in Nat
  /\ packet_size <= LENGTH
  /\ LENGTH < CountWrap
ASSUME JunkAssumption == StackJunk \subseteq Packet

VARIABLES
  status,       \* bl_variate.status, or "Fault" once a stray store was fatal
  count,        \* bl_variate.count
  length,       \* bl_variate.length
  app_flag,     \* bl_variate.app_flag
  fp,           \* main's fp_t
  event,        \* what the last byte made the bootloader do
  raw,          \* history: the bytes of this packet, from its type on
  overrun       \* history: a byte was stored behind fp_t.data

vars == <<status, count, length, app_flag, fp, event, raw, overrun>>

\* The parser's fields keep their C types (uint8_t, uint16_t) and its status is
\* one of the enumeration, whatever bytes arrive.
TypeOK ==
  /\ status \in {"Start", "Cmd", "LenLow", "LenHigh", "CrcLow", "CrcHigh",
                 "Data", "Fault"}
  /\ count \in 0 .. CountWrap - 1
  /\ length \in 0 .. CountWrap - 1
  /\ app_flag \in BOOLEAN
  /\ fp \in Packet
  /\ event \in {"none", "pong", "command", "data", "unhandled", "badCrc"}
  /\ raw \in Seq(Byte)
  /\ overrun \in BOOLEAN

\* bl_variate is static and zero; fp_t is an uninitialised local of main.
Init ==
  /\ status = "Start" /\ count = 0 /\ length = 0 /\ app_flag = FALSE
  /\ fp \in StackJunk
  /\ event = "none" /\ raw = << >> /\ overrun = FALSE

-----------------------------------------------------------------------------
(* check_crc: the CRC covers the first four header bytes and the payload.  *)

Payload(f, n) == [i \in 1 .. n |-> f.data[i - 1]]

CrcAgrees(f, n) ==
  Crc(<<f.start_byte, f.packet_type, f.len_low, f.len_high>> \o Payload(f, n))
    = f.crc_low + Radix * f.crc_high

\* A handler that answers clears fp_t (memset); the others leave it alone.
handled(f, kind) == event' = kind /\ fp' \in {f, ZeroPacket}

check_crc(f, n) ==
  \/ /\ n <= LENGTH /\ CrcAgrees(f, n) /\ f.packet_type = Command
     /\ handled(f, "command")
  \/ /\ n <= LENGTH /\ CrcAgrees(f, n) /\ f.packet_type = Data
     /\ handled(f, "data")
  \/ /\ n <= LENGTH /\ CrcAgrees(f, n) /\ f.packet_type \notin {Command, Data}
     /\ event' = "unhandled" /\ fp' = f
  \/ /\ n <= LENGTH /\ ~CrcAgrees(f, n)
     /\ event' = "badCrc" /\ fp' = f
  \* packet_buf is overrun too, and the bytes it is filled with are not ours
  \/ /\ n > LENGTH
     /\ IF f.packet_type = Command THEN handled(f, "command")
        ELSE IF f.packet_type = Data THEN handled(f, "data")
        ELSE event' \in {"unhandled", "badCrc"} /\ fp' = f

-----------------------------------------------------------------------------
(* analysis_packet, one action for each case of its switch.                *)

\* mutant: the start byte is seen but not stored in the packet
MutAtStart(b) ==
  /\ status = "Start"
  /\ IF b = StartByte
     THEN app_flag' = TRUE /\ status' = "Cmd"
     ELSE UNCHANGED <<app_flag, status>>
  /\ raw' = << >> /\ event' = "none"
  /\ UNCHANGED <<count, length, overrun, fp>>

AtStart(b) ==
  /\ status = "Start"
  /\ IF b = StartByte
     THEN /\ app_flag' = TRUE /\ status' = "Cmd"
          /\ fp' = [fp EXCEPT !.start_byte = b]
     ELSE UNCHANGED <<app_flag, status, fp>>
  /\ raw' = << >> /\ event' = "none"
  /\ UNCHANGED <<count, length, overrun>>

\* The byte behind the start byte.  Nak and AckAbort only break out of the
\* switch: the parser keeps waiting for a type.
CmdSkip(b) ==
  /\ status = "Cmd" /\ b \in {Nak, AckAbort}
  /\ event' = "none"
  /\ UNCHANGED <<status, count, length, app_flag, fp, raw, overrun>>

CmdDrop(b) ==
  /\ status = "Cmd" /\ (b = Ack \/ b \notin Types)
  /\ status' = "Start" /\ event' = "none"
  /\ UNCHANGED <<count, length, app_flag, fp, raw, overrun>>

CmdPacket(b) ==
  /\ status = "Cmd" /\ b \in {Command, Data}
  /\ fp' = [fp EXCEPT !.packet_type = b]
  /\ status' = "LenLow" /\ event' = "none" /\ raw' = <<b>>
  /\ UNCHANGED <<count, length, app_flag, overrun>>

CmdPing(b) ==
  /\ status = "Cmd" /\ b = Ping
  /\ fp' = [fp EXCEPT !.packet_type = b]
  /\ status' = "Start" /\ event' = "pong"
  /\ UNCHANGED <<count, length, app_flag, raw, overrun>>

\* A ping response goes straight to the data state, with the length the last
\* header left behind.
CmdPingResponse(b) ==
  /\ status = "Cmd" /\ b = PingResponse
  /\ fp' = [fp EXCEPT !.packet_type = b]
  /\ status' = "Data" /\ event' = "none"
  /\ UNCHANGED <<count, length, app_flag, raw, overrun>>

AtLenLow(b) ==
  /\ status = "LenLow"
  /\ fp' = [fp EXCEPT !.len_low = b]
  /\ status' = "LenHigh" /\ event' = "none" /\ raw' = Append(raw, b)
  /\ UNCHANGED <<count, length, app_flag, overrun>>

\* mutant: the length check is off by one
MutAtLenHigh(b) ==
  /\ status = "LenHigh"
  /\ fp' = [fp EXCEPT !.len_high = b]
  /\ length' = fp.len_low + Radix * b
  /\ status' = IF length' <= packet_size + 1 THEN "CrcLow" ELSE "Start"
  /\ event' = "none" /\ raw' = Append(raw, b)
  /\ UNCHANGED <<count, app_flag, overrun>>

\* mutant: the parser does not return to its start
MutAtLenHighStays(b) ==
  /\ status = "LenHigh"
  /\ fp' = [fp EXCEPT !.len_high = b]
  /\ length' = fp.len_low + Radix * b
  /\ IF length' <= packet_size THEN status' = "CrcLow" /\ raw' = Append(raw, b)
     ELSE UNCHANGED <<status, raw>>
  /\ event' = "none"
  /\ UNCHANGED <<count, app_flag, overrun>>

\* A packet that is too long is dropped without a word to the host.
AtLenHigh(b) ==
  /\ status = "LenHigh"
  /\ fp' = [fp EXCEPT !.len_high = b]
  /\ length' = fp.len_low + Radix * b
  /\ status' = IF length' <= packet_size THEN "CrcLow" ELSE "Start"
  /\ event' = "none" /\ raw' = Append(raw, b)
  /\ UNCHANGED <<count, app_flag, overrun>>

AtCrcLow(b) ==
  /\ status = "CrcLow"
  /\ fp' = [fp EXCEPT !.crc_low = b]
  /\ status' = "CrcHigh" /\ event' = "none" /\ raw' = Append(raw, b)
  /\ UNCHANGED <<count, length, app_flag, overrun>>

AtCrcHigh(b) ==
  /\ status = "CrcHigh"
  /\ fp' = [fp EXCEPT !.crc_high = b]
  /\ status' = "Data" /\ event' = "none" /\ raw' = Append(raw, b)
  /\ UNCHANGED <<count, length, app_flag, overrun>>

\* A store with an index past the array hits main's stack above fp_t.
Stored(b) == IF count < LENGTH THEN [fp EXCEPT !.data[count] = b] ELSE fp

\* mutant: a counter that is wider than uint16_t
MutNext_count == count + 1

Next_count == (count + 1) % CountWrap

DataMore(b) ==
  /\ status = "Data" /\ Next_count # length
  /\ fp' = Stored(b) /\ count' = Next_count
  /\ event' = "none"
  /\ raw' = IF count < LENGTH THEN Append(raw, b) ELSE raw
  /\ overrun' = (overrun \/ count >= LENGTH)
  /\ UNCHANGED <<status, length, app_flag>>

DataLast(b) ==
  /\ status = "Data" /\ Next_count = length
  /\ status' = "Start" /\ count' = 0
  /\ check_crc(Stored(b), length)
  /\ raw' = IF count < LENGTH THEN Append(raw, b) ELSE raw
  /\ overrun' = (overrun \/ count >= LENGTH)
  /\ UNCHANGED <<length, app_flag>>

analysis_packet(b) ==
  \/ AtStart(b)
  \/ CmdSkip(b) \/ CmdDrop(b) \/ CmdPacket(b) \/ CmdPing(b) \/ CmdPingResponse(b)
  \/ AtLenLow(b) \/ AtLenHigh(b) \/ AtCrcLow(b) \/ AtCrcHigh(b)
  \/ DataMore(b) \/ DataLast(b)

\* Stray stores may be harmless (unused stack) or, at any later time, fatal.
Fault ==
  /\ overrun /\ status # "Fault"
  /\ status' = "Fault" /\ event' = "none"
  /\ UNCHANGED <<count, length, app_flag, fp, raw, overrun>>

Receive == \E b \in Bytes : analysis_packet(b)

Next == Receive \/ Fault

Spec == Init /\ [][Next]_vars

\* The same parser on a line that keeps delivering bytes: main polls the UART
\* forever, so a byte that arrives is analysed.
FairSpec == Spec /\ WF_vars(Receive)

-----------------------------------------------------------------------------
RawLength == raw[2] + Radix * raw[3]

(***************************************************************************)
(* What reaches a handler was sent: the bytes since the packet's type are  *)
(* one contiguous packet of that type, no longer than packet_size, whose   *)
(* CRC agrees, and the handler reads exactly its payload.  The one hole is *)
(* length 0, where the parser takes 65536 bytes before it looks at the CRC *)
(* of the header.                                                          *)
(***************************************************************************)
DispatchIntegrity ==
  event \in {"command", "data"} =>
    /\ Len(raw) >= 5
    /\ raw[1] = (IF event = "command" THEN Command ELSE Data)
    /\ RawLength <= packet_size
    /\ RawLength # 0 => Len(raw) = 5 + RawLength
    /\ Len(raw) >= 5 + RawLength
    /\ Crc(<<StartByte, raw[1], raw[2], raw[3]>>
             \o [i \in 1 .. RawLength |-> raw[i + 5]])
         = raw[4] + Radix * raw[5]
    /\ fp # ZeroPacket => \A i \in 1 .. RawLength : fp.data[i - 1] = raw[i + 5]

(***************************************************************************)
(* The only packets that store outside fp_t.data are those of length 0 and *)
(* ping responses that run on a stale length: whatever came before it, a   *)
(* command or data packet whose header announces 1..packet_size bytes      *)
(* stays inside the buffer.                                                *)
(***************************************************************************)
StrayStores ==
  [][overrun' # overrun => length = 0 \/ fp.packet_type = PingResponse]_vars

(***************************************************************************)
(* Between packets nothing is left of the last one: count, which only      *)
(* DataLast resets, is zero whenever the parser is not in a payload, so no *)
(* packet is stored or measured from a stale offset; within a payload it   *)
(* is behind the announced length, so the packet's end cannot be missed.   *)
(***************************************************************************)
NoStaleCount ==
  /\ status \notin {"Data", "Fault"} => count = 0
  /\ (status = "Data" /\ length # 0) => count < length

(***************************************************************************)
(* On a line that keeps delivering bytes, a packet whose type was accepted *)
(* ends: no header or payload leaves the parser stuck.                     *)
(***************************************************************************)
PacketEnds == status = "LenLow" ~> status \in {"Start", "Fault"}
=============================================================================
