----------------------------- MODULE VirtualUart -----------------------------
(***************************************************************************)
(* The serial port made of two pins (virtual_uart.c) and the main loop     *)
(* that echoes lines with it.  The falling edge of a start bit enters      *)
(* EXTI15_10_IRQHandler, which stays there for the whole byte and samples  *)
(* PA10 in the middle of each bit; main writes a line back to PA9 bit by   *)
(* bit.  Time is counted in bits: one BitTime moves the host's waveform on *)
(* and takes the sample that falls into it.  Main runs between two bit     *)
(* times whenever the handler is not running.                              *)
(***************************************************************************)
EXTENDS Integers, Sequences

CONSTANTS
  Bits,        \* data bits of a frame: 8 in the code
  CR, LF, NUL, \* 0x0d, 0x0a and '\0', each a sequence of Bits bits
  Chars,       \* the bytes the host sends
  UART_SIZE,   \* bytes in uart_read_buf
  MaxSent      \* bound: bytes the host sends altogether

Byte == [1 .. Bits -> {0, 1}]

ASSUME BitsAssumption == Bits \in Nat /\ Bits > 1
ASSUME SizeAssumption == UART_SIZE \in Nat /\ UART_SIZE > 0
ASSUME CodesAssumption == {CR, LF, NUL} \cup Chars \subseteq Byte /\ CR # LF
ASSUME BoundAssumption == MaxSent \in Nat

VARIABLES
  frame, at,          \* the host's frame and the bit of it on PA10, 0: line idle
  isr, data,          \* bits since the handler was entered, 0: not running; samples
  enter, nline, idx,  \* uart_read_status: its two flags and its low 14 bits
  buf,                \* uart_read_buf and the byte behind it
  pc, pos, out,       \* main: where it is, the next byte to send, levels of PA9
  sent,               \* bytes the host has begun
  heard, slip, spilt  \* history: bytes whole since main's last reset; that reset
                      \* fell into a frame; a store went behind the buffer

wire == <<frame, at, sent>>
status == <<enter, nline, idx>>
main == <<pc, pos, out>>
vars == <<wire, isr, data, status, buf, main, heard, slip, spilt>>

Stop == Bits + 2
Level(c, k) == IF k = 1 THEN 0 ELSE IF k \in 2 .. Bits + 1 THEN c[k - 1] ELSE 1
Falling == Level(frame, at) = 1 /\ Level(frame', at') = 0

\* The state variables keep their ranges: the index never passes UART_SIZE, so
\* that no store of the handler goes further than one byte behind the buffer.
TypeOK ==
  /\ frame \in Byte /\ at \in 0 .. Stop /\ sent \in 0 .. MaxSent
  /\ isr \in 0 .. Bits /\ data \in Seq({0, 1})
  /\ isr > 0 => Len(data) = isr - 1
  /\ enter \in BOOLEAN /\ nline \in BOOLEAN /\ idx \in 0 .. UART_SIZE
  /\ buf \in [0 .. UART_SIZE -> Byte]
  /\ pc \in {"wait", "send", "clear"} /\ pos \in 0 .. UART_SIZE /\ out \in Seq({0, 1})
  /\ heard \in Seq(Byte) /\ slip \in BOOLEAN /\ spilt \in BOOLEAN

Init ==
  /\ frame = NUL /\ at = 0 /\ sent = 0
  /\ isr = 0 /\ data = << >>
  /\ enter = FALSE /\ nline = FALSE /\ idx = 0
  /\ buf = [i \in 0 .. UART_SIZE |-> NUL]
  /\ pc = "wait" /\ pos = 0 /\ out = << >>
  /\ heard = << >> /\ slip = FALSE /\ spilt = FALSE

-----------------------------------------------------------------------------
(* The host sends when it likes, also while it is being echoed.            *)

HostBit ==
  \/ at \in 1 .. Bits + 1 /\ at' = at + 1 /\ UNCHANGED <<frame, sent>>
  \/ at \in {0, Stop} /\ at' = 0 /\ UNCHANGED <<frame, sent>>
  \/ /\ at \in {0, Stop} /\ at' = 1 /\ frame' \in Chars
     /\ sent < MaxSent /\ sent' = sent + 1

-----------------------------------------------------------------------------
(* The handler, once a byte is complete.                                   *)

Newline(ret) ==
  /\ enter /\ ret = LF /\ nline' = TRUE
  /\ UNCHANGED <<enter, idx, buf, spilt>>

Dropped(ret) ==
  /\ enter /\ ret # LF
  /\ enter' = FALSE /\ nline' = FALSE /\ idx' = 0
  /\ UNCHANGED <<buf, spilt>>

\* The linker says what lies behind uart_read_buf and takes a store one too far:
\* nothing of interest, or the low half of uart_read_status, declared next.
Return(ret) ==
  /\ ~enter /\ ret = CR /\ enter' = TRUE
  /\ buf' = [buf EXCEPT ![idx] = NUL]
  /\ idx' \in IF idx = UART_SIZE THEN {idx, 0} ELSE {idx}
  /\ spilt' = (spilt \/ idx = UART_SIZE)
  /\ UNCHANGED nline

\* mutant: the index may go one further
MutFull(i) == i > UART_SIZE + 1

Full(i) == i > UART_SIZE

Store(ret) ==
  /\ ~enter /\ ret # CR
  /\ buf' = [buf EXCEPT ![idx] = ret]
  /\ spilt' = (spilt \/ idx = UART_SIZE)
  /\ \/ idx' = IF Full(idx + 1) THEN 0 ELSE idx + 1
     \/ idx = UART_SIZE /\ idx' \in 0 .. UART_SIZE
  /\ UNCHANGED <<enter, nline>>

Complete(ret) == Newline(ret) \/ Dropped(ret) \/ Return(ret) \/ Store(ret)

\* mutant: the handler also receives while a line waits
MutListening == TRUE

Listening == ~nline

Receiver == <<status, buf, spilt>>

NoEdge == isr = 0 /\ ~Falling /\ UNCHANGED <<isr, data, Receiver>>

EdgeIgnored == isr = 0 /\ Falling /\ ~Listening /\ UNCHANGED <<isr, data, Receiver>>

EdgeTaken ==
  /\ isr = 0 /\ Falling /\ Listening
  /\ isr' = 1 /\ data' = << >>
  /\ UNCHANGED Receiver

Sample ==
  /\ isr \in 1 .. Bits - 1 /\ isr' = isr + 1
  /\ data' = Append(data, Level(frame', at'))
  /\ UNCHANGED Receiver

\* Clean_ExtiInter ORs the bit of line 11 into PND: a register whose ones clear
\* is written back with every bit that was set, so the edges of the byte go too.
LastSample ==
  /\ isr = Bits
  /\ Complete(Append(data, Level(frame', at')))
  /\ isr' = 0 /\ data' = << >>

EXTI15_10_IRQHandler == NoEdge \/ EdgeIgnored \/ EdgeTaken \/ Sample \/ LastSample

History ==
  /\ heard' = IF at' = Bits + 1 /\ ~slip /\ ~nline THEN Append(heard, frame) ELSE heard
  /\ slip' = (slip /\ ~(at' = 0 /\ isr' = 0 /\ idx' = 0 /\ ~enter'))

BitTime == HostBit /\ EXTI15_10_IRQHandler /\ History /\ UNCHANGED main

-----------------------------------------------------------------------------
(* main: while (1) { if a line is complete, uartsend_data, reset }.        *)

Found ==
  /\ isr = 0 /\ pc = "wait" /\ nline
  /\ pc' = "send" /\ pos' = 0 /\ out' = << >>
  /\ UNCHANGED <<wire, isr, data, status, buf, heard, slip, spilt>>

\* mutant: the stop bit is left out of the data
MutPattern(c) == <<0>> \o c \o <<0>>

\* data |= 1 << 8, data <<= 1: a low bit, the byte, a high bit
Pattern(c) == <<0>> \o c \o <<1>>

virtual_serial ==
  /\ isr = 0 /\ pc = "send" /\ buf[pos] # NUL
  /\ out' = out \o Pattern(buf[pos])
  /\ pos' = pos + 1
  /\ UNCHANGED <<wire, isr, data, status, buf, pc, heard, slip, spilt>>

Sent ==
  /\ isr = 0 /\ pc = "send" /\ buf[pos] = NUL
  /\ pc' = "clear"
  /\ UNCHANGED <<wire, isr, data, status, buf, pos, out, heard, slip, spilt>>

\* uart_read_status = 0, whatever is on the line.
Reset ==
  /\ isr = 0 /\ pc = "clear"
  /\ pc' = "wait" /\ out' = << >> /\ pos' = 0
  /\ enter' = FALSE /\ nline' = FALSE /\ idx' = 0
  /\ heard' = << >> /\ spilt' = FALSE /\ slip' = (at \in 1 .. Bits)
  /\ UNCHANGED <<wire, isr, data, buf>>

MainLoop == Found \/ virtual_serial \/ Sent \/ Reset

Next == BitTime \/ MainLoop

Spec == Init /\ [][Next]_vars

-----------------------------------------------------------------------------
(***************************************************************************)
(* delayus has one SysTick for everybody: a delay of the handler would end *)
(* the delay of a bit main is sending.  The handler never delays while     *)
(* main sends, nor while main resets the status behind a line: NLINE is    *)
(* set all that time.                                                      *)
(***************************************************************************)
DelayNotShared == isr # 0 => pc = "wait" /\ ~nline

(***************************************************************************)
(* What the host reads back is the line it sent: the bytes up to a CR LF,  *)
(* from the beginning or from behind a CR that had no LF, as far as the    *)
(* first zero byte of them, each in a frame of its own.  Lines of          *)
(* UART_SIZE bytes and more are excepted, and lines that began while main  *)
(* reset the status in the middle of a frame, until the host was silent.   *)
(***************************************************************************)
Echoed == [k \in 1 .. Len(out) \div Stop |->
             SubSeq(out, (k - 1) * Stop + 2, (k - 1) * Stop + Bits + 1)]
Framed == \A k \in 1 .. Len(out) \div Stop :
            out[(k - 1) * Stop + 1] = 0 /\ out[k * Stop] = 1

EchoIsLine ==
  pc = "clear" /\ ~slip /\ ~spilt =>
    \E first \in 1 .. Len(heard) - 1 :
      LET line == SubSeq(heard, first, Len(heard) - 2)
      IN  /\ SubSeq(heard, Len(heard) - 1, Len(heard)) = <<CR, LF>>
          /\ first = 1 \/ (first > 2 /\ heard[first - 2] = CR)
          /\ \A k \in DOMAIN line : line[k] # CR
          /\ Echoed = SubSeq(line, 1, Len(Echoed)) /\ Framed
          /\ \A k \in DOMAIN Echoed : line[k] # NUL
          /\ Len(Echoed) < Len(line) => line[Len(Echoed) + 1] = NUL
=============================================================================
