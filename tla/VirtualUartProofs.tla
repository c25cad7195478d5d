-------------------------- MODULE VirtualUartProofs --------------------------
(***************************************************************************)
(* Type correctness of VirtualUart, the mutual exclusion of the two users  *)
(* of SysTick, and what the host reads back, for every frame length,       *)
(* buffer size and host.                                                   *)
(***************************************************************************)
EXTENDS VirtualUart, TLAPS

\* While main is busy with a line NLINE is set, and the handler sleeps; a line
\* has ended somewhere in the buffer before main looks for its end.
Exclusion ==
  /\ DelayNotShared
  /\ pc # "wait" => nline
  /\ nline => enter

Ended ==
  /\ enter => \E k \in 0 .. UART_SIZE : buf[k] = NUL
  /\ pc = "send" => \E k \in pos .. UART_SIZE : buf[k] = NUL

IInv == TypeOK /\ Exclusion /\ Ended

USE BitsAssumption, SizeAssumption, CodesAssumption, BoundAssumption
    DEF BitsAssumption, SizeAssumption, CodesAssumption, BoundAssumption

LEMMA LevelType == ASSUME NEW c \in Byte, NEW k \in Nat PROVE Level(c, k) \in {0, 1}
  BY DEF Level, Byte

LEMMA CompleteByte ==
  ASSUME NEW s \in Seq({0, 1}), Len(s) = Bits - 1, NEW v \in {0, 1}
  PROVE  Append(s, v) \in Byte
<1> DEFINE t == Append(s, v)
<1>1. t \in Seq({0, 1}) /\ Len(t) = Bits
  OBVIOUS
<1> HIDE DEF t
<1>2. t \in [1 .. Len(t) -> {0, 1}]
  BY <1>1
<1>3. t \in Byte
  BY <1>1, <1>2 DEF Byte
<1> QED BY <1>3 DEF t

LEMMA PatternType == ASSUME NEW c \in Byte PROVE Pattern(c) \in Seq({0, 1})
<1>1. c \in Seq({0, 1})
  BY DEF Byte
<1>2. <<0>> \in Seq({0, 1}) /\ <<1>> \in Seq({0, 1})
  OBVIOUS
<1> QED BY <1>1, <1>2 DEF Pattern

LEMMA InitInv == Init => IInv
<1> SUFFICES ASSUME Init PROVE IInv
  OBVIOUS
<1> QED BY DEF Init, IInv, TypeOK, Exclusion, DelayNotShared, Ended, Byte, Stop

-----------------------------------------------------------------------------
(* A completed byte is filed away by one of four actions; none of them     *)
(* sees the host or main.                                                  *)

LEMMA CompleteKeeps ==
  ASSUME IInv, isr # 0, NEW ret \in Byte, Complete(ret), pc' = pc, pos' = pos
  PROVE  /\ enter' \in BOOLEAN /\ nline' \in BOOLEAN /\ idx' \in 0 .. UART_SIZE
         /\ buf' \in [0 .. UART_SIZE -> Byte] /\ spilt' \in BOOLEAN
         /\ nline' => enter'
         /\ Ended'
<1> USE DEF IInv, TypeOK, Exclusion, DelayNotShared, Ended
<1>0. pc' = "wait" /\ ~nline
  OBVIOUS
<1>1. CASE Newline(ret)
  BY <1>0, <1>1 DEF Newline
<1>2. CASE Dropped(ret)
  BY <1>0, <1>2 DEF Dropped
<1>3. CASE Return(ret)
  <2>1. buf' \in [0 .. UART_SIZE -> Byte] /\ buf'[idx] = NUL
    BY <1>3 DEF Return
  <2>2. idx' \in 0 .. UART_SIZE /\ idx \in 0 .. UART_SIZE
    BY <1>3 DEF Return
  <2> QED BY <1>0, <1>3, <2>1, <2>2 DEF Return
<1>4. CASE Store(ret)
  <2>1. buf' \in [0 .. UART_SIZE -> Byte]
    BY <1>4 DEF Store
  <2>2. idx' \in 0 .. UART_SIZE
    BY <1>4 DEF Store, Full
  <2> QED BY <1>0, <1>4, <2>1, <2>2 DEF Store
<1> QED BY <1>1, <1>2, <1>3, <1>4 DEF Complete

LEMMA BitTimeKeeps == ASSUME IInv, BitTime PROVE IInv'
<1>1. frame' \in Byte /\ at' \in 0 .. Stop /\ sent' \in 0 .. MaxSent
  BY DEF BitTime, HostBit, IInv, TypeOK, Stop
<1>2. UNCHANGED main /\ main' = <<pc', pos', out'>>
  BY DEF BitTime, main
<1>3. heard' \in Seq(Byte) /\ slip' \in BOOLEAN
  BY DEF BitTime, History, IInv, TypeOK
<1>4. Level(frame', at') \in {0, 1}
  BY <1>1, LevelType DEF Stop
<1>5. ASSUME UNCHANGED <<isr, data, Receiver>> PROVE IInv'
  BY <1>1, <1>2, <1>3, <1>5
     DEF IInv, TypeOK, Exclusion, DelayNotShared, Ended, Receiver, status, main
<1>6. CASE EdgeTaken
  BY <1>1, <1>2, <1>3, <1>6
     DEF EdgeTaken, Listening, IInv, TypeOK, Exclusion, DelayNotShared, Ended, Receiver,
         status, main
<1>7. CASE Sample
  <2>1. isr' \in 0 .. Bits /\ data' \in Seq({0, 1}) /\ Len(data') = isr' - 1
    BY <1>4, <1>7 DEF Sample, IInv, TypeOK
  <2> QED BY <1>1, <1>2, <1>3, <1>7, <2>1
        DEF Sample, IInv, TypeOK, Exclusion, DelayNotShared, Ended, Receiver, status, main
<1>8. CASE LastSample
  <2> DEFINE ret == Append(data, Level(frame', at'))
  <2>1. ret \in Byte
    BY <1>4, <1>8, CompleteByte DEF LastSample, IInv, TypeOK
  <2>2. Complete(ret) /\ isr' = 0 /\ data' = << >> /\ isr # 0
    BY <1>8 DEF LastSample
  <2>3. /\ enter' \in BOOLEAN /\ nline' \in BOOLEAN /\ idx' \in 0 .. UART_SIZE
        /\ buf' \in [0 .. UART_SIZE -> Byte] /\ spilt' \in BOOLEAN
        /\ nline' => enter'
        /\ Ended'
    <3> HIDE DEF ret
    <3> QED BY <1>2, <2>1, <2>2, CompleteKeeps DEF main
  <2>4. pc' = "wait"
    BY <1>2, <2>2 DEF main, IInv, Exclusion, DelayNotShared
  <2> QED BY <1>1, <1>2, <1>3, <2>2, <2>3, <2>4
        DEF IInv, TypeOK, Exclusion, DelayNotShared, main
<1> QED BY <1>5, <1>6, <1>7, <1>8
      DEF BitTime, EXTI15_10_IRQHandler, NoEdge, EdgeIgnored

-----------------------------------------------------------------------------
(* Main's steps.                                                           *)

LEMMA MainLoopKeeps == ASSUME IInv, MainLoop PROVE IInv'
<1> USE DEF IInv, TypeOK, Exclusion, DelayNotShared, Ended, wire, status
<1>1. CASE Found
  BY <1>1 DEF Found
<1>2. CASE virtual_serial
  <2>1. pos' \in 0 .. UART_SIZE /\ \E k \in pos' .. UART_SIZE : buf[k] = NUL
    BY <1>2 DEF virtual_serial
  <2>2. out' \in Seq({0, 1})
    BY <1>2, PatternType DEF virtual_serial
  <2> QED BY <1>2, <2>1, <2>2 DEF virtual_serial
<1>3. CASE Sent
  BY <1>3 DEF Sent
<1>4. CASE Reset
  <2>1. slip' \in BOOLEAN
    <3>1. CASE at \in 1 .. Bits
      BY <1>4, <3>1 DEF Reset
    <3>2. CASE at \notin 1 .. Bits
      BY <1>4, <3>2 DEF Reset
    <3> QED BY <3>1, <3>2
  <2>2. /\ pc' = "wait" /\ out' = << >> /\ pos' = 0 /\ heard' = << >> /\ spilt' = FALSE
        /\ enter' = FALSE /\ nline' = FALSE /\ idx' = 0
        /\ UNCHANGED <<wire, isr, data, buf>>
    BY <1>4 DEF Reset
  <2>3. TypeOK'
    <3>1. frame' \in Byte /\ at' \in 0 .. Stop /\ sent' \in 0 .. MaxSent
      BY <2>2
    <3>2. /\ isr' \in 0 .. Bits /\ data' \in Seq({0, 1})
          /\ isr' > 0 => Len(data') = isr' - 1
          /\ buf' \in [0 .. UART_SIZE -> Byte]
      BY <2>2
    <3>3. enter' \in BOOLEAN /\ nline' \in BOOLEAN /\ spilt' \in BOOLEAN
      BY <2>2
    <3>4. /\ idx' \in 0 .. UART_SIZE
          /\ pc' \in {"wait", "send", "clear"} /\ pos' \in 0 .. UART_SIZE
      BY <2>2
    <3>5. out' \in Seq({0, 1}) 
      BY <2>2
    <3>6. heard' \in Seq(Byte)
      BY <2>2
    <3> QED BY <2>1, <3>1, <3>2, <3>3, <3>4, <3>5, <3>6
  <2>4. Exclusion' /\ Ended'
    BY <1>4, <2>2 DEF Reset
  <2> QED BY <2>3, <2>4
<1> QED BY <1>1, <1>2, <1>3, <1>4 DEF MainLoop

LEMMA StutterKeeps == ASSUME IInv, UNCHANGED vars PROVE IInv'
  BY DEF vars, wire, status, main, IInv, TypeOK, Exclusion, DelayNotShared, Ended

LEMMA Invariance == Spec => []IInv
<1>1. IInv /\ [Next]_vars => IInv'
  BY BitTimeKeeps, MainLoopKeeps, StutterKeeps DEF Next
<1> QED BY InitInv, <1>1, PTL DEF Spec

\* The variables of the handler and of main keep their ranges, whatever the host
\* sends: no store of the handler goes further than one byte behind the buffer,
\* and main finds the end of the line inside it.
THEOREM TypeCorrect == Spec => []TypeOK
<1>1. IInv => TypeOK
  BY DEF IInv
<1> QED BY Invariance, <1>1, PTL

\* The handler never delays while main sends or resets the status.
THEOREM OneDelayAtATime == Spec => []DelayNotShared
<1>1. IInv => DelayNotShared
  BY DEF IInv, Exclusion
<1> QED BY Invariance, <1>1, PTL

-----------------------------------------------------------------------------
(* The line behind the status word.                                        *)

\* The handler is in step with the host's frames.
Sync ==
  ~nline /\ ~slip =>
    \/ isr = 0 /\ at \in {0, Bits + 1, Stop}
    \/ isr = at /\ isr \in 1 .. Bits /\ \A k \in 1 .. isr - 1 : data[k] = frame[k]

Ends == IF nline THEN 2 ELSE IF enter THEN 1 ELSE 0

\* The buffer holds what was heard from first on, but the end of the line.
Line(first) ==
  /\ first + idx + Ends = Len(heard) + 1
  /\ first = 1 \/ (first > 2 /\ heard[first - 2] = CR)
  /\ \A k \in 0 .. idx - 1 : heard[first + k] # CR /\ buf[k] = heard[first + k]
  /\ enter => heard[first + idx] = CR /\ buf[idx] = NUL
  /\ nline => heard[first + idx + 1] = LF

Buffered == ~slip /\ ~spilt => \E first \in 1 .. Len(heard) + 1 : Line(first)

Silent == slip => heard = << >>

\* What main has sent is the buffer up to pos.
Echoing ==
  pc # "wait" =>
    /\ Len(out) = pos * Stop
    /\ \A k \in 1 .. pos :
         /\ buf[k - 1] # NUL
         /\ out[(k - 1) * Stop + 1] = 0 /\ out[k * Stop] = 1
         /\ \A j \in 1 .. Bits : out[(k - 1) * Stop + 1 + j] = buf[k - 1][j]
    /\ pc = "clear" => buf[pos] = NUL

Heard == IInv /\ Sync /\ Buffered /\ Silent /\ Echoing

LEMMA InitHeard == Init => Heard
<1> SUFFICES ASSUME Init PROVE Heard
  OBVIOUS
<1>1. Sync /\ Silent /\ Echoing
  BY DEF Init, Sync, Silent, Echoing
<1>2. 1 \in 1 .. Len(heard) + 1 /\ Line(1)
  BY DEF Init, Line, Ends
<1> QED BY <1>1, <1>2, InitInv DEF Heard, Buffered

\* At its last sample the handler holds the byte of the frame.
LEMMA LastIsFrame ==
  ASSUME IInv, Sync, ~slip, HostBit, LastSample
  PROVE  /\ at' = Bits + 1 /\ frame' = frame /\ Append(data, Level(frame', at')) = frame
<1>1. isr = Bits /\ at = Bits /\ ~nline /\ \A k \in 1 .. Bits - 1 : data[k] = frame[k]
  BY DEF LastSample, Sync, IInv, Exclusion, DelayNotShared
<1>2. at' = Bits + 1 /\ frame' = frame
  BY <1>1 DEF HostBit, Stop
<1>3. Level(frame', at') = frame[Bits]
  BY <1>2 DEF Level
<1>4. data \in Seq({0, 1}) /\ Len(data) = Bits - 1 /\ frame \in Byte
  BY <1>1 DEF IInv, TypeOK
<1>5. Level(frame', at') \in {0, 1}
  BY <1>3, <1>4 DEF Byte
<1>6. Append(data, Level(frame', at')) \in Byte
  BY <1>4, <1>5, CompleteByte
<1>7. ASSUME NEW k \in 1 .. Bits PROVE Append(data, Level(frame', at'))[k] = frame[k]
  BY <1>1, <1>3, <1>4, <1>7
<1> QED BY <1>2, <1>4, <1>6, <1>7 DEF Byte

LEMMA HandlerInStep ==
  ASSUME IInv, Sync, BitTime, ~slip
  PROVE  /\ Sync' /\ slip' = FALSE
         /\ at' = Bits + 1 /\ ~nline <=> LastSample
<1>1. slip' = FALSE
  BY DEF BitTime, History
<1>2. nline => isr = 0
  BY DEF IInv, Exclusion, DelayNotShared
<1>3. isr \in 0 .. Bits /\ at \in 0 .. Stop
  BY DEF IInv, TypeOK
<1>4. CASE nline
  <2>1. ~LastSample /\ ~Sample /\ ~EdgeTaken
    BY <1>2, <1>4 DEF EdgeTaken, Sample, LastSample, Listening
  <2>2. UNCHANGED Receiver
    BY <2>1 DEF BitTime, EXTI15_10_IRQHandler, NoEdge, EdgeIgnored
  <2>3. nline'
    BY <1>4, <2>2 DEF Receiver, status
  <2>4. Sync'
    BY <2>3 DEF Sync
  <2> QED BY <1>1, <1>4, <2>1, <2>4
<1>5. CASE ~nline /\ isr = 0
  <2>1. at \in {0, Bits + 1, Stop}
    BY <1>5 DEF Sync
  <2>2. Level(frame, at) = (IF at = Bits + 1 THEN frame[Bits] ELSE 1)
    BY <2>1 DEF Level, Stop
  <2>3. \/ at = Bits + 1 /\ at' = Stop
        \/ at \in {0, Stop} /\ at' \in {0, 1}
    BY <2>1 DEF BitTime, HostBit, Stop
  <2>4. Falling <=> at \in {0, Stop} /\ at' = 1
    BY <2>2, <2>3 DEF Falling, Level, Stop
  <2>5. CASE Falling
    <3>1. EdgeTaken
      BY <1>5, <2>5 DEF BitTime, EXTI15_10_IRQHandler, NoEdge, EdgeIgnored, Sample, LastSample,
                        Listening
    <3> QED BY <1>1, <1>5, <2>4, <2>5, <3>1 DEF EdgeTaken, Sync, LastSample
  <2>6. CASE ~Falling
    <3>1. isr' = 0
      BY <1>5, <2>6 DEF BitTime, EXTI15_10_IRQHandler, NoEdge, EdgeIgnored, EdgeTaken, Sample,
                        LastSample
    <3>2. at' \in {0, Stop}
      BY <2>3, <2>4, <2>6
    <3> QED BY <1>1, <1>5, <3>1, <3>2 DEF LastSample, Sync, Stop
  <2> QED BY <2>5, <2>6
<1>6. CASE ~nline /\ isr \in 1 .. Bits - 1
  <2>1. isr = at /\ \A k \in 1 .. isr - 1 : data[k] = frame[k]
    BY <1>6 DEF Sync
  <2>2. at' = at + 1 /\ frame' = frame
    BY <1>6, <2>1 DEF BitTime, HostBit, Stop
  <2>3. Sample
    BY <1>6 DEF BitTime, EXTI15_10_IRQHandler, NoEdge, EdgeIgnored, EdgeTaken, LastSample
  <2>4. Level(frame', at') = frame[isr]
    BY <1>6, <2>1, <2>2 DEF Level
  <2>5. data \in Seq({0, 1}) /\ Len(data) = isr - 1
    BY <1>6 DEF IInv, TypeOK
  <2>6. data' = Append(data, frame[isr]) /\ isr' = isr + 1
    BY <2>3, <2>4 DEF Sample
  <2>7. \A k \in 1 .. isr' - 1 : data'[k] = frame'[k]
    BY <1>6, <2>1, <2>2, <2>5, <2>6
  <2>8. isr' = at' /\ isr' \in 1 .. Bits
    BY <1>6, <2>1, <2>2, <2>6
  <2> QED BY <1>1, <1>6, <2>1, <2>2, <2>7, <2>8 DEF Sync, LastSample
<1>7. CASE ~nline /\ isr = Bits
  <2>1. LastSample
    BY <1>7 DEF BitTime, EXTI15_10_IRQHandler, NoEdge, EdgeIgnored, EdgeTaken, Sample
  <2>2. isr' = 0 /\ at' = Bits + 1
    BY <2>1, LastIsFrame DEF BitTime, LastSample
  <2> QED BY <1>7, <1>1, <2>1, <2>2 DEF Sync
<1>8. isr = 0 \/ isr \in 1 .. Bits - 1 \/ isr = Bits
  BY <1>3
<1> QED BY <1>4, <1>5, <1>6, <1>7, <1>8, Zenon

\* Out of step, nothing counts until the host is silent and the status is empty.
LEMMA HandlerOutOfStep ==
  ASSUME IInv, Silent, BitTime, slip
  PROVE  Sync' /\ Buffered' /\ Silent'
<1>1. heard' = << >>
  BY DEF BitTime, History, Silent
<1>2. slip' \/ (at' = 0 /\ isr' = 0 /\ idx' = 0 /\ enter' = FALSE)
  <2>1. enter' \in BOOLEAN
    BY BitTimeKeeps DEF IInv, TypeOK
  <2> QED BY <2>1 DEF BitTime, History
<1>3. nline' => enter'
  BY BitTimeKeeps DEF IInv, Exclusion
<1>4. CASE slip'
  BY <1>1, <1>4 DEF Sync, Buffered, Silent
<1>5. CASE ~slip'
  <2>1. Sync' /\ Silent'
    BY <1>2, <1>5 DEF Sync, Silent
  <2>2. 1 \in 1 .. Len(heard') + 1 /\ Line(1)'
    BY <1>1, <1>2, <1>3, <1>5 DEF Line, Ends
  <2> QED BY <2>1, <2>2 DEF Buffered
<1> QED BY <1>4, <1>5

\* A byte heard is filed where the line has its place for it.
LEMMA ByteFiled ==
  ASSUME IInv, ~nline, NEW ret \in Byte, Complete(ret), heard' = Append(heard, ret),
         NEW first \in 1 .. Len(heard) + 1, Line(first), ~spilt'
  PROVE  \E f \in 1 .. Len(heard') + 1 : Line(f)'
<1> DEFINE n == Len(heard)
<1>1. n \in Nat /\ idx \in 0 .. UART_SIZE /\ enter \in BOOLEAN /\ nline = FALSE
  BY DEF IInv, TypeOK
<1>2. /\ Len(heard') = n + 1 /\ heard'[n + 1] = ret
      /\ \A k \in 1 .. n : heard'[k] = heard[k]
  BY DEF IInv, TypeOK
<1>3. first + idx + Ends = n + 1 /\ (first = 1 \/ (first > 2 /\ heard[first - 2] = CR))
  BY DEF Line
<1>4. \A k \in 0 .. idx - 1 : heard[first + k] # CR /\ buf[k] = heard[first + k]
  BY DEF Line
<1>5. enter => heard[first + idx] = CR /\ buf[idx] = NUL
  BY DEF Line
<1>6. first - 2 \in 1 .. n => heard'[first - 2] = heard[first - 2]
  BY <1>2
<1>7. first = 1 \/ (first > 2 /\ heard'[first - 2] = CR)
  BY <1>1, <1>3, <1>6
<1> HIDE DEF n
<1>8. \A k \in 0 .. idx - 1 : heard'[first + k] = heard[first + k]
  <2>1. \A k \in 0 .. idx - 1 : first + k \in 1 .. n
    BY <1>1, <1>3 DEF Ends
  <2> QED BY <1>2, <2>1
<1>9. CASE Newline(ret)
  <2>1. /\ enter = TRUE /\ enter' = TRUE /\ nline' = TRUE /\ idx' = idx /\ buf' = buf /\ ret = LF
    BY <1>1, <1>9 DEF Newline
  <2>2. first + idx = n /\ first + idx + 1 = n + 1
    BY <1>1, <1>3, <2>1 DEF Ends
  <2>3. heard'[first + idx] = CR /\ heard'[first + idx + 1] = LF
    BY <1>1, <1>2, <1>5, <2>1, <2>2
  <2>4. Ends' = 2
    BY <2>1 DEF Ends
  <2>5. first + idx' + Ends' = Len(heard') + 1
    BY <1>1, <1>2, <2>1, <2>2, <2>4
  <2>6. \A k \in 0 .. idx' - 1 : heard'[first + k] # CR /\ buf'[k] = heard'[first + k]
    BY <1>4, <1>8, <2>1
  <2>7. heard'[first + idx'] = CR /\ buf'[idx'] = NUL /\ heard'[first + idx' + 1] = LF
    BY <1>5, <2>1, <2>3
  <2>8. Line(first)'
    BY <1>7, <2>5, <2>6, <2>7 DEF Line
  <2> QED BY <1>1, <1>2, <2>8
<1>10. CASE Dropped(ret)
  <2>1. enter = TRUE /\ enter' = FALSE /\ nline' = FALSE /\ idx' = 0
    BY <1>1, <1>10 DEF Dropped
  <2>2. first + idx = n
    BY <1>1, <1>3, <2>1 DEF Ends
  <2>3. heard'[n] = CR /\ n >= 1
    BY <1>1, <1>2, <1>5, <2>1, <2>2
  <2>4. n + 2 \in 1 .. Len(heard') + 1 /\ (n + 2) - 2 = n /\ n + 2 > 2
    BY <1>1, <1>2, <2>3
  <2>5. Ends' = 0
    BY <2>1 DEF Ends
  <2>6. PICK f \in Nat : f = n + 2
    BY <1>1
  <2>7. f + idx' + Ends' = Len(heard') + 1
    BY <1>1, <1>2, <2>1, <2>5, <2>6
  <2>8. f > 2 /\ heard'[f - 2] = CR
    BY <2>3, <2>4, <2>6
  <2>9. Line(f)'
    BY <2>1, <2>7, <2>8 DEF Line
  <2> QED BY <2>4, <2>6, <2>9
<1>11. CASE Return(ret)
  <2>1. /\ enter = FALSE /\ enter' = TRUE /\ nline' = FALSE /\ ret = CR /\ idx # UART_SIZE
    BY <1>1, <1>11 DEF Return
  <2>2. idx' = idx /\ buf' = [buf EXCEPT ![idx] = NUL]
    BY <1>11, <2>1 DEF Return
  <2>3. first + idx = n + 1
    BY <1>1, <1>3, <2>1 DEF Ends
  <2>4. buf'[idx] = NUL /\ \A k \in 0 .. idx - 1 : buf'[k] = buf[k]
    BY <1>1, <2>2 DEF IInv, TypeOK
  <2>5. Ends' = 1
    BY <2>1 DEF Ends
  <2>6. first + idx' + Ends' = Len(heard') + 1
    BY <1>1, <1>2, <2>2, <2>3, <2>5
  <2>7. idx' = idx
    BY <2>2
  <2>8. \A k \in 0 .. idx' - 1 : heard'[first + k] # CR /\ buf'[k] = heard'[first + k]
    BY <1>4, <1>8, <2>4, <2>7
  <2>9. heard'[first + idx'] = CR /\ buf'[idx'] = NUL
    BY <1>2, <2>1, <2>3, <2>4, <2>7
  <2>10. Line(first)'
    BY <1>7, <2>1, <2>6, <2>8, <2>9 DEF Line
  <2> QED BY <1>1, <1>2, <2>10
<1>12. CASE Store(ret)
  <2>1. /\ enter = FALSE /\ enter' = FALSE /\ nline' = FALSE /\ ret # CR /\ idx # UART_SIZE
    BY <1>1, <1>12 DEF Store
  <2>2. idx' = idx + 1 /\ buf' = [buf EXCEPT ![idx] = ret]
    BY <1>1, <1>12, <2>1 DEF Store, Full
  <2>3. first + idx = n + 1
    BY <1>1, <1>3, <2>1 DEF Ends
  <2>4. buf'[idx] = ret /\ \A k \in 0 .. idx - 1 : buf'[k] = buf[k]
    BY <1>1, <2>2 DEF IInv, TypeOK
  <2>5. \A k \in 0 .. idx' - 1 : heard'[first + k] # CR /\ buf'[k] = heard'[first + k]
    <3>1. \A k \in 0 .. idx - 1 : heard'[first + k] # CR /\ buf'[k] = heard'[first + k]
      BY <1>4, <1>8, <2>4
    <3>2. heard'[first + idx] # CR /\ buf'[idx] = heard'[first + idx]
      BY <1>2, <2>1, <2>3, <2>4
    <3>3. \A k \in 0 .. idx' - 1 : k \in 0 .. idx - 1 \/ k = idx
      BY <1>1, <2>2
    <3> QED BY <3>1, <3>2, <3>3, Zenon
  <2>6. Ends' = 0
    BY <2>1 DEF Ends
  <2>7. first + idx' + Ends' = Len(heard') + 1
    BY <1>1, <1>2, <2>2, <2>3, <2>6
  <2>8. Line(first)'
    BY <1>7, <2>1, <2>5, <2>7 DEF Line
  <2> QED BY <1>1, <1>2, <2>8
<1> QED BY <1>9, <1>10, <1>11, <1>12 DEF Complete

LEMMA BitTimeHeard == ASSUME Heard, BitTime PROVE Heard'
<1>1. IInv /\ Sync /\ Buffered /\ Silent /\ Echoing /\ slip \in BOOLEAN
  BY DEF Heard, IInv, TypeOK
<1>2. IInv'
  BY <1>1, BitTimeKeeps
<1>3. Echoing'
  <2>1. UNCHANGED <<pc, pos, out>>
    BY DEF BitTime, main
  <2>2. pc # "wait" => nline /\ isr = 0
    BY <1>1 DEF IInv, Exclusion, DelayNotShared, TypeOK
  <2>3. pc # "wait" => UNCHANGED buf
    BY <2>2 DEF BitTime, EXTI15_10_IRQHandler, NoEdge, EdgeIgnored, EdgeTaken, Sample,
                LastSample, Listening, Receiver
  <2> QED BY <1>1, <2>1, <2>3 DEF Echoing
<1>4. CASE slip
  BY <1>1, <1>2, <1>3, <1>4, HandlerOutOfStep DEF Heard
<1>5. CASE ~slip
  <2>1. Sync' /\ slip' = FALSE /\ (at' = Bits + 1 /\ ~nline <=> LastSample)
    BY <1>1, <1>5, HandlerInStep
  <2>2. ASSUME ~spilt' PROVE Buffered'
    <3>1. CASE LastSample
      <4>1. /\ at' = Bits + 1 /\ Append(data, Level(frame', at')) = frame
            /\ ~nline /\ isr = Bits
        BY <1>1, <1>5, <2>1, <3>1, LastIsFrame DEF BitTime, LastSample
      <4>2. Complete(frame) /\ heard' = Append(heard, frame) /\ frame \in Byte
        BY <1>1, <1>5, <3>1, <4>1 DEF BitTime, History, LastSample, IInv, TypeOK
      <4>3. ~spilt
        BY <2>2, <4>2 DEF Complete, Newline, Dropped, Return, Store
      <4>4. PICK first \in 1 .. Len(heard) + 1 : Line(first)
        BY <1>1, <1>5, <4>3 DEF Buffered
      <4> QED BY <1>1, <2>2, <4>1, <4>2, <4>4, ByteFiled DEF Buffered
    <3>2. CASE ~LastSample
      <4>1. UNCHANGED Receiver
        BY <3>2 DEF BitTime, EXTI15_10_IRQHandler, NoEdge, EdgeIgnored, EdgeTaken, Sample
      <4>2. heard' = heard
        BY <1>5, <2>1, <3>2 DEF BitTime, History
      <4> QED BY <1>1, <1>5, <4>1, <4>2 DEF Buffered, Line, Ends, Receiver, status
    <3> QED BY <3>1, <3>2
  <2>3. Buffered' /\ Silent'
    BY <2>1, <2>2 DEF Buffered, Silent
  <2> QED BY <1>2, <1>3, <2>1, <2>3 DEF Heard
<1> QED BY <1>4, <1>5

-----------------------------------------------------------------------------
(* The echo: k bytes are k * Stop levels.                                  *)

LEMMA Places ==
  ASSUME NEW p \in Nat, NEW k \in 1 .. p
  PROVE  /\ (k - 1) * Stop \in Nat /\ (k - 1) * Stop + Stop = k * Stop /\ k * Stop <= p * Stop
         /\ p * Stop \in Nat /\ (p * Stop) \div Stop = p
<1> DEFINE s == Stop
<1>1. s \in Nat /\ s > 0
  BY DEF Stop
<1> HIDE DEF s
<1>2. (k - 1) * s + s = k * s /\ (k - 1) * s \in Nat /\ k * s \in Nat /\ p * s \in Nat
  BY <1>1
<1>3. k * s <= p * s
  BY <1>1
<1>4. (p * s) \div s = p
  BY <1>1
<1> QED BY <1>2, <1>3, <1>4 DEF s

LEMMA SerialEchoes ==
  ASSUME IInv, Echoing, virtual_serial
  PROVE  Echoing'
<1>1. /\ pc = "send" /\ pc' = pc /\ buf[pos] # NUL /\ buf' = buf
      /\ out' = out \o Pattern(buf[pos]) /\ pos' = pos + 1
  BY DEF virtual_serial
<1>2. pos \in Nat /\ out \in Seq({0, 1}) /\ buf[pos] \in Byte /\ pos + 1 \in 1 .. pos + 1
  BY DEF IInv, TypeOK
<1> DEFINE m == pos * Stop
           c == buf[pos]
           p == Pattern(c)
<1>3. Len(out) = m
  BY <1>1 DEF Echoing
<1>4. /\ p \in Seq({0, 1}) /\ Len(p) = Stop /\ p[1] = 0 /\ p[Stop] = 1
      /\ \A j \in 1 .. Bits : p[1 + j] = c[j]
  <2>1. c \in Seq({0, 1}) /\ Len(c) = Bits
    BY <1>2 DEF Byte
  <2> HIDE DEF c
  <2>2. /\ <<0>> \o c \in Seq({0, 1}) /\ Len(<<0>> \o c) = Bits + 1 /\ (<<0>> \o c)[1] = 0
        /\ \A j \in 1 .. Bits : (<<0>> \o c)[1 + j] = c[j]
    BY <2>1
  <2> QED BY <2>1, <2>2 DEF Pattern, Stop
<1>5. m \in Nat /\ (pos + 1) * Stop = m + Stop /\ Stop \in Nat
  <2>1. ((pos + 1) - 1) * Stop = m
    BY <1>2
  <2> QED BY <1>2, <2>1, Places DEF Stop
<1>11. out' = out \o p
  BY <1>1
<1> HIDE DEF m, p, c
<1>6. /\ Len(out') = m + Stop
      /\ \A k \in 1 .. m : out'[k] = out[k]
      /\ \A k \in 1 .. Stop : out'[m + k] = p[k]
  <2>1. /\ Len(out \o p) = Len(out) + Len(p)
        /\ \A k \in 1 .. Len(out) : (out \o p)[k] = out[k]
        /\ \A k \in 1 .. Len(p) : (out \o p)[Len(out) + k] = p[k]
    <3> DEFINE B == {0, 1}
    <3>1. out \in Seq(B) /\ p \in Seq(B)
      BY <1>2, <1>4
    <3> HIDE DEF B
    <3> QED BY ONLY <3>1
  <2> QED BY <1>3, <1>4, <1>11, <2>1, Zenon
<1>7. ASSUME NEW k \in 1 .. pos
      PROVE  /\ buf'[k - 1] # NUL
             /\ out'[(k - 1) * Stop + 1] = 0 /\ out'[k * Stop] = 1
             /\ \A j \in 1 .. Bits : out'[(k - 1) * Stop + 1 + j] = buf'[k - 1][j]
  <2> DEFINE a == (k - 1) * Stop
             b == k * Stop
  <2>1. a \in Nat /\ a + Stop = b /\ b <= m
    BY <1>2, <1>7, Places DEF m
  <2>2. /\ buf[k - 1] # NUL /\ out[a + 1] = 0 /\ out[b] = 1
        /\ \A j \in 1 .. Bits : out[a + 1 + j] = buf[k - 1][j]
    BY <1>1, <1>7 DEF Echoing
  <2> HIDE DEF a, b
  <2>3. a + 1 \in 1 .. m /\ b \in 1 .. m /\ \A j \in 1 .. Bits : a + 1 + j \in 1 .. m
    BY <1>5, <2>1 DEF Stop
  <2>4. /\ out'[a + 1] = 0 /\ out'[b] = 1
        /\ \A j \in 1 .. Bits : out'[a + 1 + j] = buf[k - 1][j]
    BY <1>6, <2>2, <2>3
  <2> QED BY <1>1, <2>2, <2>4 DEF a, b
<1>8. /\ buf'[(pos + 1) - 1] # NUL
      /\ out'[((pos + 1) - 1) * Stop + 1] = 0 /\ out'[(pos + 1) * Stop] = 1
      /\ \A j \in 1 .. Bits : out'[((pos + 1) - 1) * Stop + 1 + j] = buf'[(pos + 1) - 1][j]
  <2>1. (pos + 1) - 1 = pos
    BY <1>2
  <2>2. out'[m + 1] = 0 /\ out'[m + Stop] = 1 /\ \A j \in 1 .. Bits : out'[m + (1 + j)] = c[j]
    BY <1>4, <1>6 DEF Stop
  <2>3. \A j \in 1 .. Bits : m + (1 + j) = m + 1 + j
    BY <1>5
  <2> QED BY <1>1, <1>5, <2>1, <2>2, <2>3 DEF m, c
<1>9. ASSUME NEW k \in 1 .. pos' PROVE k \in 1 .. pos \/ k = pos + 1
  BY <1>1, <1>2, <1>9
<1>10. Len(out') = pos' * Stop
  BY <1>1, <1>5, <1>6
<1> QED BY <1>1, <1>7, <1>8, <1>9, <1>10 DEF Echoing

LEMMA MainLoopHeard == ASSUME Heard, MainLoop PROVE Heard'
<1>1. IInv /\ Sync /\ Buffered /\ Silent /\ Echoing
  BY DEF Heard
<1>2. IInv'
  BY <1>1, MainLoopKeeps
<1>3. ASSUME UNCHANGED <<wire, isr, data, status, buf, heard, slip, spilt>>
      PROVE  Sync' /\ Buffered' /\ Silent'
  BY <1>1, <1>3 DEF Sync, Buffered, Line, Ends, Silent, wire, status
<1>4. CASE Found
  <2>1. UNCHANGED <<wire, isr, data, status, buf, heard, slip, spilt>>
    BY <1>4 DEF Found
  <2>2. pc' = "send" /\ pos' = 0 /\ out' = << >>
    BY <1>4 DEF Found
  <2>3. Echoing'
    BY <2>2 DEF Echoing, Stop
  <2> QED BY <1>2, <1>3, <2>1, <2>3 DEF Heard
<1>5. CASE virtual_serial
  <2>1. UNCHANGED <<wire, isr, data, status, buf, heard, slip, spilt>>
    BY <1>5 DEF virtual_serial
  <2> QED BY <1>1, <1>2, <1>3, <1>5, <2>1, SerialEchoes DEF Heard
<1>6. CASE Sent
  <2>1. UNCHANGED <<wire, isr, data, status, buf, heard, slip, spilt>>
    BY <1>6 DEF Sent
  <2>2. Echoing'
    BY <1>1, <1>6 DEF Sent, Echoing
  <2> QED BY <1>2, <1>3, <2>1, <2>2 DEF Heard
<1>7. CASE Reset
  <2>1. /\ isr' = 0 /\ at' = at /\ pc' = "wait" /\ enter' = FALSE /\ nline' = FALSE /\ idx' = 0
        /\ heard' = << >> /\ (~slip' => at \notin 1 .. Bits)
    BY <1>7 DEF Reset, wire
  <2>2. at \in 0 .. Stop
    BY <1>1 DEF IInv, TypeOK
  <2>3. Sync' /\ Silent' /\ Echoing'
    BY <2>1, <2>2 DEF Sync, Silent, Echoing, Stop
  <2>4. 1 \in 1 .. Len(heard') + 1 /\ Line(1)'
    BY <2>1 DEF Line, Ends
  <2> QED BY <1>2, <2>3, <2>4 DEF Heard, Buffered
<1> QED BY <1>4, <1>5, <1>6, <1>7 DEF MainLoop

LEMMA NextHeard == Heard /\ [Next]_vars => Heard'
<1>1. ASSUME Heard, UNCHANGED vars PROVE Heard'
  BY <1>1, StutterKeeps
     DEF Heard, Sync, Buffered, Line, Ends, Silent, Echoing, vars, wire, status, main
<1> QED BY <1>1, BitTimeHeard, MainLoopHeard DEF Next

LEMMA SameSequence ==
  ASSUME NEW S, NEW s \in Seq(S), NEW t \in Seq(S), Len(s) = Len(t),
         \A k \in 1 .. Len(s) : s[k] = t[k]
  PROVE  s = t
  OBVIOUS

LEMMA LastTwo ==
  ASSUME NEW S, NEW s \in Seq(S), Len(s) > 1
  PROVE  SubSeq(s, Len(s) - 1, Len(s)) = <<s[Len(s) - 1], s[Len(s)]>>
<1> DEFINE n == Len(s)
           t == SubSeq(s, n - 1, n)
<1>1. n \in Nat /\ n > 1
  OBVIOUS
<1>2. t \in Seq(S) /\ Len(t) = 2 /\ t[1] = s[n - 1] /\ t[2] = s[n]
  <2> HIDE DEF n
  <2>1. n - 1 \in 1 .. n /\ n \in 1 .. n /\ n - (n - 1) + 1 = 2
    BY <1>1
  <2>2. n = Len(s)
    BY DEF n
  <2> QED BY <1>1, <2>1, <2>2
<1> DEFINE u == <<s[n - 1], s[n]>>
<1>3. u \in Seq(S) /\ Len(u) = 2 /\ u[1] = s[n - 1] /\ u[2] = s[n]
  <2>1. s[n - 1] \in S /\ s[n] \in S
    BY <1>1
  <2> QED BY <2>1
<1> HIDE DEF t, u
<1>4. t = u
  BY <1>2, <1>3, SameSequence
<1> QED BY <1>4 DEF t, u

LEMMA HeardIsEchoed == Heard => EchoIsLine
<1> SUFFICES ASSUME Heard, pc = "clear", ~slip, ~spilt
             PROVE  \E first \in 1 .. Len(heard) - 1 :
               LET line == SubSeq(heard, first, Len(heard) - 2)
               IN  /\ SubSeq(heard, Len(heard) - 1, Len(heard)) = <<CR, LF>>
                   /\ first = 1 \/ (first > 2 /\ heard[first - 2] = CR)
                   /\ \A k \in DOMAIN line : line[k] # CR
                   /\ Echoed = SubSeq(line, 1, Len(Echoed)) /\ Framed
                   /\ \A k \in DOMAIN Echoed : line[k] # NUL
                   /\ Len(Echoed) < Len(line) => line[Len(Echoed) + 1] = NUL
  BY DEF EchoIsLine
<1>1. /\ TypeOK /\ nline = TRUE /\ enter = TRUE /\ Buffered /\ Echoing
  BY DEF Heard, IInv, TypeOK, Exclusion
<1>2. PICK first \in 1 .. Len(heard) + 1 : Line(first)
  BY <1>1 DEF Buffered
<1> DEFINE n == Len(heard)
           line == SubSeq(heard, first, n - 2)
<1>3. n \in Nat /\ heard \in Seq(Byte) /\ idx \in Nat /\ pos \in Nat /\ out \in Seq({0, 1})
  BY <1>1 DEF TypeOK
<1>4. first + idx = n - 1 /\ first \in 1 .. n - 1
  BY <1>1, <1>2, <1>3 DEF Line, Ends
<1>5. /\ line \in Seq(Byte) /\ Len(line) = idx
      /\ \A k \in 1 .. idx : line[k] = heard[first + (k - 1)]
  <2>1. n - 2 \in 0 .. n /\ n - 2 >= first - 1
    BY <1>3, <1>4
  <2> QED BY <1>3, <1>4, <2>1
<1>6. SubSeq(heard, n - 1, n) = <<CR, LF>>
  <2>1. heard[first + idx] = CR /\ heard[first + idx + 1] = LF
    BY <1>1, <1>2 DEF Line
  <2>2. first + idx = n - 1 /\ first + idx + 1 = n /\ Len(heard) > 1
    BY <1>3, <1>4
  <2> QED BY <1>3, <2>1, <2>2, LastTwo
<1>7. first = 1 \/ (first > 2 /\ heard[first - 2] = CR)
  BY <1>2 DEF Line
<1>8. \A k \in 1 .. idx : line[k] # CR /\ line[k] = buf[k - 1]
  <2>1. \A k \in 1 .. idx : k - 1 \in 0 .. idx - 1
    BY <1>3
  <2> QED BY <1>2, <1>5, <2>1 DEF Line
<1> HIDE DEF n, line
<1>9. buf[idx] = NUL
  BY <1>1, <1>2 DEF Line
<1>10. /\ Len(out) = pos * Stop /\ buf[pos] = NUL
       /\ \A k \in 1 .. pos :
            /\ buf[k - 1] # NUL
            /\ out[(k - 1) * Stop + 1] = 0 /\ out[k * Stop] = 1
            /\ \A j \in 1 .. Bits : out[(k - 1) * Stop + 1 + j] = buf[k - 1][j]
  BY <1>1 DEF Echoing
<1>11. pos <= idx
  <2>1. ASSUME idx < pos PROVE FALSE
    <3>1. idx + 1 \in 1 .. pos /\ (idx + 1) - 1 = idx
      BY <1>3, <2>1
    <3> QED BY <1>9, <1>10, <3>1
  <2> QED BY <1>3, <2>1
<1>12. Len(out) \div Stop = pos
  <2>1. CASE pos = 0
    BY <1>10, <2>1 DEF Stop
  <2>2. CASE pos # 0
    BY <1>3, <1>10, <2>2, Places
  <2> QED BY <2>1, <2>2
<1>13. ASSUME NEW k \in 1 .. pos
       PROVE  SubSeq(out, (k - 1) * Stop + 2, (k - 1) * Stop + Bits + 1) = buf[k - 1]
  <2> DEFINE a == (k - 1) * Stop
  <2>1. a \in Nat /\ a + Stop <= Len(out)
    BY <1>3, <1>10, <1>13, Places
  <2>2. \A j \in 1 .. Bits : out[a + 1 + j] = buf[k - 1][j]
    BY <1>10, <1>13
  <2>3. buf[k - 1] \in Byte
    BY <1>1, <1>13 DEF TypeOK
  <2> HIDE DEF a
  <2>4. /\ SubSeq(out, a + 2, a + Bits + 1) \in Seq({0, 1})
        /\ Len(SubSeq(out, a + 2, a + Bits + 1)) = Bits
        /\ \A j \in 1 .. Bits : SubSeq(out, a + 2, a + Bits + 1)[j] = out[a + 1 + j]
    BY <1>3, <2>1 DEF Stop
  <2>5. SubSeq(out, a + 2, a + Bits + 1) = buf[k - 1]
    <3> DEFINE t == SubSeq(out, a + 2, a + Bits + 1)
               c == buf[k - 1]
    <3>1. c \in Seq({0, 1}) /\ Len(c) = Bits
      BY <2>3 DEF Byte
    <3>2. t \in Seq({0, 1}) /\ Len(t) = Bits /\ \A j \in 1 .. Bits : t[j] = c[j]
      BY <2>2, <2>4
    <3> HIDE DEF t, c
    <3>3. t = c
      BY <3>1, <3>2, SameSequence
    <3> QED BY <3>3 DEF t, c
  <2> QED BY <2>5 DEF a
<1>14. Echoed = [k \in 1 .. pos |-> buf[k - 1]]
  BY <1>12, <1>13 DEF Echoed
<1>15. Framed
  BY <1>10, <1>12 DEF Framed
<1>16. Len(Echoed) = pos /\ DOMAIN Echoed = 1 .. pos /\ \A k \in 1 .. pos : Echoed[k] = line[k]
  BY <1>3, <1>8, <1>11, <1>14
<1>17. Echoed = SubSeq(line, 1, Len(Echoed))
  <2>1. /\ SubSeq(line, 1, pos) \in Seq(Byte) /\ Len(SubSeq(line, 1, pos)) = pos
        /\ \A k \in 1 .. pos : SubSeq(line, 1, pos)[k] = line[k]
    BY <1>3, <1>5, <1>11
  <2>2. Echoed \in Seq(Byte)
    BY <1>1, <1>3, <1>14 DEF TypeOK
  <2> DEFINE t == SubSeq(line, 1, pos)
             e == Echoed
  <2>3. /\ t \in Seq(Byte) /\ e \in Seq(Byte) /\ Len(t) = pos /\ Len(e) = pos
        /\ \A k \in 1 .. pos : t[k] = e[k]
    BY <1>16, <2>1, <2>2
  <2> HIDE DEF t, e
  <2>4. t = e
    BY <2>3, SameSequence
  <2> QED BY <1>16, <2>4 DEF t, e
<1>18. ASSUME NEW k \in DOMAIN Echoed PROVE line[k] # NUL
  <2>1. k \in 1 .. pos /\ k \in 1 .. idx
    BY <1>3, <1>11, <1>16
  <2> QED BY <1>8, <1>10, <2>1
<1>19. Len(Echoed) < Len(line) => line[Len(Echoed) + 1] = NUL
  BY <1>3, <1>5, <1>8, <1>10, <1>16
<1>20. \A k \in DOMAIN line : line[k] # CR
  BY <1>5, <1>8
<1> QED BY <1>4, <1>6, <1>7, <1>15, <1>17, <1>18, <1>19, <1>20, Zenon DEF n, line

\* The host reads its line back, in frames, whatever it sent before and goes on
\* sending, but for the two cases EchoIsLine excepts.
THEOREM EchoesLine == Spec => []EchoIsLine
  BY InitHeard, NextHeard, HeardIsEchoed, PTL DEF Spec
=============================================================================
