--------------------------- MODULE BootloaderProofs ---------------------------
(***************************************************************************)
(* Theorems about Bootloader, for every set of images, flash geometry,     *)
(* packet size and number of losses, restarts, flash errors and operations *)
(* given up: its types, then what a transfer means.  Data packets land     *)
(* where the host took them from; what a confirmed transfer is worth; what *)
(* a flash that would be started holds; and when a host is thrown out.     *)
(***************************************************************************)
EXTENDS Bootloader, SequenceTheorems, TLAPS

-----------------------------------------------------------------------------
(* Units on the line and answers on their way.                             *)

\* The frames among the units of s are in F; a frame is the last unit of s.
FramesIn(s, F) == \A k \in 1 .. Len(s) : s[k] \in Frames => s[k] \in F
OnlyLast(s) == \A k \in 1 .. Len(s) : s[k] \in Frames => k = Len(s)

\* s is an answer in F, alone or behind an acknowledge.
AnswerOf(s, F) == \E r \in F : s = <<r>> \/ s = <<"ack", r>>

\* Neither a start byte nor a damaged packet is a packet.
LEMMA NoFrame == StartByte \notin Frames /\ Damaged \notin Frames
<1>1. \A f \in Frames : f.kind \in Kinds
  BY DEF Frames
<1>2. StartByte.kind = "5A" /\ Damaged.kind = "bad"
  BY DEF StartByte, Damaged
<1>3. "5A" \notin Kinds /\ "bad" \notin Kinds
  BY DEF Kinds
<1> QED BY <1>1, <1>2, <1>3

\* A unit that leaves the line was the first.
LEMMA LineTail ==
  ASSUME NEW S, NEW s \in Seq(S), s # << >>, NEW F
  PROVE  /\ FramesIn(s, F) => FramesIn(Tail(s), F)
         /\ OnlyLast(s) => OnlyLast(Tail(s))
         /\ FramesIn(s, F) /\ Head(s) \in Frames => Head(s) \in F
         /\ OnlyLast(s) /\ Head(s) \in Frames => Tail(s) = << >>
<1>1. /\ Tail(s) \in Seq(S) /\ Len(Tail(s)) = Len(s) - 1 /\ Len(s) \in Nat \ {0}
      /\ \A k \in 1 .. Len(Tail(s)) : Tail(s)[k] = s[k + 1]
  BY HeadTailProperties, EmptySeq
<1>2. Head(s) = s[1]
  OBVIOUS
<1> DEFINE t == Tail(s)
           n == Len(s)
<1>3. t \in Seq(S) /\ Len(t) = n - 1 /\ n \in Nat \ {0} /\ \A k \in 1 .. Len(t) : t[k] = s[k + 1]
  BY <1>1
<1>4. Len(t) = 0 => t = << >>
  BY <1>3, EmptySeq
<1> HIDE DEF t
<1>5. \A k \in 1 .. Len(t) : t[k] = s[k + 1] /\ k + 1 \in 1 .. n /\ k \in Nat
  <2> HIDE DEF n
  <2> QED BY <1>3
<1>6. FramesIn(s, F) => FramesIn(t, F)
  BY <1>5 DEF FramesIn
<1>7. OnlyLast(s) => OnlyLast(t)
  BY <1>3, <1>5 DEF OnlyLast
<1>8. 1 \in 1 .. n
  <2> HIDE DEF n
  <2> QED BY <1>3
<1>9. FramesIn(s, F) /\ Head(s) \in Frames => Head(s) \in F
  BY <1>2, <1>8 DEF FramesIn
<1>10. OnlyLast(s) /\ Head(s) \in Frames => n = 1
  BY <1>2, <1>8 DEF OnlyLast
<1>11. n = 1 => t = << >>
  BY <1>3, <1>4
<1> QED BY <1>6, <1>7, <1>9, <1>10, <1>11 DEF t

\* Lines without a packet.
LEMMA NoLine == ASSUME NEW F PROVE FramesIn(<< >>, F) /\ OnlyLast(<< >>)
  BY DEF FramesIn, OnlyLast

LEMMA OneUnit == ASSUME NEW F PROVE FramesIn(<<StartByte>>, F) /\ OnlyLast(<<StartByte>>)
  BY NoFrame DEF FramesIn, OnlyLast

LEMMA Weaker == ASSUME NEW s, NEW F, NEW G, FramesIn(s, F), F \subseteq G PROVE FramesIn(s, G)
  BY DEF FramesIn

\* A request behind what is left of the line.
LEMMA LineSend ==
  ASSUME NEW S, NEW s \in Seq(S), StartByte \in S, NEW f \in S, NEW F, f \in F
  PROVE  /\ FramesIn(s, F) => FramesIn(s \o <<StartByte, f>>, F)
         /\ FramesIn(s, {}) => OnlyLast(s \o <<StartByte, f>>)
<1> DEFINE e == <<StartByte, f>>
           t == s \o e
           n == Len(s)
<1>1. e \in Seq(S) /\ Len(e) = 2 /\ e[1] = StartByte /\ e[2] = f /\ n \in Nat
  OBVIOUS
<1> HIDE DEF e
<1>2. Len(t) = n + Len(e) /\ \A k \in 1 .. n + Len(e) : t[k] = IF k <= n THEN s[k] ELSE e[k - n]
  BY <1>1, ConcatProperties, Zenon
<1> HIDE DEF t
<1>3. \A k \in 1 .. Len(t) : k \in 1 .. n \/ k = n + 1 \/ k = n + 2
  <2> HIDE DEF n
  <2> QED BY <1>1, <1>2
<1>4. Len(t) = n + 2 /\ t[n + 1] = StartByte /\ t[n + 2] = f /\ \A k \in 1 .. n : t[k] = s[k]
  <2> HIDE DEF n
  <2> QED BY <1>1, <1>2
<1>5. FramesIn(s, F) => FramesIn(t, F)
  BY <1>3, <1>4, NoFrame DEF FramesIn
<1>6. FramesIn(s, {}) => OnlyLast(t)
  BY <1>3, <1>4, NoFrame DEF FramesIn, OnlyLast
<1> QED BY <1>5, <1>6 DEF t, e

\* A unit that is damaged was the first.
LEMMA LineDamage ==
  ASSUME NEW S, NEW s \in Seq(S), s # << >>, Damaged \in S, NEW F
  PROVE  /\ FramesIn(s, F) => FramesIn(<<Damaged>> \o Tail(s), F)
         /\ OnlyLast(s) => OnlyLast(<<Damaged>> \o Tail(s))
<1> DEFINE e == <<Damaged>>
           r == Tail(s)
           t == e \o r
           n == Len(s)
<1>1. e \in Seq(S) /\ Len(e) = 1 /\ e[1] = Damaged
  OBVIOUS
<1>2. r \in Seq(S) /\ Len(r) = n - 1 /\ n \in Nat \ {0} /\ \A k \in 1 .. Len(r) : r[k] = s[k + 1]
  BY HeadTailProperties, EmptySeq
<1> HIDE DEF e, r
<1>3. /\ Len(t) = Len(e) + Len(r)
      /\ \A k \in 1 .. Len(e) + Len(r) : t[k] = IF k <= Len(e) THEN e[k] ELSE r[k - Len(e)]
  BY <1>1, <1>2, ConcatProperties, Zenon
<1> HIDE DEF t, n
<1>4. Len(t) = n /\ \A k \in 1 .. n : t[k] = IF k <= 1 THEN Damaged ELSE r[k - 1]
  BY <1>1, <1>2, <1>3
<1>5. \A k \in 1 .. n : k = 1 \/ (k - 1 \in 1 .. n - 1 /\ (k - 1) + 1 = k /\ ~(k <= 1))
  BY <1>2
<1>6. \A k \in 1 .. n : t[k] = Damaged \/ t[k] = s[k]
  BY <1>2, <1>4, <1>5
<1>7. FramesIn(s, F) => FramesIn(t, F)
  BY <1>4, <1>6, NoFrame DEF FramesIn, n
<1>8. OnlyLast(s) => OnlyLast(t)
  BY <1>4, <1>6, NoFrame DEF OnlyLast, n
<1> QED BY <1>7, <1>8 DEF t, e, r

\* Answers are appended behind each other and taken one by one.
LEMMA Answers ==
  ASSUME NEW F, "ack" \notin F
  PROVE  /\ <<"ack">> # << >> /\ Append(<< >>, "ack") = <<"ack">>
         /\ ~AnswerOf(<< >>, F) /\ ~AnswerOf(<<"ack">>, F)
         /\ \A r \in F : AnswerOf(Append(<< >>, r), F) /\ AnswerOf(Append(<<"ack">>, r), F)
         /\ Head(<<"ack">>) = "ack" /\ Tail(<<"ack">>) = << >>
         /\ \A s : AnswerOf(s, F) =>
              /\ s # << >>
              /\ Head(s) = "ack" => AnswerOf(Tail(s), F)
              /\ Head(s) # "ack" => Tail(s) = << >> /\ Head(s) \in F
<1>1. <<"ack">> # << >> /\ Append(<< >>, "ack") = <<"ack">>
  OBVIOUS
<1>2. Head(<<"ack">>) = "ack" /\ Tail(<<"ack">>) = << >>
  OBVIOUS
<1>3. ASSUME NEW r \in F
      PROVE  /\ Append(<< >>, r) = <<r>> /\ Append(<<"ack">>, r) = <<"ack", r>>
             /\ <<r>> # << >> /\ <<"ack", r>> # << >>
             /\ <<r>> # <<"ack">> /\ <<"ack", r>> # <<"ack">>
             /\ Head(<<r>>) = r /\ Tail(<<r>>) = << >>
             /\ Head(<<"ack", r>>) = "ack" /\ Tail(<<"ack", r>>) = <<r>>
  <2>1. r # "ack"
    OBVIOUS
  <2>2. Append(<< >>, r) = <<r>>
    OBVIOUS
  <2>3. Append(<<"ack">>, r) = <<"ack", r>>
    <3> DEFINE S == {"ack", r}
               a == Append(<<"ack">>, r)
               b == <<"ack", r>>
    <3>1. b \in Seq(S) /\ Len(b) = 2 /\ b[1] = "ack" /\ b[2] = r
      OBVIOUS
    <3>2. <<"ack">> \in Seq(S) /\ r \in S /\ Len(<<"ack">>) = 1 /\ <<"ack">>[1] = "ack"
      OBVIOUS
    <3>3. a \in Seq(S) /\ Len(a) = 2 /\ a[1] = "ack" /\ a[2] = r
      BY <3>2, AppendProperties
    <3> HIDE DEF a, b
    <3>4. \A k \in 1 .. Len(a) : a[k] = b[k]
      BY <3>1, <3>3
    <3>5. a = b
      BY <3>1, <3>3, <3>4, SeqEqual
    <3> QED BY <3>5 DEF a, b
  <2>4. /\ Len(<<r>>) = 1 /\ Len(<<"ack", r>>) = 2 /\ Len(<<"ack">>) = 1 /\ Len(<< >>) = 0
        /\ <<r>> # << >> /\ <<"ack", r>> # << >> /\ <<"ack", r>> # <<"ack">>
    <3>1. Len(<<r>>) = 1 /\ Len(<<"ack">>) = 1 /\ Len(<< >>) = 0
      OBVIOUS
    <3>2. Len(<<"ack", r>>) = 2
      OBVIOUS
    <3>3. <<r>> # << >> /\ <<"ack", r>> # << >>
      OBVIOUS
    <3>4. <<"ack", r>> = <<"ack">> => Len(<<"ack", r>>) = Len(<<"ack">>)
      OBVIOUS
    <3> QED BY <3>1, <3>2, <3>3, <3>4
  <2>5. <<r>> # <<"ack">>
    BY <2>1
  <2>6. Head(<<r>>) = r /\ Tail(<<r>>) = << >>
    OBVIOUS
  <2>7. Head(<<"ack", r>>) = "ack"
    OBVIOUS
  <2>8. Tail(<<"ack", r>>) = <<r>>
    OBVIOUS
  <2> QED BY <2>2, <2>3, <2>4, <2>5, <2>6, <2>7, <2>8
<1>4. ASSUME NEW s, AnswerOf(s, F)
      PROVE  /\ s # << >>
             /\ Head(s) = "ack" => AnswerOf(Tail(s), F)
             /\ Head(s) # "ack" => Tail(s) = << >> /\ Head(s) \in F
  <2>1. PICK r \in F : s = <<r>> \/ s = <<"ack", r>>
    BY <1>4 DEF AnswerOf
  <2>2. CASE s = <<r>>
    BY <1>3, <2>2, Zenon
  <2>3. CASE s = <<"ack", r>>
    BY <1>3, <2>3, Zenon DEF AnswerOf
  <2> QED BY <2>1, <2>2, <2>3
<1>5. ~AnswerOf(<< >>, F) /\ ~AnswerOf(<<"ack">>, F)
  BY <1>3, Zenon DEF AnswerOf
<1>6. \A r \in F : AnswerOf(Append(<< >>, r), F) /\ AnswerOf(Append(<<"ack">>, r), F)
  BY <1>3, Zenon DEF AnswerOf
<1> QED BY <1>1, <1>2, <1>4, <1>5, <1>6

\* What the code fixes about the sizes, for the rest of the module.
USE SizesAssumption, OrAssumption

-----------------------------------------------------------------------------
(* Facts about the data a step moves.                                      *)

\* A packet a host may send names a command, an image and an offset in it.
LEMMA FrameFacts ==
  ASSUME NEW f \in Frames
  PROVE  /\ f.kind \in Kinds /\ f.version \in Versions /\ f.off \in Nat
         /\ ImageBytes[f.version] \in Uint32 /\ ImageBytes[f.version] \in Nat
         /\ PayloadBytes(f) \in Nat
<1>1. /\ f.kind \in Kinds /\ f.version \in Versions /\ f.off \in Nat
      /\ f.off < ImageBytes[f.version]
  BY DEF Frames
<1>2. ImageBytes[f.version] \in Uint32 /\ ImageBytes[f.version] \in Nat
  BY <1>1
<1> QED
  BY <1>1, <1>2 DEF PayloadBytes

\* An image has a positive size.
LEMMA ImageFacts ==
  ASSUME NEW v \in Versions
  PROVE  /\ ImageBytes[v] \in Uint32 /\ ImageBytes[v] \in Nat
         /\ 0 < ImageBytes[v]
<1>1. ImageBytes[v] \in Uint32 \ {0}
  OBVIOUS
<1>2. ImageBytes[v] \in Nat /\ ImageBytes[v] # 0
  BY <1>1
<1> QED
  BY <1>1, <1>2

\* What the line does to its queues keeps the type of their elements.
LEMMA SequenceFacts ==
  ASSUME NEW S, NEW s \in Seq(S)
  PROVE  /\ s # << >> => Head(s) \in S /\ Tail(s) \in Seq(S)
         /\ \A e \in S : Append(s, e) \in Seq(S)
         /\ \A t \in Seq(S) : s \o t \in Seq(S)
OBVIOUS

-----------------------------------------------------------------------------
\* The state at power-on is well typed.
LEMMA InitTypeOK == Init => TypeOK
<1> SUFFICES ASSUME Init PROVE TypeOK
  OBVIOUS
<1>1. flash \in [Cells -> Words]
  BY DEF Init, Blank, Installed, Words, Cells
<1>2. toDev \in Seq(Units) /\ toHost \in Seq(Replies)
  BY DEF Init
<1>3. ImageBytes[version] \in Nat /\ 0 < ImageBytes[version]
  BY ImageFacts DEF Init
<1>4. 0 \in 0 .. MaxLosses /\ 0 \in 0 .. MaxReboots /\ 0 \in 0 .. MaxFaults
  OBVIOUS
<1> QED
  BY <1>1, <1>2, <1>3, <1>4 DEF Init, TypeOK, Settled

\* What a reset leaves in RAM is well typed.
LEMMA BootType ==
  ASSUME Boot
  PROVE  /\ pc' \in {"poll"} /\ Settled' /\ frame' = None /\ i' = 0
         /\ app_flag' \in BOOLEAN /\ jump_app' \in BOOLEAN
         /\ tickint' \in BOOLEAN /\ systick' \in BOOLEAN
         /\ flashErr' \in BOOLEAN /\ app_count' \in Uint32
         /\ app_start' \in {0, app_address} /\ wms' \in Nat
         /\ rx' \in {"Start", "Cmd", "Lost"} /\ dr' \in Units \cup {None}
BY DEF Boot, Settled

\* An empty poll of the UART keeps the types.
LEMMA PollEmptyType == TypeOK /\ PollEmpty => TypeOK'
BY FrameFacts, SequenceFacts DEF PollEmpty, TypeOK, Settled, ram, host, line, env

\* The jump test of the loop keeps the types.
LEMMA CheckJumpType == TypeOK /\ CheckJump => TypeOK'
BY FrameFacts, SequenceFacts DEF CheckJump, TypeOK, Settled, ram, host, line, env

\* SysTick_Handler keeps the types.
LEMMA DeadlineType == TypeOK /\ Deadline => TypeOK'
<1> SUFFICES ASSUME TypeOK, Deadline PROVE TypeOK'
  OBVIOUS
<1>1. jump_app' \in BOOLEAN
  <2>1. jump_app \in BOOLEAN /\ app_flag \in BOOLEAN
    BY DEF TypeOK
  <2>2. jump_app' = (jump_app \/ ~app_flag)
    BY DEF Deadline
  <2> QED
    BY <2>1, <2>2, Zenon
<1>2. UNCHANGED <<pc, frame, i, app_flag, systick, app_count, app_start, wms,
                  rx, dr, flashErr, flash, host, line, env>>
  BY DEF Deadline
<1>3. tickint' \in BOOLEAN
  BY DEF Deadline
<1> QED
  BY <1>1, <1>2, <1>3 DEF TypeOK, Settled, host, line, env

\* ack_packet keeps the types.
LEMMA AckPacketType == TypeOK /\ AckPacket => TypeOK'
<1> SUFFICES ASSUME TypeOK, AckPacket PROVE TypeOK'
  OBVIOUS
<1>1. toHost' \in Seq(Replies)
  <2>1. "ack" \in Replies /\ toHost \in Seq(Replies)
    BY DEF Replies, TypeOK
  <2>2. toHost' = Append(toHost, "ack")
    BY DEF AckPacket
  <2> QED
    BY <2>1, <2>2, SequenceFacts
<1>2. /\ pc' = "acked" /\ systick' \in BOOLEAN
      /\ UNCHANGED <<frame, i, app_flag, jump_app, tickint, app_count, app_start,
                     wms, rx, dr, flashErr, flash, host, toDev, env>>
  BY DEF AckPacket
<1>3. ~(Settled') => frame' \in Frames
  BY <1>2 DEF AckPacket, TypeOK, Settled
<1> QED
  BY <1>1, <1>2, <1>3 DEF TypeOK, host, env

\* ping_response_packet keeps the types.
LEMMA PongType == TypeOK /\ Pong => TypeOK'
<1> SUFFICES ASSUME TypeOK, Pong PROVE TypeOK'
  OBVIOUS
<1>1. toHost' \in Seq(Replies)
  <2>1. "pong" \in Replies /\ toHost \in Seq(Replies)
    BY DEF Replies, TypeOK
  <2>2. toHost' = Append(toHost, "pong")
    BY DEF Pong
  <2> QED
    BY <2>1, <2>2, SequenceFacts
<1>2. /\ pc' = "check" /\ systick' \in BOOLEAN
      /\ UNCHANGED <<frame, i, app_flag, jump_app, tickint, app_count, app_start,
                     wms, rx, dr, flashErr, flash, host, toDev, env>>
  BY DEF Pong
<1>3. ~(Settled') => frame' \in Frames
  BY <1>2 DEF Pong, TypeOK, Settled
<1> QED
  BY <1>1, <1>2, <1>3 DEF TypeOK, host, env

\* analysis_app_download_addr before an erase keeps the types.
LEMMA AckedEraseType == TypeOK /\ AckedErase => TypeOK'
BY FrameFacts, SequenceFacts DEF AckedErase, TypeOK, Settled, ram, host, line, env

\* write_memory keeps the types.
LEMMA AckedWriteType == TypeOK /\ AckedWrite => TypeOK'
BY FrameFacts, SequenceFacts DEF AckedWrite, TypeOK, Settled, ram, host, line, env

\* The end of recv_data keeps the types.
LEMMA AckedDataType == TypeOK /\ AckedData => TypeOK'
BY FrameFacts, SequenceFacts DEF AckedData, TypeOK, Settled, ram, host, line, env

\* A query or a reset keeps the types.
LEMMA AckedOtherType == TypeOK /\ AckedOther => TypeOK'
BY FrameFacts, SequenceFacts DEF AckedOther, TypeOK, Settled, ram, host, line, env

\* One turn of flash_erase_region keeps the types.
LEMMA EraseSectorType == TypeOK /\ EraseSector => TypeOK'
<1> SUFFICES ASSUME TypeOK, EraseSector PROVE TypeOK'
  OBVIOUS
<1>1. flash' \in [Cells -> Words]
  <2>1. flash \in [Cells -> Words] /\ Erased \in Words
    BY DEF TypeOK, Words
  <2>2. \/ flash' = flash
        \/ flash' = [c \in Cells |-> IF c \in SectorCells(i) THEN Erased ELSE flash[c]]
    BY DEF EraseSector, Operate, EraseCells
  <2> QED
    BY <2>1, <2>2
<1>2. flashErr' \in BOOLEAN
  <2>1. flashErr \in BOOLEAN /\ (flashErr' = flashErr \/ flashErr' = TRUE)
    BY Zenon DEF EraseSector, Operate, EraseCells, TypeOK
  <2> QED
    BY <2>1, Zenon
<1>4. faults' \in 0 .. MaxFaults
  <2>1. faults' = faults \/ (faults < MaxFaults /\ faults' = faults + 1)
    BY Zenon DEF EraseSector, Operate
  <2> QED
    BY <2>1 DEF TypeOK
<1>3. i' \in Nat
  BY DEF EraseSector, TypeOK
<1>5. givenUp' \subseteq {"erase", "program"}
  <2>1. givenUp' \in {givenUp, {}, givenUp \cup {"erase"}, givenUp \cup {"program"}}
    BY DEF EraseSector, Operate, EraseCells
  <2> QED
    BY <2>1 DEF TypeOK
<1> QED
  BY <1>1, <1>2, <1>3, <1>4, <1>5 DEF EraseSector, TypeOK, Settled, host, line

\* The end of flash_erase_region keeps the types.
LEMMA EraseDoneType == TypeOK /\ EraseDone => TypeOK'
BY FrameFacts, SequenceFacts DEF EraseDone, TypeOK, Settled, ram, host, line, env

\* One half-word of Flash_WriteHalfWord keeps the types.
LEMMA ProgramHalfWordType == TypeOK /\ ProgramHalfWord => TypeOK'
<1> SUFFICES ASSUME TypeOK, ProgramHalfWord PROVE TypeOK'
  OBVIOUS
<1>1. flash' \in [Cells -> Words]
  <2>1. flash \in [Cells -> Words]
    BY DEF TypeOK
  <2>2. <<frame.version, frame.off \div 2 + i>> \in Words
    <3>1. frame \in Frames /\ i \in Nat
      BY DEF ProgramHalfWord, TypeOK, Settled
    <3>2. frame.version \in Versions /\ frame.off \in Nat
      BY <3>1, FrameFacts
    <3>3. frame.off \div 2 + i \in Nat
      BY <3>1, <3>2
    <3> QED
      BY <3>2, <3>3 DEF Words
  <2>3. \/ flash' = flash
        \/ flash' = [flash EXCEPT ![Target] = <<frame.version, frame.off \div 2 + i>>]
    BY DEF ProgramHalfWord, Operate, ProgramCell
  <2> QED
    BY <2>1, <2>2, <2>3
<1>2. flashErr' \in BOOLEAN
  <2>1. flashErr \in BOOLEAN /\ (flashErr' = flashErr \/ flashErr' = TRUE)
    BY Zenon DEF ProgramHalfWord, Operate, ProgramCell, TypeOK
  <2> QED
    BY <2>1, Zenon
<1>4. faults' \in 0 .. MaxFaults
  <2>1. faults' = faults \/ (faults < MaxFaults /\ faults' = faults + 1)
    BY Zenon DEF ProgramHalfWord, Operate
  <2> QED
    BY <2>1 DEF TypeOK
<1>3. i' \in Nat
  BY DEF ProgramHalfWord, TypeOK
<1>5. givenUp' \subseteq {"erase", "program"}
  <2>1. givenUp' \in {givenUp, {}, givenUp \cup {"erase"}, givenUp \cup {"program"}}
    BY DEF ProgramHalfWord, Operate, ProgramCell
  <2> QED
    BY <2>1 DEF TypeOK
<1> QED
  BY <1>1, <1>2, <1>3, <1>4, <1>5 DEF ProgramHalfWord, TypeOK, Settled, host, line

\* The advance of write_memory_start keeps the types.
LEMMA ProgramDoneType == TypeOK /\ ProgramDone => TypeOK'
BY FrameFacts, SequenceFacts DEF ProgramDone, TypeOK, Settled, ram, host, line, env

\* A unit that completes no packet keeps the types.
LEMMA PollNoiseType == TypeOK /\ PollNoise => TypeOK'
<1> SUFFICES ASSUME TypeOK, PollNoise PROVE TypeOK'
  OBVIOUS
<1>1. losses' \in 0 .. MaxLosses
  BY DEF PollNoise, TypeOK
<1>2. rx' \in {"Start", "Cmd", "Lost"} /\ app_flag' \in BOOLEAN
  BY DEF PollNoise, TypeOK
<1>3. pc' = "check" /\ dr' = None /\ frame' = frame /\ pc = "poll"
  BY DEF PollNoise
<1>4. ~(Settled') => frame' \in Frames
  BY <1>3 DEF Settled
<1> QED
  BY <1>1, <1>2, <1>3, <1>4 DEF PollNoise, TypeOK, host, line

\* check_crc's dispatch keeps the types.
LEMMA DispatchType == TypeOK /\ Dispatch => TypeOK'
BY FrameFacts, SequenceFacts DEF Dispatch, TypeOK, Settled, ram, host, line, env

\* A byte shifted in keeps the types.
LEMMA DeliverType == TypeOK /\ Deliver => TypeOK'
BY FrameFacts, SequenceFacts DEF Deliver, TypeOK, Settled, ram, host, line, env

\* Loss, damage and noise keep the types.
LEMMA LoseUnitType == TypeOK /\ LoseUnit => TypeOK'
<1> SUFFICES ASSUME TypeOK, LoseUnit PROVE TypeOK'
  OBVIOUS
<1>1. losses' \in 0 .. MaxLosses
  BY DEF LoseUnit, TypeOK
<1>2. toDev' \in Seq(Units) /\ toHost' \in Seq(Replies)
  <2>1. toDev \in Seq(Units) /\ toHost \in Seq(Replies)
    BY DEF TypeOK
  <2>2. <<Damaged>> \in Seq(Units) /\ <<StartByte>> \in Seq(Units)
    BY DEF Units
  <2>3. CASE toDev # << >> /\ toDev' = Tail(toDev) /\ toHost' = toHost
    BY <2>1, <2>3, SequenceFacts
  <2>4. CASE toHost # << >> /\ toHost' = Tail(toHost) /\ toDev' = toDev
    BY <2>1, <2>4, SequenceFacts
  <2>5. CASE toDev # << >> /\ toDev' = <<Damaged>> \o Tail(toDev) /\ toHost' = toHost
    <3>1. Tail(toDev) \in Seq(Units)
      BY <2>1, <2>5, SequenceFacts
    <3> QED
      BY <2>1, <2>2, <2>5, <3>1, SequenceFacts
  <2>6. CASE toDev' = <<StartByte>> /\ toHost' = toHost
    BY <2>1, <2>2, <2>6
  <2> QED
    BY <2>3, <2>4, <2>5, <2>6 DEF LoseUnit
<1> QED
  BY <1>1, <1>2 DEF LoseUnit, TypeOK, Settled, ram, host

\* A power cycle keeps the types.
LEMMA PowerCycleType == TypeOK /\ PowerCycle => TypeOK'
<1> SUFFICES ASSUME TypeOK, PowerCycle PROVE TypeOK'
  OBVIOUS
<1>1. reboots' \in 0 .. MaxReboots
  BY DEF PowerCycle, TypeOK
<1>2. Boot /\ cut' \in BOOLEAN
  BY DEF PowerCycle
<1>3. UNCHANGED <<flash, host, line, losses, faults, givenUp>>
  BY DEF PowerCycle
<1> QED
  BY <1>1, <1>2, <1>3, BootType DEF TypeOK, host, line

\* A new session keeps the types.
LEMMA HostStartType == TypeOK /\ HostStart => TypeOK'
<1> SUFFICES ASSUME TypeOK, HostStart PROVE TypeOK'
  OBVIOUS
<1>1. off' \in Nat /\ off' < ImageBytes[version'] /\ version' \in Versions
  BY ImageFacts DEF HostStart
<1>2. /\ phase' = "query" /\ sent' \in BOOLEAN /\ cut' \in BOOLEAN
      /\ UNCHANGED <<ram, flash, line, losses, reboots, faults, givenUp>>
  BY DEF HostStart
<1> QED
  BY <1>1, <1>2 DEF TypeOK, Settled, ram, line

\* A packet from the host keeps the types.
LEMMA HostSendType == TypeOK /\ HostSend => TypeOK'
<1> SUFFICES ASSUME TypeOK, HostSend PROVE TypeOK'
  OBVIOUS
<1>1. PICK k \in Kinds :
        toDev' = toDev \o <<StartByte, [kind |-> k, version |-> version, off |-> off]>>
  BY DEF HostSend
<1> DEFINE f == [kind |-> k, version |-> version, off |-> off]
<1>2. f \in Frames
  BY DEF Frames, TypeOK
<1>3. <<StartByte, f>> \in Seq(Units)
  BY <1>2 DEF Units
<1>4. toDev \in Seq(Units)
  BY DEF TypeOK
<1>5. toDev' \in Seq(Units)
  BY <1>1, <1>3, <1>4, SequenceFacts
<1> QED
  BY <1>5 DEF HostSend, TypeOK, Settled, ram, env

\* An answer read by the host keeps the types.
LEMMA HostReceiveType == TypeOK /\ HostReceive => TypeOK'
<1> SUFFICES ASSUME TypeOK, HostReceive PROVE TypeOK'
  OBVIOUS
<1>1. toHost' \in Seq(Replies)
  BY SequenceFacts DEF HostReceive, TypeOK
<1>2. off' \in Nat /\ off' < ImageBytes[version]
  <2>1. off \in Nat /\ off < ImageBytes[version] /\ version \in Versions
    BY DEF TypeOK
  <2>2. ImageBytes[version] \in Nat /\ 0 < ImageBytes[version]
    BY <2>1, ImageFacts
  <2>3. \/ off' = off \/ off' = 0
        \/ ~LastPacket /\ off' = off + packet_size
    BY DEF HostReceive
  <2> QED
    BY <2>1, <2>2, <2>3 DEF LastPacket
<1>3. phase' \in {"idle", "query", "erase", "write", "data", "reset", "done"}
  <2>1. CASE ~Awaited(Head(toHost))
    BY <2>1 DEF HostReceive, TypeOK
  <2>2. CASE Awaited(Head(toHost))
    <3>1. phase \in {"query", "erase", "write", "data", "reset"}
      BY <2>2 DEF Awaited
    <3> QED
      BY <2>2, <3>1 DEF HostReceive
  <2> QED
    BY <2>1, <2>2
<1>4. sent' \in BOOLEAN
  BY DEF HostReceive, TypeOK
<1>5. UNCHANGED <<ram, flash, toDev, version, env>>
  BY DEF HostReceive
<1> QED
  BY <1>1, <1>2, <1>3, <1>4, <1>5 DEF TypeOK, Settled, ram, env

\* generic_response_packet keeps the types.
LEMMA RespondType == TypeOK /\ Respond => TypeOK'
<1> SUFFICES ASSUME TypeOK, Respond PROVE TypeOK'
  OBVIOUS
<1>1. toHost' \in Seq(Replies)
  <2>1. frame.kind \in Replies /\ "write" \in Replies /\ toHost \in Seq(Replies)
    BY FrameFacts DEF Respond, TypeOK, Settled, Replies, Kinds
  <2> QED
    BY <2>1, SequenceFacts DEF Respond
<1>2. UNCHANGED <<flash, host, toDev, env>>
  BY DEF Respond
<1>3. CASE frame.kind = "reset"
  BY <1>1, <1>2, <1>3, BootType DEF Respond, TypeOK, host, env
<1>4. CASE frame.kind # "reset"
  BY <1>1, <1>2, <1>4 DEF Respond, TypeOK, Settled, host, env
<1> QED
  BY <1>3, <1>4

\* Every step of the device, its interrupt, the line and the host keeps the types.
LEMMA NextType == TypeOK /\ [Next]_vars => TypeOK'
<1> SUFFICES ASSUME TypeOK, [Next]_vars PROVE TypeOK'
  OBVIOUS
<1>1. CASE Main
  BY <1>1, PollEmptyType, PollNoiseType, DispatchType, CheckJumpType, PongType,
     AckPacketType, AckedEraseType, AckedWriteType, AckedDataType,
     AckedOtherType, EraseSectorType, EraseDoneType, ProgramHalfWordType,
     ProgramDoneType, RespondType DEF Main
<1>2. CASE Deadline
  BY <1>2, DeadlineType
<1>3. CASE Deliver \/ LoseUnit \/ PowerCycle
  BY <1>3, DeliverType, LoseUnitType, PowerCycleType
<1>4. CASE HostStart \/ HostSend \/ HostReceive
  BY <1>4, HostStartType, HostSendType, HostReceiveType
<1>5. CASE UNCHANGED vars
  BY <1>5 DEF TypeOK, Settled, vars, ram, host, line, env
<1> QED
  BY <1>1, <1>2, <1>3, <1>4, <1>5 DEF Next

\* Every variable keeps its type: in particular the host never reads past its
\* image and a handler always runs on a packet that could have been sent.
THEOREM BootloaderTypes == Spec => []TypeOK
<1>1. Init => TypeOK
  BY InitTypeOK
<1>2. TypeOK /\ [Next]_vars => TypeOK'
  BY NextType
<1> QED
  BY <1>1, <1>2, PTL DEF Spec

-----------------------------------------------------------------------------
(* The invariant of a session.                                             *)

\* The request the host has made or will make in its phase.
Asked ==
  {f \in Frames : /\ f.version = version /\ f.off = off
                  /\ f.kind = phase \/ (phase = "query" /\ f.kind \in {"ping", "property"})}

\* The answer it waits for in the phases before the transfer.
Finals ==
  IF phase = "query" THEN {"pong", "property"}
  ELSE IF phase \in {"erase", "write"} THEN {phase} ELSE {}

Answering == AnswerOf(toHost, Finals)

\* The device still runs the handler of a packet the host is through with.
Left == pc = "acked" /\ frame.kind = "data"
Busy == ~Settled /\ ~Left

Preparing == phase \in {"idle", "query", "erase", "write"}
Sending == phase = "data" /\ wms # 0

HandlersFrame ==
  /\ pc = "program" => frame.kind = "data"
  /\ pc = "pong" => frame.kind = "ping"
  /\ pc = "erase" => frame.kind = "erase"
  /\ pc \in {"ack", "acked", "respond"} => frame.kind # "ping"

\* Of the request under way there is one trace: a frame on the line, a frame in
\* the receive register, a handler that runs, or its answer.
Line ==
  /\ FramesIn(toDev, IF sent THEN Asked ELSE {}) /\ OnlyLast(toDev)
  /\ dr \in Frames => sent /\ dr \in Asked /\ FramesIn(toDev, {}) /\ Settled

Handler == Busy => sent /\ frame \in Asked /\ FramesIn(toDev, {}) /\ dr \notin Frames

Answer ==
  /\ toHost # << >> => sent /\ FramesIn(toDev, {}) /\ dr \notin Frames
  /\ toHost = << >> \/ toHost = <<"ack">> \/ Answering
  /\ Answering => Settled
  /\ Busy /\ toHost # << >> => pc \in {"acked", "erase", "respond"}

One == Preparing \/ Sending => Line /\ Handler /\ Answer

Region == app_start = app_address /\ app_count >= ImageBytes[version]
At(o) == wms = app_address + o

\* A write was answered: the device has its address, or has restarted since.
Started == (wms = 0 /\ app_count = 0 /\ cut) \/ (At(0) /\ Region)

Prepared ==
  Preparing =>
    /\ off = 0 /\ ~Left /\ (phase = "idle" => ~sent)
    /\ phase = "write" /\ (pc = "respond" \/ Answering) => Started

Payload ==
  LET left == ImageBytes[version] - off IN IF left < packet_size THEN left ELSE packet_size

\* In a transfer the device has an address for, it is the host's, until the packet
\* is programmed, and the next one's from then on.
InStep ==
  Sending =>
    /\ Region
    /\ Busy => pc \in {"program", "ack"}
    /\ ~sent \/ ~FramesIn(toDev, {}) \/ dr \in Frames \/ pc = "program" => At(off)
    /\ toHost # << >> \/ pc = "ack" => At(off + Payload)

\* A device that has no address for a transfer gets none before the next session.
Late == {f \in Frames : /\ f.version = version
                        /\ f.kind = "data" \/ (f.kind = "reset" /\ phase # "data")}

Finishing ==
  phase \in {"data", "reset", "done"} =>
    /\ FramesIn(toDev, Late) /\ (dr \in Frames => dr \in Late) /\ (~Settled => frame \in Late)
    /\ phase # "data" => wms = 0

Session == HandlersFrame /\ One /\ Prepared /\ InStep /\ Finishing

-----------------------------------------------------------------------------
(* A session, step by step.                                                *)

\* What the invariant says of the host is a matter of its own state.
LEMMA HostKept ==
  ASSUME UNCHANGED host
  PROVE  /\ Asked' = Asked /\ Finals' = Finals /\ Late' = Late /\ Payload' = Payload
         /\ Preparing' = Preparing /\ sent' = sent /\ phase' = phase /\ off' = off
         /\ version' = version
  BY DEF host, Asked, Finals, Late, Payload, Preparing

\* The steps that move no packet and no answer.
LEMMA Quietly ==
  ASSUME Session, UNCHANGED <<host, line, wms, app_count, app_start, cut>>,
         \/ pc' = pc /\ frame' = frame /\ dr' = dr
         \/ Settled /\ Settled' /\ (dr' = dr \/ dr' = None)
  PROVE  Session'
<1>1. None \notin Frames
  BY NoneAssumption DEF Units
<1>2. toDev' = toDev /\ toHost' = toHost
  BY DEF line
<1>3. HandlersFrame'
  BY DEF Session, HandlersFrame, Settled
<1>4. One'
  BY <1>1, <1>2, HostKept
     DEF Session, One, Sending, Line, Handler, Answer, Answering, Busy, Left, Settled
<1>5. Prepared'
  BY <1>1, <1>2, HostKept DEF Session, Prepared, Started, At, Region, Answering, Left, Settled
<1>6. InStep'
  BY <1>1, <1>2, HostKept DEF Session, InStep, Sending, At, Region, Busy, Left, Settled
<1>7. Finishing'
  BY <1>1, <1>2, HostKept DEF Session, Finishing, Settled
<1> QED BY <1>3, <1>4, <1>5, <1>6, <1>7 DEF Session

\* A packet is handed to its handler.
LEMMA DispatchSession == ASSUME TypeOK, Session, Dispatch PROVE Session'
<1>1. None \notin Frames
  BY NoneAssumption DEF Units
<1>2. /\ toDev' = toDev /\ toHost' = toHost /\ UNCHANGED host /\ dr \in Frames /\ frame' = dr
      /\ UNCHANGED <<wms, app_count, app_start, cut>> /\ dr' = None /\ Settled /\ ~Settled'
  BY DEF Dispatch, line, env, Settled
<1>3. \/ dr.kind = "ping" /\ pc' = "pong"
      \/ dr.kind = "data" /\ pc' = "program"
      \/ dr.kind \notin {"ping", "data"} /\ pc' = "ack"
  BY DEF Dispatch
<1>4. HandlersFrame'
  BY <1>2, <1>3 DEF HandlersFrame
<1>5. ~AnswerOf(<< >>, Finals)
  BY Answers DEF Finals
<1>6. One'
  BY <1>1, <1>2, <1>3, <1>5, HostKept
     DEF Session, One, Sending, Line, Handler, Answer, Answering, Busy
<1>7. Prepared'
  BY <1>1, <1>2, <1>3, HostKept DEF Session, Prepared, Started, At, Region, Answering, Left
<1>8. InStep'
  <2>1. Sending => dr.kind = "data" /\ toHost = << >>
    BY <1>2 DEF Session, One, Sending, Line, Answer, Asked
  <2> QED BY <1>1, <1>2, <1>3, <2>1, HostKept DEF Session, InStep, Sending, At, Region, Busy, Left
<1>9. Finishing'
  BY <1>1, <1>2, HostKept DEF Session, Finishing
<1> QED BY <1>4, <1>6, <1>7, <1>8, <1>9 DEF Session

\* What a handler at work means for the host: a request that waits for it.
LEMMA AtWork ==
  ASSUME TypeOK, Session, Busy
  PROVE  /\ Preparing => /\ frame \in Asked /\ frame \in Frames /\ sent
                         /\ frame.kind \in {"erase", "write"} => frame.kind = phase
                         /\ frame.kind \in {"ping", "property"} => phase = "query"
                         /\ frame.kind \in {"ping", "property", "erase", "write"}
                         /\ frame.version = version
                         /\ toHost = << >> \/ toHost = <<"ack">>
                         /\ toHost # << >> => pc \in {"acked", "erase", "respond"}
         /\ Sending => /\ frame \in Asked /\ frame.kind = "data" /\ sent
                       /\ frame.version = version /\ frame.off = off
                       /\ toHost = << >> /\ pc \in {"program", "ack"}
         /\ ~Preparing /\ ~Sending => /\ frame.kind \in {"data", "reset"}
                                      /\ phase \in {"data", "reset", "done"} /\ wms = 0
<1>1. frame \in Frames /\ frame.kind \in Kinds
  BY FrameFacts DEF TypeOK, Busy
<1>2. Preparing \/ Sending => sent /\ frame \in Asked
  BY DEF Session, One, Handler
<1>3. frame \in Asked => /\ frame.version = version /\ frame.off = off
                         /\ \/ frame.kind = phase
                            \/ phase = "query" /\ frame.kind \in {"ping", "property"}
  BY DEF Asked
<1>4. Preparing \/ Sending => /\ toHost = << >> \/ toHost = <<"ack">>
                              /\ toHost # << >> => pc \in {"acked", "erase", "respond"}
  BY DEF Session, One, Answer, Busy
<1>5. Sending => pc \in {"program", "ack"}
  BY DEF Session, InStep
<1>6. Preparing => frame.kind \in {"ping", "property", "erase", "write"}
  BY <1>1, <1>2, <1>3 DEF Preparing, Kinds
<1>7. ~Preparing => phase \in {"data", "reset", "done"}
  BY DEF TypeOK, Preparing
<1>8. ~Preparing /\ ~Sending => frame.kind \in {"data", "reset"} /\ wms = 0
  BY <1>7 DEF Session, Finishing, Sending, Late, Busy
<1> QED BY <1>1, <1>2, <1>3, <1>4, <1>5, <1>6, <1>7, <1>8 DEF Preparing, Sending

\* The answer to a ping.
LEMMA PongSession == ASSUME TypeOK, Session, Pong PROVE Session'
<1>1. /\ pc = "pong" /\ pc' = "check" /\ Busy /\ Settled' /\ frame.kind = "ping"
      /\ toHost' = Append(toHost, "pong") /\ toDev' = toDev /\ UNCHANGED host
      /\ UNCHANGED <<dr, frame, wms, app_count, app_start, cut>>
  BY DEF Pong, Busy, Left, Settled, env, Session, HandlersFrame
<1>2. HandlersFrame'
  BY <1>1 DEF HandlersFrame
<1>3. Preparing => phase = "query" /\ toHost = << >> /\ Finals = {"pong", "property"}
  BY <1>1, AtWork DEF Finals
<1>4. Preparing => toHost' # << >> /\ Answering'
  BY <1>1, <1>3, HostKept, Answers DEF Answering
<1>5. ~Sending
  BY <1>1, AtWork
<1>6. One'
  BY <1>1, <1>4, <1>5, HostKept DEF Session, One, Sending, Line, Handler, Answer, Busy
<1>7. Prepared'
  BY <1>1, <1>3, HostKept DEF Session, Prepared, Left
<1>8. InStep'
  BY <1>1, <1>5, HostKept DEF InStep, Sending
<1>9. Finishing'
  BY <1>1, HostKept DEF Session, Finishing
<1> QED BY <1>2, <1>6, <1>7, <1>8, <1>9 DEF Session

\* The acknowledge of a packet.
LEMMA AckSession == ASSUME TypeOK, Session, AckPacket PROVE Session'
<1>1. /\ pc = "ack" /\ pc' = "acked" /\ Busy /\ ~Settled' /\ frame.kind # "ping"
      /\ toHost' = Append(toHost, "ack") /\ toDev' = toDev /\ UNCHANGED host
      /\ UNCHANGED <<dr, frame, wms, app_count, app_start, cut>>
  BY DEF AckPacket, Busy, Left, Settled, env, Session, HandlersFrame
<1>2. HandlersFrame'
  BY <1>1 DEF HandlersFrame
<1>3. "ack" \notin Finals
  BY DEF Finals
<1>4. Preparing \/ Sending => toHost' = <<"ack">> /\ toHost' # << >> /\ ~Answering'
  BY <1>1, <1>3, AtWork, HostKept, Answers DEF Answering
<1>5. (Preparing => ~Left') /\ (Sending => Left' /\ ~Busy')
  BY <1>1, AtWork, HostKept DEF Left, Busy, Settled
<1>6. One'
  BY <1>1, <1>4, <1>5, HostKept DEF Session, One, Sending, Line, Handler, Answer
<1>7. Prepared'
  BY <1>1, <1>4, <1>5, HostKept DEF Session, Prepared
<1>8. InStep'
  BY <1>1, <1>4, <1>5, HostKept DEF Session, One, Line, Handler, InStep, Sending, At, Region, Busy
<1>9. Finishing'
  BY <1>1, HostKept DEF Session, Finishing, Busy
<1> QED BY <1>2, <1>6, <1>7, <1>8, <1>9 DEF Session

\* The steps of a handler that is no data packet's, between its acknowledge and
\* its answer.
LEMMA BetweenSession ==
  ASSUME TypeOK, Session, AckedErase \/ AckedOther \/ EraseDone PROVE Session'
<1>1. /\ pc \in {"acked", "erase"} /\ pc' \in {"erase", "respond"} /\ Busy /\ Busy' /\ ~Settled'
      /\ ~Left' /\ frame.kind \in {"erase", "property", "reset"}
      /\ (pc' = "erase" => frame.kind = "erase")
      /\ toHost' = toHost /\ toDev' = toDev /\ UNCHANGED host
      /\ UNCHANGED <<dr, frame, wms, cut>>
  BY DEF AckedErase, AckedOther, EraseDone, Busy, Left, Settled, line, env, Session, HandlersFrame
<1>2. HandlersFrame'
  BY <1>1 DEF HandlersFrame
<1>3. ~Sending /\ (Preparing => phase # "write")
  BY <1>1, AtWork
<1>4. One'
  BY <1>1, <1>3, HostKept DEF Session, One, Sending, Line, Handler, Answer, Answering, Busy
<1>5. Prepared'
  BY <1>1, <1>3, HostKept DEF Session, Prepared
<1>6. InStep'
  BY <1>1, <1>3, HostKept DEF InStep, Sending
<1>7. Finishing'
  BY <1>1, HostKept DEF Session, Finishing, Busy
<1> QED BY <1>2, <1>4, <1>5, <1>6, <1>7 DEF Session

\* A write command sets the address and the region.
LEMMA AckedWriteSession == ASSUME TypeOK, Session, AckedWrite PROVE Session'
<1>1. /\ pc = "acked" /\ pc' = "respond" /\ Busy /\ Busy' /\ ~Settled' /\ ~Left'
      /\ frame.kind = "write" /\ UNCHANGED <<dr, frame, cut>>
      /\ toHost' = toHost /\ toDev' = toDev /\ UNCHANGED host
      /\ app_start' = app_address /\ wms' = app_address
      /\ app_count' = Or(app_count, ImageBytes[frame.version])
  BY DEF AckedWrite, Busy, Left, Settled, line, env
<1>2. HandlersFrame'
  BY <1>1 DEF HandlersFrame
<1>3. Preparing /\ ~Sending /\ frame.version = version
  BY <1>1, AtWork DEF Sending, Preparing
<1>4. One'
  BY <1>1, <1>3, HostKept DEF Session, One, Sending, Line, Handler, Answer, Answering, Busy
<1>5. app_count' >= ImageBytes[version] /\ wms' = app_address + 0
  <2>1. version \in Versions /\ app_count \in Uint32
    BY DEF TypeOK
  <2>2. ImageBytes[version] \in Uint32
    BY <2>1, ImageFacts
  <2>3. app_count' = Or(app_count, ImageBytes[version])
    BY <1>1, <1>3
  <2>4. Or(app_count, ImageBytes[version]) >= ImageBytes[version]
    BY <2>1, <2>2, OrAssumption
  <2>5. app_address = app_address + 0
    BY SizesAssumption
  <2> QED BY <1>1, <2>3, <2>4, <2>5
<1>6. Prepared'
  BY <1>1, <1>3, <1>5, HostKept DEF Session, Prepared, Started, At, Region
<1>7. InStep' /\ Finishing'
  BY <1>1, <1>3, HostKept DEF InStep, Finishing, Sending, Preparing
<1> QED BY <1>2, <1>4, <1>6, <1>7 DEF Session

\* The end of recv_data.
LEMMA AckedDataSession == ASSUME TypeOK, Session, AckedData PROVE Session'
<1>1. /\ pc = "acked" /\ Left /\ ~Busy /\ ~Settled /\ frame.kind = "data"
      /\ UNCHANGED <<dr, frame, cut, app_count, app_start>>
      /\ toHost' = toHost /\ toDev' = toDev /\ UNCHANGED host
      /\ \/ pc' = "respond" /\ wms' = 0
         \/ pc' = "check" /\ wms' = wms
  BY DEF AckedData, Busy, Left, Settled, line, env
<1>2. HandlersFrame'
  BY <1>1 DEF HandlersFrame
<1>3. ~Preparing
  BY <1>1 DEF Session, Prepared
<1>4. Prepared' /\ (Sending' => Sending /\ Settled' /\ pc' = "check" /\ wms' = wms)
  BY <1>1, <1>3, HostKept DEF Prepared, Sending, Settled
<1>5. One'
  BY <1>1, <1>3, <1>4, HostKept DEF Session, One, Line, Handler, Answer, Answering, Busy
<1>6. InStep'
  BY <1>1, <1>4, HostKept DEF Session, InStep, At, Region, Busy
<1>7. Finishing'
  BY <1>1, HostKept DEF Session, Finishing
<1> QED BY <1>2, <1>4, <1>5, <1>6, <1>7 DEF Session

\* A packet was programmed: the address is the next one's.
LEMMA ProgramDoneSession == ASSUME TypeOK, Session, ProgramDone PROVE Session'
<1>1. /\ pc = "program" /\ pc' = "ack" /\ Busy /\ ~Settled /\ ~Settled' /\ ~Left'
      /\ frame.kind = "data" /\ UNCHANGED <<dr, frame, cut, app_count, app_start>>
      /\ toHost' = toHost /\ toDev' = toDev /\ UNCHANGED host
      /\ wms' = IF wms >= app_address THEN wms + PayloadBytes(frame) ELSE wms
  BY DEF ProgramDone, Busy, Left, Settled, line, env, Session, HandlersFrame
<1>2. HandlersFrame'
  BY <1>1 DEF HandlersFrame
<1>3. ~Preparing
  BY <1>1, AtWork
<1>10. wms = 0 => wms' = 0
  BY <1>1, SizesAssumption
<1>4. Sending' => Sending
  BY <1>1, <1>10, HostKept DEF Sending
<1>5. One'
  BY <1>1, <1>3, <1>4, HostKept DEF Session, One, Line, Handler, Answer, Answering, Busy
<1>6. Prepared'
  BY <1>3, <1>1, HostKept DEF Prepared
<1>7. Sending => wms' = app_address + (off + Payload)
  <2>1. SUFFICES ASSUME Sending PROVE wms' = app_address + (off + Payload)
    OBVIOUS
  <2>2. PayloadBytes(frame) = Payload
    BY <1>1, <2>1, AtWork DEF PayloadBytes, Payload
  <2>3. wms = app_address + off /\ off \in Nat
    BY <1>1, <2>1 DEF Session, InStep, At, TypeOK
  <2>4. Payload \in Nat
    BY <1>1, <2>2, FrameFacts DEF TypeOK, Busy
  <2> QED BY <1>1, <2>2, <2>3, <2>4, SizesAssumption
<1>8. InStep'
  BY <1>1, <1>4, <1>7, AtWork, HostKept DEF Session, One, Handler, InStep, At, Region
<1>9. Finishing'
  BY <1>1, <1>10, HostKept DEF Session, Finishing
<1> QED BY <1>2, <1>5, <1>6, <1>8, <1>9 DEF Session

\* The answer of a command; to a reset it is the last thing done.
LEMMA RespondSession == ASSUME TypeOK, Session, Respond PROVE Session'
<1>1. /\ pc = "respond" /\ Busy /\ ~Settled /\ Settled' /\ toDev' = toDev /\ UNCHANGED host
      /\ UNCHANGED cut
  BY DEF Respond, Boot, Busy, Left, Settled, env
<1>2. HandlersFrame'
  BY <1>1 DEF HandlersFrame, Settled
<1>3. ~Sending
  BY <1>1, AtWork
<1>4. CASE frame.kind = "reset"
  <2>1. ~Preparing
    BY <1>1, <1>4, AtWork
  <2>2. wms' = 0 /\ dr' \notin Frames
    BY <1>4, NoneAssumption DEF Respond, Boot, Units
  <2>3. One' /\ Prepared' /\ InStep'
    BY <1>1, <2>1, <2>2, HostKept DEF One, Prepared, InStep, Sending
  <2>4. Finishing'
    BY <1>1, <2>2, HostKept DEF Session, Finishing
  <2> QED BY <1>2, <2>3, <2>4 DEF Session
<1>5. CASE frame.kind # "reset"
  <2>1. /\ toHost' = Append(toHost, IF frame.kind = "data" THEN "write" ELSE frame.kind)
        /\ UNCHANGED <<dr, frame, wms, app_count, app_start>>
    BY <1>5 DEF Respond
  <2>2. Preparing => Answering' /\ toHost' # << >>
    <3>1. SUFFICES ASSUME Preparing PROVE Answering' /\ toHost' # << >>
      OBVIOUS
    <3>2. frame.kind # "ping" /\ toHost' = Append(toHost, frame.kind)
      BY <1>1, <2>1, <3>1, AtWork DEF Session, HandlersFrame
    <3>3. frame.kind \in Finals
      BY <1>1, <3>1, <3>2, AtWork DEF Finals
    <3>4. "ack" \notin Finals
      BY DEF Finals
    <3> QED BY <1>1, <3>1, <3>2, <3>3, <3>4, AtWork, Answers, HostKept DEF Answering
  <2>3. One'
    BY <1>1, <1>3, <2>1, <2>2, HostKept DEF Session, One, Sending, Line, Handler, Answer, Busy
  <2>4. Prepared'
    BY <1>1, <2>1, HostKept DEF Session, Prepared, Started, At, Region, Left, Settled
  <2>5. InStep' /\ Finishing'
    BY <1>1, <1>3, <2>1, HostKept DEF Session, InStep, Sending, Finishing
  <2> QED BY <1>2, <2>3, <2>4, <2>5 DEF Session
<1> QED BY <1>4, <1>5

\* What the line does to a packet under way, it does to the whole of it.
LEMMA DeliverSession == ASSUME TypeOK, Session, Deliver PROVE Session'
<1>1. /\ toDev \in Seq(Units) /\ toDev # << >> /\ toDev' = Tail(toDev)
      /\ UNCHANGED host /\ toHost' = toHost
      /\ UNCHANGED <<pc, frame, wms, app_count, app_start, cut>>
  BY DEF Deliver, TypeOK, env
<1>2. StartByte \notin Frames
  BY NoFrame
<1>3. /\ dr' \in Frames => dr' = dr \/ (Settled /\ dr \notin Frames /\ dr' = Head(toDev))
      /\ dr \in Frames => dr' = dr
  BY <1>2, NoneAssumption DEF Deliver, Settled, Units
<1>4. /\ \A F : FramesIn(toDev, F) => FramesIn(toDev', F)
      /\ OnlyLast(toDev) => OnlyLast(toDev')
      /\ \A F : FramesIn(toDev, F) /\ Head(toDev) \in Frames => Head(toDev) \in F
      /\ OnlyLast(toDev) /\ Head(toDev) \in Frames => toDev' = << >>
  BY <1>1, LineTail
<1>5. \A F : FramesIn(<< >>, F)
  BY NoLine
<1>6. HandlersFrame'
  BY <1>1 DEF Session, HandlersFrame
<1>7. Busy' = Busy /\ Left' = Left /\ Settled' = Settled /\ Sending' = Sending
  BY <1>1, HostKept DEF Busy, Left, Settled, Sending
<1>8. Line /\ (Preparing \/ Sending) => Line'
  <2>1. SUFFICES ASSUME Line PROVE Line'
    OBVIOUS
  <2>2. FramesIn(toDev', IF sent THEN Asked ELSE {}) /\ OnlyLast(toDev')
    BY <2>1, <1>4 DEF Line
  <2>3. ASSUME dr' \in Frames PROVE sent /\ dr' \in Asked /\ FramesIn(toDev', {}) /\ Settled
    <3>1. CASE dr' = dr
      BY <2>1, <2>3, <3>1, <1>4 DEF Line
    <3>2. CASE Settled /\ dr' = Head(toDev)
      BY <2>1, <2>3, <3>2, <1>4, <1>5 DEF Line
    <3> QED BY <2>3, <3>1, <3>2, <1>3
  <2> QED BY <1>1, <1>7, <2>2, <2>3, HostKept DEF Line
<1>9. Handler => Handler'
  BY <1>1, <1>3, <1>4, <1>7, HostKept DEF Handler, Busy
<1>10. Answer => Answer'
  BY <1>1, <1>3, <1>4, <1>7, HostKept DEF Answer, Answering
<1>11. One'
  BY <1>7, <1>8, <1>9, <1>10, <1>1, HostKept DEF Session, One
<1>12. Prepared'
  BY <1>1, <1>7, HostKept DEF Session, Prepared, Started, At, Region, Answering
<1>13. InStep'
  BY <1>1, <1>3, <1>4, <1>7, HostKept DEF Session, InStep, At, Region
<1>14. Finishing'
  BY <1>1, <1>3, <1>4, <1>7, HostKept DEF Session, Finishing
<1> QED BY <1>6, <1>11, <1>12, <1>13, <1>14 DEF Session

\* An answer is taken from the line, by the host or by a loss.
LEMMA AnswerTaken ==
  ASSUME Session, Preparing \/ Sending, toHost # << >>
  PROVE  /\ Tail(toHost) = << >> \/ (Head(toHost) = "ack" /\ AnswerOf(Tail(toHost), Finals))
         /\ AnswerOf(Tail(toHost), Finals) => Answering
         /\ Head(toHost) # "ack" => /\ Tail(toHost) = << >> /\ Answering
                                    /\ Head(toHost) \in Finals
<1>1. toHost = <<"ack">> \/ AnswerOf(toHost, Finals)
  BY DEF Session, One, Answer, Answering
<1>2. "ack" \notin Finals
  BY DEF Finals
<1>3. /\ Head(<<"ack">>) = "ack" /\ Tail(<<"ack">>) = << >> /\ ~AnswerOf(<< >>, Finals)
      /\ AnswerOf(toHost, Finals) =>
           /\ Head(toHost) = "ack" => AnswerOf(Tail(toHost), Finals)
           /\ Head(toHost) # "ack" => Tail(toHost) = << >> /\ Head(toHost) \in Finals
  BY <1>2, Answers
<1> QED BY <1>1, <1>3 DEF Answering

\* Units that are lost, damaged or made up.
LEMMA LoseUnitSession == ASSUME TypeOK, Session, LoseUnit PROVE Session'
<1>1. /\ UNCHANGED host /\ UNCHANGED <<pc, frame, dr, wms, app_count, app_start, cut>>
      /\ toDev \in Seq(Units) /\ StartByte \in Units /\ Damaged \in Units
  BY DEF LoseUnit, ram, TypeOK, Units
<1>2. Busy' = Busy /\ Left' = Left /\ Settled' = Settled /\ Sending' = Sending
  BY <1>1, HostKept DEF Busy, Left, Settled, Sending
<1>3. HandlersFrame'
  BY <1>1 DEF Session, HandlersFrame
<1>4. \/ toHost' = toHost /\ \/ toDev # << >> /\ toDev' = Tail(toDev)
                             \/ toDev # << >> /\ toDev' = <<Damaged>> \o Tail(toDev)
                             \/ toDev = << >> /\ toDev' = <<StartByte>>
      \/ toDev' = toDev /\ toHost # << >> /\ toHost' = Tail(toHost)
  BY DEF LoseUnit
<1>5. /\ \A F : FramesIn(toDev, F) => FramesIn(toDev', F)
      /\ OnlyLast(toDev) => OnlyLast(toDev')
  <2>1. CASE toDev # << >> /\ toDev' = Tail(toDev)
    BY <1>1, <2>1, LineTail
  <2>2. CASE toDev # << >> /\ toDev' = <<Damaged>> \o Tail(toDev)
    BY <1>1, <2>2, LineDamage
  <2>3. CASE toDev' = <<StartByte>>
    BY <2>3, OneUnit
  <2>4. CASE toDev' = toDev
    BY <2>4
  <2> QED BY <1>4, <2>1, <2>2, <2>3, <2>4
<1>6. Line => Line'
  BY <1>1, <1>2, <1>5, HostKept DEF Line
<1>7. Handler => Handler'
  BY <1>1, <1>2, <1>5, HostKept DEF Handler
<1>8. Preparing \/ Sending => /\ toHost' = toHost \/ toHost' = << >> \/ AnswerOf(toHost', Finals)
                              /\ toHost' # << >> => toHost # << >>
                              /\ AnswerOf(toHost', Finals) => Answering
  BY <1>4, AnswerTaken DEF Answering
<1>9. Preparing \/ Sending => Answer'
  BY <1>1, <1>2, <1>5, <1>8, HostKept DEF Session, One, Answer, Answering
<1>10. One'
  BY <1>1, <1>2, <1>6, <1>7, <1>9, HostKept DEF Session, One
<1>11. Prepared'
  BY <1>1, <1>2, <1>8, HostKept DEF Session, Prepared, Started, At, Region, Answering
<1>12. InStep'
  BY <1>1, <1>2, <1>5, <1>8, HostKept DEF Session, InStep, At, Region
<1>13. Finishing'
  BY <1>1, <1>2, <1>5, HostKept DEF Session, Finishing
<1> QED BY <1>3, <1>10, <1>11, <1>12, <1>13 DEF Session

\* A power cycle behind an answered write leaves the host to a device without
\* an address.
LEMMA PowerCycleSession == ASSUME TypeOK, Session, PowerCycle PROVE Session'
<1>1. /\ UNCHANGED host /\ toDev' = toDev /\ toHost' = toHost /\ pc' = "poll" /\ dr' = None
      /\ wms' = 0 /\ app_count' = 0 /\ cut' = TRUE
  BY DEF PowerCycle, Boot, line
<1>2. ~Busy' /\ Settled' /\ ~Left' /\ ~Sending' /\ dr' \notin Frames
  BY <1>1, NoneAssumption DEF Busy, Left, Settled, Sending, Units
<1>3. HandlersFrame'
  BY <1>1 DEF HandlersFrame
<1>4. One'
  BY <1>1, <1>2, HostKept DEF Session, One, Line, Handler, Answer, Answering
<1>5. Prepared'
  BY <1>1, <1>2, HostKept DEF Session, Prepared, Started
<1>6. InStep' /\ Finishing'
  BY <1>1, <1>2, HostKept DEF Session, InStep, Finishing
<1> QED BY <1>3, <1>4, <1>5, <1>6 DEF Session

\* The host begins anew when nothing is under way.
LEMMA HostStartSession == ASSUME TypeOK, Session, HostStart PROVE Session'
<1>1. /\ toDev' = << >> /\ toHost' = << >> /\ dr' = None /\ Settled' /\ UNCHANGED pc
      /\ phase' = "query" /\ sent' = FALSE /\ off' = 0
  BY DEF HostStart, Quiet, Settled, ram, line
<1>2. ~Busy' /\ ~Left' /\ ~Sending' /\ dr' \notin Frames
  BY <1>1, NoneAssumption DEF Busy, Left, Settled, Sending, Units
<1>3. HandlersFrame'
  BY <1>1 DEF HandlersFrame, Settled
<1>4. ~AnswerOf(<< >>, Finals')
  BY Answers DEF Finals
<1>5. One'
  BY <1>1, <1>2, <1>4, NoLine DEF One, Line, Handler, Answer, Answering
<1>6. Prepared'
  BY <1>1, <1>2 DEF Prepared
<1>7. InStep' /\ Finishing'
  BY <1>1, <1>2 DEF InStep, Finishing
<1> QED BY <1>3, <1>5, <1>6, <1>7 DEF Session

\* A request: nothing of the one before is on its way any more.
LEMMA HostSendSession == ASSUME TypeOK, Session, HostSend PROVE Session'
<1>1. /\ ~sent /\ sent' /\ phase \notin {"idle", "done"} /\ toHost' = toHost
      /\ UNCHANGED <<phase, version, off, pc, frame, dr, wms, app_count, app_start, cut>>
  BY DEF HostSend, ram, env
<1>2. PICK k \in Kinds :
        /\ k = phase \/ (phase = "query" /\ k \in {"ping", "property"})
        /\ toDev' = toDev \o <<StartByte, [kind |-> k, version |-> version, off |-> off]>>
  BY DEF HostSend
<1> DEFINE f == [kind |-> k, version |-> version, off |-> off]
<1>3. /\ f \in Frames /\ f.kind = k /\ f.version = version /\ f.off = off
      /\ f \in Units /\ StartByte \in Units /\ toDev \in Seq(Units)
  BY DEF Frames, Units, TypeOK
<1>4. toDev' = toDev \o <<StartByte, f>>
  BY <1>2
<1> HIDE DEF f
<1>5. f \in Asked /\ (phase \in {"data", "reset"} => f \in Late)
  BY <1>2, <1>3 DEF Asked, Late
<1>6. /\ \A F : f \in F /\ FramesIn(toDev, F) => FramesIn(toDev', F)
      /\ FramesIn(toDev, {}) => OnlyLast(toDev')
  BY <1>3, <1>4, LineSend
<1>7. /\ Asked' = Asked /\ Finals' = Finals /\ Late' = Late /\ Preparing' = Preparing
      /\ Busy' = Busy /\ Left' = Left /\ Settled' = Settled /\ Sending' = Sending
  BY <1>1 DEF Asked, Finals, Late, Preparing, Busy, Left, Settled, Sending
<1>8. HandlersFrame'
  BY <1>1 DEF Session, HandlersFrame
<1>9. Preparing \/ Sending => /\ FramesIn(toDev, {}) /\ dr \notin Frames /\ ~Busy /\ toHost = << >>
  BY <1>1 DEF Session, One, Line, Handler, Answer
<1>10. Preparing \/ Sending => FramesIn(toDev', Asked) /\ OnlyLast(toDev') /\ ~Answering
  <2>1. ~AnswerOf(<< >>, Finals)
    BY Answers DEF Finals
  <2> QED BY <1>5, <1>6, <1>9, <2>1, Weaker DEF Answering
<1>11. One'
  BY <1>1, <1>7, <1>9, <1>10 DEF One, Line, Handler, Answer, Answering
<1>12. Prepared'
  BY <1>1, <1>7, <1>9, <1>10
     DEF Session, Prepared, Started, At, Region, Answering, Busy, Left, Settled
<1>13. InStep'
  BY <1>1, <1>7, <1>9 DEF Session, InStep, At, Region, Busy, Left, Settled
<1>14. Finishing'
  BY <1>1, <1>5, <1>6, <1>7 DEF Session, Finishing
<1> QED BY <1>8, <1>11, <1>12, <1>13, <1>14 DEF Session

\* The answer the host waits for takes it to its next request.
LEMMA GoesOn ==
  ASSUME TypeOK, Session, HostReceive, Awaited(Head(toHost))
  PROVE  /\ sent' = FALSE /\ sent /\ phase \in {"query", "erase", "write", "data", "reset"}
         /\ phase = "query" => phase' = "erase"
         /\ phase = "erase" => phase' = "write"
         /\ phase = "write" => phase' = "data"
         /\ phase = "data" => phase' = IF LastPacket THEN "reset" ELSE "data"
         /\ phase = "reset" => phase' = "done"
         /\ off' = IF phase = "data" /\ ~LastPacket THEN off + packet_size ELSE 0
         /\ Preparing => Settled /\ toHost' = << >> /\ Answering
         /\ Sending => ~Busy /\ toHost' = << >> /\ ~LastPacket /\ At(off + Payload)
<1>1. toHost # << >> /\ toHost' = Tail(toHost)
  BY DEF HostReceive
<1>2. /\ sent' = FALSE /\ sent /\ phase \in {"query", "erase", "write", "data", "reset"}
      /\ phase = "query" => phase' = "erase" /\ Head(toHost) \in {"pong", "property"}
      /\ phase = "erase" => phase' = "write" /\ Head(toHost) = "erase"
      /\ phase = "write" => phase' = "data" /\ Head(toHost) = "write"
      /\ phase = "data" /\ LastPacket => phase' = "reset" /\ Head(toHost) = "write"
      /\ phase = "data" /\ ~LastPacket => phase' = "data" /\ Head(toHost) = "ack"
      /\ phase = "reset" => phase' = "done"
      /\ off' = IF phase = "data" /\ ~LastPacket THEN off + packet_size ELSE 0
  BY DEF HostReceive, Awaited
<1>3. Preparing => Settled /\ toHost' = << >> /\ Answering
  <2>1. Preparing => Head(toHost) # "ack"
    BY <1>2 DEF Preparing
  <2> QED BY <1>1, <2>1, AnswerTaken DEF Session, One, Answer
<1>4. ASSUME Sending PROVE ~Busy /\ toHost' = << >> /\ ~LastPacket /\ At(off + Payload)
  <2>1. Finals = {} /\ phase = "data"
    BY <1>4 DEF Sending, Finals
  <2>2. ~AnswerOf(Tail(toHost), Finals) /\ Head(toHost) \notin Finals
    BY <2>1 DEF AnswerOf
  <2>3. toHost' = << >> /\ Head(toHost) = "ack"
    BY <1>1, <1>4, <2>2, AnswerTaken
  <2>4. ~Busy /\ At(off + Payload)
    BY <1>1, <1>4 DEF Session, One, Answer, InStep
  <2> QED BY <1>2, <2>1, <2>3, <2>4
<1> QED BY <1>2, <1>3, <1>4

\* An answer: the one the host waits for takes it to its next request.
LEMMA HostReceiveSession == ASSUME TypeOK, Session, HostReceive PROVE Session'
<1>1. /\ toHost # << >> /\ toHost' = Tail(toHost) /\ toDev' = toDev
      /\ UNCHANGED <<version, pc, frame, dr, wms, app_count, app_start, cut>>
  BY DEF HostReceive, ram, env
<1>2. HandlersFrame'
  BY <1>1 DEF Session, HandlersFrame
<1>3. Busy' = Busy /\ Left' = Left /\ Settled' = Settled
  BY <1>1 DEF Busy, Left, Settled
<1>4. CASE ~Awaited(Head(toHost))
  <2>1. UNCHANGED host
    BY <1>1, <1>4 DEF HostReceive, host
  <2>2. Sending' = Sending
    BY <1>1, <2>1, HostKept DEF Sending
  <2>3. Preparing \/ Sending => /\ toHost' = << >> \/ AnswerOf(toHost', Finals)
                                /\ AnswerOf(toHost', Finals) => Answering
    BY <1>1, AnswerTaken
  <2>4. One'
    BY <1>1, <1>3, <2>1, <2>2, <2>3, HostKept DEF Session, One, Line, Handler, Answer, Answering
  <2>5. Prepared'
    BY <1>1, <1>3, <2>1, <2>3, HostKept DEF Session, Prepared, Started, At, Region, Answering
  <2>6. InStep'
    BY <1>1, <1>3, <2>1, <2>2, HostKept DEF Session, InStep, At, Region
  <2>7. Finishing'
    BY <1>1, <1>3, <2>1, HostKept DEF Session, Finishing
  <2> QED BY <1>2, <2>4, <2>5, <2>6, <2>7 DEF Session
<1>5. CASE Awaited(Head(toHost))
  <2>1. /\ sent' = FALSE /\ sent /\ phase \in {"query", "erase", "write", "data", "reset"}
        /\ phase = "query" => phase' = "erase"
        /\ phase = "erase" => phase' = "write"
        /\ phase = "write" => phase' = "data"
        /\ phase = "data" => phase' = IF LastPacket THEN "reset" ELSE "data"
        /\ phase = "reset" => phase' = "done"
        /\ off' = IF phase = "data" /\ ~LastPacket THEN off + packet_size ELSE 0
    BY <1>5, GoesOn
  <2>2. Preparing \/ Sending => FramesIn(toDev, {}) /\ OnlyLast(toDev) /\ dr \notin Frames
    BY <1>1 DEF Session, One, Line, Answer
  <2>3. Preparing => Settled /\ toHost' = << >> /\ Answering
    BY <1>5, GoesOn
  <2>4. Sending => ~Busy /\ toHost' = << >> /\ ~LastPacket /\ At(off + Payload)
    BY <1>5, GoesOn
  <2>5. Sending' => Sending \/ phase = "write"
    BY <1>1, <2>1 DEF Sending
  <2>6. Preparing' \/ Sending' => /\ FramesIn(toDev', {}) /\ OnlyLast(toDev') /\ dr' \notin Frames
                                  /\ ~Busy' /\ toHost' = << >> /\ ~sent'
    BY <1>1, <1>3, <2>1, <2>2, <2>3, <2>4, <2>5 DEF Preparing, Busy
  <2>7. ~AnswerOf(<< >>, Finals')
    BY Answers DEF Finals
  <2>8. One'
    BY <2>6, <2>7 DEF One, Line, Handler, Answer, Answering
  <2>9. Prepared'
    BY <1>1, <1>3, <2>1, <2>3, <2>6, <2>7 DEF Prepared, Preparing, Answering, Left, Settled
  <2>10. InStep'
    <3>1. CASE phase = "write"
      BY <1>1, <1>3, <2>1, <2>3, <2>6, <3>1
         DEF Session, Prepared, Preparing, InStep, Sending, Started, At, Region, Settled
    <3>2. CASE phase = "data"
      <4>1. Sending /\ ~LastPacket => off' = off + Payload
        <5>1. off \in Nat /\ packet_size \in Nat /\ ImageBytes[version] \in Nat
          BY ImageFacts, SizesAssumption DEF TypeOK
        <5> QED BY <2>1, <3>2, <5>1 DEF LastPacket, Payload
      <4> QED BY <1>1, <1>3, <2>1, <2>4, <2>5, <2>6, <3>2, <4>1
              DEF Session, InStep, Sending, At, Region, Busy, Left, Settled
    <3> QED BY <2>1, <3>1, <3>2 DEF InStep, Sending
  <2>11. Finishing'
    <3>1. CASE phase = "write"
      <4>1. Preparing /\ phase' = "data"
        BY <2>1, <3>1 DEF Preparing
      <4>2. FramesIn(toDev, {}) => FramesIn(toDev, Late')
        BY DEF FramesIn
      <4> QED BY <1>1, <1>3, <2>2, <2>3, <4>1, <4>2 DEF Finishing
    <3>2. CASE phase \in {"data", "reset"}
      <4>1. Late \subseteq Late'
        BY <1>1, <2>1, <3>2 DEF Late
      <4>2. FramesIn(toDev, Late) => FramesIn(toDev, Late')
        BY <4>1 DEF FramesIn
      <4>3. phase' # "data" => wms = 0
        BY <2>1, <2>4, <3>2 DEF Session, Finishing, Sending
      <4> QED BY <1>1, <1>3, <3>2, <4>1, <4>2, <4>3 DEF Session, Finishing
    <3> QED BY <2>1, <3>1, <3>2 DEF Finishing
  <2> QED BY <1>2, <2>8, <2>9, <2>10, <2>11 DEF Session
<1> QED BY <1>4, <1>5

-----------------------------------------------------------------------------
(* The invariant of a session holds, and packets land in order.            *)

\* The state at power-on.
LEMMA InitSession == Init => Session
<1> SUFFICES ASSUME Init PROVE Session
  OBVIOUS
<1>1. /\ Settled /\ ~Busy /\ ~Left /\ Preparing /\ ~Sending /\ dr \notin Frames /\ sent = FALSE
      /\ toDev = << >> /\ toHost = << >> /\ phase = "idle" /\ off = 0 /\ pc = "poll"
  BY NoneAssumption DEF Init, Settled, Busy, Left, Preparing, Sending, Units
<1>2. ~AnswerOf(<< >>, Finals)
  BY Answers DEF Finals
<1> QED BY <1>1, <1>2, NoLine
        DEF Session, HandlersFrame, One, Line, Handler, Answer, Answering, Prepared, InStep,
            Finishing

\* Every step keeps the session in order.
LEMMA NextSession == TypeOK /\ Session /\ [Next]_vars => Session'
<1> SUFFICES ASSUME TypeOK, Session, [Next]_vars PROVE Session'
  OBVIOUS
<1>1. CASE \/ PollEmpty \/ PollNoise \/ CheckJump \/ Deadline
           \/ EraseSector \/ ProgramHalfWord \/ UNCHANGED vars
  <2>1. UNCHANGED <<host, line, wms, app_count, app_start, cut>>
    BY <1>1 DEF PollEmpty, PollNoise, CheckJump, Deadline, EraseSector, ProgramHalfWord,
                vars, ram, env
  <2>2. \/ pc' = pc /\ frame' = frame /\ dr' = dr
        \/ Settled /\ Settled' /\ (dr' = dr \/ dr' = None)
    BY <1>1 DEF PollEmpty, PollNoise, CheckJump, Deadline, EraseSector, ProgramHalfWord,
                vars, ram, Settled
  <2> QED BY <2>1, <2>2, Quietly
<1>2. CASE Main
  BY <1>1, <1>2, DispatchSession, PongSession, AckSession, BetweenSession, AckedWriteSession,
     AckedDataSession, ProgramDoneSession, RespondSession DEF Main
<1>3. CASE Deliver \/ LoseUnit \/ PowerCycle
  BY <1>3, DeliverSession, LoseUnitSession, PowerCycleSession
<1>4. CASE HostStart \/ HostSend \/ HostReceive
  BY <1>4, HostStartSession, HostSendSession, HostReceiveSession
<1> QED BY <1>1, <1>2, <1>3, <1>4 DEF Next

\* The invariant of a session is one of the bootloader.
LEMMA SessionHolds == Spec => [](TypeOK /\ Session)
<1>1. Init => TypeOK /\ Session
  BY InitTypeOK, InitSession
<1>2. TypeOK /\ Session /\ [Next]_vars => (TypeOK /\ Session)'
  BY NextType, NextSession
<1> QED BY <1>1, <1>2, PTL DEF Spec

\* A data packet is programmed at the offset the host took it from, whatever
\* was lost, restarted or begun anew before it.
THEOREM PacketsInOrder == Spec => []PacketsLandInOrder
<1>1. TypeOK /\ Session => PacketsLandInOrder
  <2> SUFFICES ASSUME TypeOK, Session, pc = "program", wms >= app_address
               PROVE  wms = app_address + frame.off
    BY DEF PacketsLandInOrder
  <2>1. Busy /\ frame.kind = "data" /\ wms # 0
    BY SizesAssumption DEF Busy, Left, Settled, Session, HandlersFrame
  <2>2. Sending /\ frame.off = off
    BY <2>1, AtWork
  <2> QED BY <2>2 DEF Session, InStep, At
<1> QED BY <1>1, SessionHolds, PTL

-----------------------------------------------------------------------------
(* What a transfer leaves in flash.                                        *)

\* No half-word was given up, and no error suppressed one.
Sure == ~flashErr /\ "program" \notin givenUp

\* Nothing failed since the last reset that an erase of the vector did not
\* make good, and nothing at all in a boot before it.
Trusted == ~flashErr /\ (faults = 0 \/ (reboots = 0 /\ givenUp = {}))

\* The half-words a transfer has programmed.
Halves == IF pc = "program" THEN off \div 2 + i ELSE (wms - app_address) \div 2

Cursor ==
  /\ off % 2 = 0 /\ (pc = "program" /\ Sending => i <= Payload \div 2)
  /\ Sending => wms <= app_address + ImageBytes[version]

Flashed == Sending /\ Sure => \A c \in Cells : c < Halves => flash[c] = <<version, c>>

\* A device whose address is back at zero in a boot that set a region has
\* programmed all of it; without a restart there was such a region, and it was
\* the image's.
Complete ==
  /\ phase = "data" /\ wms = 0 /\ app_count # 0 /\ Sure => Holds(version)
  /\ phase \in {"reset", "done"} /\ app_count # 0 /\ Sure => Holds(version)
  /\ phase = "data" /\ ~cut => app_count # 0
  /\ phase = "data" /\ wms = 0 /\ ~cut => app_count = ImageBytes[version]
  /\ HostDoneSound /\ ConfirmedAtItsSize

\* What a transfer needs erased.
Needs(c) == c \in Occupied(version)
Cleared == phase = "erase" /\ (pc = "respond" \/ Answering)

Wiping ==
  pc = "erase" =>
    /\ app_count >= ImageBytes[version]
    /\ Trusted => \A c \in Cells : (2 * c) \div flash_sector_size < i => flash[c] = Erased

Wiped ==
  Trusted /\ (Cleared \/ phase = "write" \/ Sending) =>
    \A c \in Cells : Needs(c) /\ (Sending => c >= Halves) => flash[c] = Erased

\* Only a flash that failed makes the driver report an error, or wait in vain.
Sound == faults = 0 => ~flashErr /\ givenUp = {}

Contents == Cursor /\ Flashed /\ Complete /\ Sound /\ Wiping /\ Wiped /\ NoMixedImage

\* An erased vector starts nothing.
LEMMA NoVector == flash[VectorCell] = Erased => NoMixedImage
  BY DEF NoMixedImage, PcInRange

\* The steps that touch neither flash nor region.
LEMMA Untouched ==
  ASSUME TypeOK, Session, Contents,
         UNCHANGED <<flash, flashErr, faults, givenUp, reboots, cut, phase, version, off, wms,
                     app_count>>,
         \/ pc' = pc /\ i' = i
         \/ pc \notin {"program", "erase"} /\ pc' \notin {"program", "erase"},
         phase = "erase" /\ (pc' = "respond" \/ Answering') => pc = "respond" \/ Answering
  PROVE  Contents'
<1>1. /\ Sending' = Sending /\ (Sending => Halves' = Halves)
      /\ Payload' = Payload /\ Trusted' = Trusted
  BY DEF Sending, Halves, Payload, Trusted
<1>2. Cursor'
  BY <1>1 DEF Contents, Cursor
<1>3. Flashed'
  BY <1>1 DEF Contents, Flashed, Sure
<1>4. Complete'
  BY DEF Contents, Complete, Sure, Holds, HostDoneSound, ConfirmedAtItsSize
<1>5. Sound' /\ Wiping'
  BY <1>1 DEF Contents, Sound, Wiping
<1>6. Wiped'
  BY <1>1 DEF Contents, Wiped, Cleared, Needs
<1>7. NoMixedImage'
  BY DEF Contents, NoMixedImage, PcInRange
<1> QED BY <1>2, <1>3, <1>4, <1>5, <1>6, <1>7 DEF Contents

\* A packet is handed to its handler.
LEMMA DispatchContents == ASSUME TypeOK, Session, Contents, Dispatch PROVE Contents'
<1>1. /\ UNCHANGED <<flash, flashErr, faults, givenUp, reboots, cut, phase, version, off, wms,
                     app_count, toHost>>
      /\ pc = "poll" /\ pc' \in {"pong", "program", "ack"} /\ i' = 0 /\ dr \in Frames
  BY DEF Dispatch, host, line, env
<1>2. Sending' = Sending /\ Payload' = Payload /\ Trusted' = Trusted /\ Answering' = Answering
  BY <1>1 DEF Sending, Payload, Trusted, Answering, Finals
<1>3. Sending => Halves' = Halves
  <2>1. SUFFICES ASSUME Sending PROVE Halves' = Halves
    OBVIOUS
  <2>2. wms = app_address + off /\ off \in Nat
    BY <1>1, <2>1 DEF Session, InStep, At, TypeOK
  <2> QED BY <1>1, <2>2, SizesAssumption DEF Halves
<1>4. Cursor'
  <2>1. Payload \in Nat
    BY ImageFacts, SizesAssumption DEF TypeOK, Payload
  <2> QED BY <1>1, <1>2, <2>1 DEF Contents, Cursor
<1>5. Flashed'
  BY <1>1, <1>2, <1>3 DEF Contents, Flashed, Sure
<1>6. Complete'
  BY <1>1 DEF Contents, Complete, Sure, Holds, HostDoneSound, ConfirmedAtItsSize
<1>7. Sound' /\ Wiping'
  BY <1>1 DEF Contents, Sound, Wiping
<1>8. Wiped'
  BY <1>1, <1>2, <1>3 DEF Contents, Wiped, Cleared, Needs
<1>9. NoMixedImage'
  BY <1>1 DEF Contents, NoMixedImage, PcInRange
<1> QED BY <1>4, <1>5, <1>6, <1>7, <1>8, <1>9 DEF Contents

\* An erase command sets the region.
LEMMA AckedEraseContents == ASSUME TypeOK, Session, Contents, AckedErase PROVE Contents'
<1>1. /\ UNCHANGED <<flash, flashErr, faults, givenUp, reboots, cut, phase, version, off, wms,
                     toHost>>
      /\ pc = "acked" /\ frame.kind = "erase" /\ pc' = "erase" /\ i' = 0 /\ Busy
      /\ app_count' = Or(app_count, ImageBytes[frame.version])
  BY DEF AckedErase, host, line, env, Busy, Left, Settled
<1>2. phase = "erase" /\ frame.version = version /\ ~Sending /\ ~Sending'
  BY <1>1, AtWork DEF Preparing, Sending
<1>3. ~Answering'
  BY <1>1, <1>2 DEF Session, One, Answer, Preparing, Answering, Finals, Busy
<1>4. Cursor' /\ Flashed' /\ Complete' /\ Sound'
  BY <1>1, <1>2
     DEF Contents, Cursor, Flashed, Complete, Sure, HostDoneSound, ConfirmedAtItsSize, Sound
<1>5. Wiping'
  <2>1. app_count' >= ImageBytes[version]
    <3>1. app_count \in Uint32 /\ ImageBytes[version] \in Uint32
      BY ImageFacts DEF TypeOK
    <3>2. Or(app_count, ImageBytes[version]) >= ImageBytes[version]
      BY <3>1, OrAssumption
    <3> QED BY <1>1, <1>2, <3>2
  <2>2. \A c \in Cells : ~((2 * c) \div flash_sector_size < 0)
    BY SizesAssumption DEF Cells
  <2> QED BY <1>1, <2>1, <2>2 DEF Wiping
<1>6. Wiped'
  BY <1>1, <1>2, <1>3 DEF Wiped, Cleared
<1>7. NoMixedImage'
  BY <1>1 DEF Contents, NoMixedImage, PcInRange
<1> QED BY <1>4, <1>5, <1>6, <1>7 DEF Contents

\* A write command sets the address behind a finished erase.
LEMMA AckedWriteContents == ASSUME TypeOK, Session, Contents, AckedWrite PROVE Contents'
<1>1. /\ UNCHANGED <<flash, flashErr, faults, givenUp, reboots, cut, phase, version, off>>
      /\ pc = "acked" /\ frame.kind = "write" /\ pc' = "respond" /\ Busy
  BY DEF AckedWrite, host, env, Busy, Left, Settled
<1>2. phase = "write" /\ ~Sending /\ ~Sending'
  BY <1>1, AtWork DEF Preparing, Sending
<1>3. Cursor' /\ Flashed' /\ Complete' /\ Sound' /\ Wiping'
  BY <1>1, <1>2
     DEF Contents, Cursor, Flashed, Complete, Sure, HostDoneSound, ConfirmedAtItsSize, Sound, Wiping
<1>4. Wiped'
  BY <1>1, <1>2 DEF Contents, Wiped, Cleared, Needs, Trusted
<1>5. NoMixedImage'
  BY <1>1 DEF Contents, NoMixedImage, PcInRange
<1> QED BY <1>3, <1>4, <1>5 DEF Contents

-----------------------------------------------------------------------------
(* Halves of sums, and sectors of a region.                                *)

\* Bytes and half-words.
LEMMA HalfSum ==
  ASSUME NEW m \in Nat, m % 2 = 0, NEW n \in Nat
  PROVE  (m + n) \div 2 = m \div 2 + n \div 2 /\ m \div 2 \in Nat /\ m = 2 * (m \div 2)
  OBVIOUS

\* Multiples of a sector size are ordered like their factors.
LEMMA Multiples ==
  ASSUME NEW m \in Nat, NEW n \in Nat, NEW w \in Nat, m <= n PROVE w * m <= w * n
<1>1. w * (n - m) \in Nat
  OBVIOUS
<1>2. w * (n - m) = w * n - w * m
  OBVIOUS
<1> QED BY <1>1, <1>2

\* A sector that the region reaches into is erased.
LEMMA InRegion ==
  ASSUME TypeOK, NEW c \in Cells,
         flash_sector_size * ((2 * c) \div flash_sector_size) < app_count
  PROVE  (2 * c) \div flash_sector_size < SectorNum
<1> DEFINE w == flash_sector_size
           a == app_count
           q == a \div w
           r == a % w
           x == 2 * c
           y == x \div w
<1> SUFFICES y < SectorNum
  OBVIOUS
<1>1. w \in Nat \ {0} /\ a \in Nat /\ x \in Nat
  BY SizesAssumption DEF TypeOK, Cells
<1>2. w * y < a
  OBVIOUS
<1> HIDE DEF w, a, x
<1>3. q \in Nat /\ r \in 0 .. w - 1 /\ y \in Nat
  BY <1>1
<1>4. a = w * q + r
  BY <1>1
<1>5. SectorNum = q + (IF r # 0 THEN 1 ELSE 0)
  BY DEF SectorNum, w, a
<1> HIDE DEF q, r, y
<1>6. w * q \in Nat /\ w * y \in Nat
  BY <1>1, <1>3
<1>7. CASE y < q
  BY <1>3, <1>5, <1>7
<1>8. CASE q <= y
  <2>1. w * q <= w * y
    BY <1>1, <1>3, <1>8, Multiples
  <2>2. r # 0
    BY <1>1, <1>2, <1>3, <1>4, <1>6, <2>1
  <2>3. ~(q + 1 <= y)
    <3>1. SUFFICES ASSUME q + 1 <= y PROVE FALSE
      OBVIOUS
    <3>2. w * (q + 1) <= w * y /\ w * (q + 1) = w * q + w
      BY <1>1, <1>3, <3>1, Multiples
    <3> QED BY <1>1, <1>2, <1>3, <1>4, <1>6, <3>2
  <2> QED BY <1>3, <1>5, <1>8, <2>2, <2>3
<1> QED BY <1>3, <1>7, <1>8

\* An image occupies the half-words it consists of, and the vector's.
LEMMA OccupiedCells ==
  ASSUME NEW v \in Versions
  PROVE  /\ \A c \in Cells : 2 * c < ImageBytes[v] => c \in Occupied(v)
         /\ VectorCell \in Occupied(v)
<1> DEFINE w == flash_sector_size
<1>1. w \in Nat \ {0} /\ ImageBytes[v] \in Nat /\ 0 < ImageBytes[v]
  BY ImageFacts, SizesAssumption
<1>2. ASSUME NEW c \in Cells, 2 * c < ImageBytes[v] PROVE c \in Occupied(v)
  <2> DEFINE x == 2 * c
             y == x \div w
             z == x % w
  <2>1. x \in Nat /\ x < ImageBytes[v]
    BY <1>2 DEF Cells
  <2> HIDE DEF w, x
  <2>2. y \in Nat /\ z \in Nat /\ x = w * y + z
    BY <1>1, <2>1
  <2> HIDE DEF y, z
  <2>3. w * y \in Nat
    BY <1>1, <2>2
  <2>4. w * y < ImageBytes[v]
    BY <1>1, <2>1, <2>2, <2>3
  <2> QED BY <2>4 DEF Occupied, w, x, y
<1>3. VectorCell \in Cells /\ (2 * VectorCell) \div w = 0
  BY SizesAssumption DEF Cells
<1>4. VectorCell \in Occupied(v)
  BY <1>1, <1>3 DEF Occupied
<1> QED BY <1>2, <1>4

-----------------------------------------------------------------------------
(* Erasing and programming.                                                *)

\* A sector: the vector is erased with the first.
LEMMA EraseSectorContents == ASSUME TypeOK, Session, Contents, EraseSector PROVE Contents'
<1>1. /\ UNCHANGED <<pc, cut, phase, version, off, wms, app_count, toHost, reboots>>
      /\ pc = "erase" /\ i' = i + 1 /\ Busy /\ frame.kind = "erase" /\ i \in Nat
  BY DEF EraseSector, host, line, Busy, Left, Settled, Session, HandlersFrame, TypeOK
<1>2. phase = "erase" /\ ~Sending /\ ~Sending'
  BY <1>1, AtWork DEF Preparing, Sending
<1>3. ~Answering'
  BY <1>1, <1>2 DEF Session, One, Answer, Preparing, Answering, Finals, Busy
<1>4. Cursor' /\ Flashed' /\ Complete' /\ Wiped'
  BY <1>1, <1>2, <1>3
     DEF Contents, Cursor, Flashed, Complete, Sure, HostDoneSound, ConfirmedAtItsSize, Wiped,
         Cleared
<1>5. CASE UNCHANGED <<flash, flashErr, faults, givenUp>> /\ flashErr
  BY <1>1, <1>4, <1>5 DEF Contents, Sound, Wiping, Trusted, NoMixedImage, PcInRange
<1>6. CASE /\ faults' = faults + 1 /\ UNCHANGED flash
           /\ (flashErr' = TRUE /\ UNCHANGED givenUp) \/ givenUp' = givenUp \cup {"erase"}
  <2>1. faults \in Nat
    BY SizesAssumption DEF TypeOK
  <2>2. faults' # 0 /\ ~Trusted' /\ (givenUp' = {} => givenUp = {})
    BY <1>6, <2>1 DEF Trusted
  <2>3. NoMixedImage'
    BY <1>1, <1>6, <2>2 DEF Contents, NoMixedImage, PcInRange
  <2> QED BY <1>1, <1>4, <2>2, <2>3 DEF Contents, Sound, Wiping
<1>7. CASE ~flashErr /\ UNCHANGED faults /\ EraseCells(i)
  <2>1. /\ UNCHANGED flashErr
        /\ flash' = [c \in Cells |-> IF c \in SectorCells(i) THEN Erased ELSE flash[c]]
        /\ i # 0 => UNCHANGED givenUp
        /\ givenUp' = {} \/ UNCHANGED givenUp
    <3>1. (2 * VectorCell) \div flash_sector_size = 0
      BY SizesAssumption
    <3> QED BY <1>7, <3>1 DEF EraseCells, SectorCells
  <2>2. \A c \in Cells : (2 * c) \div flash_sector_size \in Nat
    BY SizesAssumption DEF Cells
  <2>3. Sound'
    BY <1>7, <2>1 DEF Contents, Sound
  <2>4. Wiping'
    <3>1. SUFFICES ASSUME Trusted', NEW c \in Cells, (2 * c) \div flash_sector_size < i + 1
                   PROVE  flash'[c] = Erased
      BY <1>1 DEF Contents, Wiping
    <3>2. CASE (2 * c) \div flash_sector_size = i
      BY <2>1, <3>1, <3>2 DEF SectorCells
    <3>3. CASE (2 * c) \div flash_sector_size < i
      <4>1. i # 0 /\ Trusted
        BY <1>1, <1>7, <2>1, <2>2, <3>1, <3>3 DEF Trusted
      <4>2. flash[c] = Erased
        BY <1>1, <3>1, <3>3, <4>1 DEF Contents, Wiping
      <4> QED BY <2>1, <3>1, <4>2
    <3> QED BY <1>1, <2>2, <3>1, <3>2, <3>3
  <2>5. NoMixedImage'
    <3>1. CASE Trusted'
      <4>1. (2 * VectorCell) \div flash_sector_size = 0 /\ VectorCell \in Cells
        BY SizesAssumption DEF Cells
      <4>2. 0 < i + 1
        BY <1>1
      <4>3. flash'[VectorCell] = Erased
        BY <1>1, <2>4, <3>1, <4>1, <4>2 DEF Wiping
      <4> QED BY <4>3 DEF NoMixedImage, PcInRange
    <3>2. CASE ~Trusted'
      BY <1>1, <1>7, <2>1, <3>2 DEF NoMixedImage, Trusted
    <3> QED BY <3>1, <3>2
  <2> QED BY <1>4, <2>3, <2>4, <2>5 DEF Contents
<1>8. \/ UNCHANGED <<flash, flashErr, faults, givenUp>> /\ flashErr
      \/ /\ faults' = faults + 1 /\ UNCHANGED flash
         /\ (flashErr' = TRUE /\ UNCHANGED givenUp) \/ givenUp' = givenUp \cup {"erase"}
      \/ ~flashErr /\ UNCHANGED faults /\ EraseCells(i)
  BY Zenon DEF EraseSector, Operate
<1> QED BY <1>5, <1>6, <1>7, <1>8

\* All sectors of the region were erased.
LEMMA EraseDoneContents == ASSUME TypeOK, Session, Contents, EraseDone PROVE Contents'
<1>1. /\ UNCHANGED <<flash, flashErr, faults, givenUp, reboots, cut, phase, version, off, wms,
                     app_count, toHost>>
      /\ pc = "erase" /\ pc' = "respond" /\ Busy /\ frame.kind = "erase"
      /\ i >= SectorNum /\ i \in Nat
  BY DEF EraseDone, host, line, env, Busy, Left, Settled, Session, HandlersFrame, TypeOK
<1>2. phase = "erase" /\ ~Sending /\ ~Sending'
  BY <1>1, AtWork DEF Preparing, Sending
<1>3. Cursor' /\ Flashed' /\ Complete' /\ Sound' /\ Wiping'
  BY <1>1, <1>2
     DEF Contents, Cursor, Flashed, Complete, Sure, HostDoneSound, ConfirmedAtItsSize, Sound, Wiping
<1>4. Wiped'
  <2>1. SUFFICES ASSUME Trusted, NEW c \in Cells, Needs(c) PROVE flash[c] = Erased
    BY <1>1, <1>2 DEF Wiped, Needs, Trusted
  <2>2. /\ app_count >= ImageBytes[version] /\ app_count \in Nat
        /\ ImageBytes[version] \in Nat /\ ImageBytes[version] > 0
    BY <1>1, ImageFacts, SizesAssumption DEF Contents, Wiping, TypeOK
  <2>3. flash_sector_size * ((2 * c) \div flash_sector_size) < app_count
    <3> DEFINE y == flash_sector_size * ((2 * c) \div flash_sector_size)
    <3>1. y \in Int /\ y < ImageBytes[version]
      BY <2>1, SizesAssumption DEF Needs, Occupied, Cells
    <3> HIDE DEF y
    <3>2. y < app_count
      BY <2>2, <3>1
    <3> QED BY <3>2 DEF y
  <2>4. (2 * c) \div flash_sector_size < SectorNum
    BY <2>3, InRegion
  <2>5. /\ (2 * c) \div flash_sector_size \in Int /\ app_count \div flash_sector_size \in Int
    BY <2>2, SizesAssumption DEF Cells
  <2>6. SectorNum \in Int
    BY <2>5 DEF SectorNum
  <2>7. (2 * c) \div flash_sector_size < i
    BY <1>1, <2>4, <2>5, <2>6
  <2> QED BY <1>1, <2>1, <2>7 DEF Contents, Wiping
<1>5. NoMixedImage'
  BY <1>1 DEF Contents, NoMixedImage, PcInRange
<1> QED BY <1>3, <1>4, <1>5 DEF Contents

\* Where a data packet is programmed.
LEMMA Where ==
  ASSUME TypeOK, Session, Contents, pc = "program", wms >= app_address
  PROVE  /\ Sending /\ frame.version = version /\ frame.off = off /\ wms = app_address + off
         /\ Target = Halves /\ Halves = off \div 2 + i /\ PayloadBytes(frame) = Payload
         /\ off \in Nat /\ off % 2 = 0 /\ i \in Nat /\ Payload \in Nat /\ i <= Payload \div 2
         /\ off + Payload <= ImageBytes[version]
         /\ Writing => 2 * Halves < ImageBytes[version] /\ Halves < ImageBytes[version] \div 2
                       /\ Halves \in Cells
<1>1. Busy /\ frame.kind = "data" /\ wms # 0
  BY SizesAssumption DEF Busy, Left, Settled, Session, HandlersFrame
<1>2. Sending /\ frame.version = version /\ frame.off = off
  BY <1>1, AtWork
<1>3. wms = app_address + off
  BY <1>2 DEF Session, InStep, At
<1>4. off \in Nat /\ off < ImageBytes[version] /\ version \in Versions /\ i \in Nat
  BY DEF TypeOK
<1>5. ImageBytes[version] \in Nat /\ ImageBytes[version] \div 2 <= FlashCells /\ FlashCells \in Nat
  BY <1>4, ImageFacts, SizesAssumption
<1>6. off % 2 = 0 /\ i <= Payload \div 2
  BY <1>2 DEF Contents, Cursor
<1>7. PayloadBytes(frame) = Payload /\ Payload \in Nat /\ off + Payload <= ImageBytes[version]
  BY <1>2, <1>4, <1>5, SizesAssumption DEF PayloadBytes, Payload
<1>8. Halves = off \div 2 + i
  BY DEF Halves
<1>9. Target = Halves
  <2>1. wms - app_address = off
    BY <1>3, <1>4, SizesAssumption
  <2> QED BY <1>8, <2>1 DEF Target
<1>10. Writing => 2 * Halves < ImageBytes[version] /\ Halves < ImageBytes[version] \div 2
                  /\ Halves \in Cells
  <2>1. SUFFICES ASSUME i < Payload \div 2
                 PROVE 2 * Halves < ImageBytes[version] /\ Halves < ImageBytes[version] \div 2
                       /\ Halves \in Cells
    BY <1>7 DEF Writing
  <2>2. off = 2 * (off \div 2) /\ off \div 2 \in Nat /\ 2 * i + 2 <= Payload
    BY <1>4, <1>6, <1>7, <2>1
  <2>3. 2 * Halves + 2 <= ImageBytes[version] /\ Halves \in Nat
    BY <1>4, <1>5, <1>7, <1>8, <2>2
  <2> QED BY <1>5, <2>3 DEF Cells
<1> QED BY <1>2, <1>3, <1>4, <1>6, <1>7, <1>8, <1>9, <1>10

\* A half-word: it was erased, unless the flash failed before.
LEMMA ProgramHalfWordContents ==
  ASSUME TypeOK, Session, Contents, ProgramHalfWord PROVE Contents'
<1>1. /\ UNCHANGED <<pc, cut, phase, version, off, wms, app_count, toHost, reboots>>
      /\ pc = "program" /\ i' = i + 1 /\ Writing /\ wms >= app_address
  BY DEF ProgramHalfWord, Writing, host, line
<1> DEFINE h == off \div 2 + i
<1>2. /\ Sending /\ frame.version = version /\ frame.off = off /\ Target = h /\ Halves = h
      /\ PayloadBytes(frame) = Payload /\ i \in Nat /\ Payload \in Nat /\ off % 2 = 0 /\ off \in Nat
      /\ 2 * h < ImageBytes[version] /\ h < ImageBytes[version] \div 2 /\ h \in Cells
  BY <1>1, Where
<1>3. /\ phase = "data" /\ wms # 0 /\ Sending' = Sending /\ Payload' = Payload /\ Halves' = h + 1
      /\ wms' # 0 /\ phase' = "data" /\ flash \in [Cells -> Words] /\ h \in Nat
  BY <1>1, <1>2 DEF Sending, Payload, Halves, TypeOK
<1>4. Cursor'
  BY <1>1, <1>2, <1>3 DEF Contents, Cursor, Writing
<1>5. Wiping' /\ Complete'
  BY <1>1, <1>3 DEF Contents, Wiping, Complete, Sure, HostDoneSound, ConfirmedAtItsSize
<1>6. ASSUME Trusted, NEW c \in Cells, Needs(c), c >= h PROVE flash[c] = Erased
  BY <1>2, <1>6 DEF Contents, Wiped
<1>7. Needs(h) /\ version \in Versions
  BY <1>2, OccupiedCells DEF Needs, TypeOK
<1>8. faults \in Nat
  BY SizesAssumption DEF TypeOK
<1>9. CASE flashErr' /\ UNCHANGED <<flash, givenUp>> /\ (faults' = 0 => faults = 0 /\ flashErr)
  <2>1. Sound'
    BY <1>9 DEF Contents, Sound
  <2>2. Flashed' /\ Wiped'
    BY <1>9 DEF Flashed, Sure, Wiped, Trusted
  <2>3. NoMixedImage'
    BY <1>1, <1>9 DEF Contents, NoMixedImage, PcInRange
  <2> QED BY <1>4, <1>5, <2>1, <2>2, <2>3 DEF Contents
<1>10. CASE /\ faults' = faults + 1 /\ givenUp' = givenUp \cup {"program"} /\ UNCHANGED flash
  <2>1. faults' # 0 /\ givenUp' # {} /\ "program" \in givenUp'
    BY <1>8, <1>10
  <2> QED BY <1>4, <1>5, <2>1 DEF Contents, Sound, Flashed, Sure, Wiped, Trusted, NoMixedImage
<1>11. CASE /\ ~flashErr /\ UNCHANGED <<flashErr, faults, givenUp>>
            /\ flash' = [flash EXCEPT ![h] = <<version, h>>]
  <2>1. Sound' /\ Trusted' = Trusted
    BY <1>1, <1>11 DEF Contents, Sound, Trusted
  <2>2. flash'[h] = <<version, h>> /\ \A c \in Cells : c # h => flash'[c] = flash[c]
    BY <1>2, <1>3, <1>11
  <2>3. Sure => \A c \in Cells : c < h => flash[c] = <<version, c>>
    BY <1>2 DEF Contents, Flashed
  <2> HIDE DEF h
  <2>4. Sure => \A c \in Cells : c < h + 1 => flash'[c] = <<version, c>>
    <3>1. \A c \in Cells : c < h + 1 => c = h \/ c < h
      BY <1>3 DEF Cells
    <3> QED BY <1>3, <2>2, <2>3, <3>1
  <2>5. Flashed'
    <3>1. Sure' = Sure
      BY <1>11 DEF Sure
    <3> QED BY <1>1, <1>3, <2>4, <3>1 DEF Flashed
  <2>6. ASSUME Trusted, NEW c \in Cells, Needs(c), c >= h + 1 PROVE flash'[c] = Erased
    <3>1. c # h /\ c >= h
      BY <1>3, <2>6 DEF Cells
    <3> QED BY <1>6, <2>2, <2>6, <3>1
  <2>7. Wiped'
    <3>1. \A c \in Cells : Needs(c)' <=> Needs(c)
      BY <1>1 DEF Needs, Occupied
    <3>2. Sending' /\ Halves' = h + 1
      BY <1>2, <1>3
    <3> QED BY <2>1, <2>6, <3>1, <3>2 DEF Wiped
  <2>8. NoMixedImage'
    <3>1. SUFFICES ASSUME flash'[VectorCell] # Erased, faults = 0 \/ (reboots = 0 /\ givenUp = {})
                   PROVE  LET v == flash'[VectorCell][1]
                          IN  \E n \in 0 .. ImageBytes[v] \div 2 : \A c \in Occupied(v) :
                                flash'[c] = IF c < n THEN <<v, c>> ELSE Erased
      BY <1>1, <1>11 DEF NoMixedImage, PcInRange
    <3>2. VectorCell \in Cells /\ Needs(VectorCell)
      BY <1>7, OccupiedCells, SizesAssumption DEF Cells, Needs
    <3>3. Trusted /\ Sure
      BY <1>11, <3>1 DEF Contents, Sound, Trusted, Sure
    <3>4. VectorCell < h + 1
      BY <1>3, <2>6, <3>1, <3>2, <3>3 DEF Cells
    <3>5. flash'[VectorCell][1] = version
      BY <2>4, <3>2, <3>3, <3>4
    <3>6. h + 1 \in 0 .. ImageBytes[version] \div 2
      <4>1. ImageBytes[version] \in Nat /\ ImageBytes[version] \div 2 \in Nat
        BY <1>7, ImageFacts
      <4> QED BY <1>2, <1>3, <4>1
    <3>7. ASSUME NEW c \in Occupied(version)
          PROVE  flash'[c] = IF c < h + 1 THEN <<version, c>> ELSE Erased
      <4>1. c \in Cells /\ Needs(c)
        BY <3>7 DEF Needs, Occupied
      <4>2. c < h + 1 \/ c >= h + 1
        BY <1>3, <4>1 DEF Cells
      <4> QED BY <2>4, <2>6, <3>3, <4>1, <4>2
    <3> QED BY <3>5, <3>6, <3>7
  <2> QED BY <1>4, <1>5, <2>1, <2>5, <2>7, <2>8 DEF Contents
<1>12. \/ flashErr /\ UNCHANGED <<flash, flashErr, faults, givenUp>>
       \/ /\ ~flashErr /\ UNCHANGED <<flashErr, faults, givenUp>>
          /\ flash' = [flash EXCEPT ![h] = <<version, h>>]
       \/ ~flashErr /\ flash[h] # Erased /\ flashErr' = TRUE /\ UNCHANGED <<flash, faults, givenUp>>
       \/ flashErr' = TRUE /\ faults' = faults + 1 /\ UNCHANGED <<flash, givenUp>>
       \/ givenUp' = givenUp \cup {"program"} /\ faults' = faults + 1 /\ UNCHANGED flash
  BY <1>2 DEF ProgramHalfWord, Operate, ProgramCell
<1>13. \/ flashErr' /\ UNCHANGED <<flash, givenUp>> /\ (faults' = 0 => faults = 0 /\ flashErr)
       \/ /\ ~flashErr /\ UNCHANGED <<flashErr, faults, givenUp>>
          /\ flash' = [flash EXCEPT ![h] = <<version, h>>]
       \/ faults' = faults + 1 /\ givenUp' = givenUp \cup {"program"} /\ UNCHANGED flash
  <2>1. faults' = faults + 1 => faults' # 0
    BY <1>8
  <2>2. ~flashErr /\ flash[h] # Erased => faults # 0
    <3>1. ~flashErr /\ faults = 0 => Trusted
      BY DEF Trusted
    <3>2. h >= h
      BY <1>3
    <3> QED BY <1>2, <1>6, <1>7, <3>1, <3>2
  <2>3. CASE flashErr /\ UNCHANGED <<flash, flashErr, faults, givenUp>>
    BY <2>3, Zenon
  <2>4. CASE /\ ~flashErr /\ flash[h] # Erased /\ flashErr' = TRUE
             /\ UNCHANGED <<flash, faults, givenUp>>
    BY <2>2, <2>4, Zenon
  <2>5. CASE flashErr' = TRUE /\ faults' = faults + 1 /\ UNCHANGED <<flash, givenUp>>
    BY <2>1, <2>5, Zenon
  <2> QED BY <1>12, <2>3, <2>4, <2>5, Zenon
<1> QED BY <1>9, <1>10, <1>11, <1>13

\* A packet was programmed: its half-words are those below the next address.
LEMMA ProgramDoneContents == ASSUME TypeOK, Session, Contents, ProgramDone PROVE Contents'
<1>1. /\ UNCHANGED <<i, flash, flashErr, faults, givenUp, reboots, cut, phase, version, off,
                     app_count, toHost>>
      /\ pc = "program" /\ pc' = "ack" /\ ~Writing /\ Busy /\ frame.kind = "data"
      /\ wms' = IF wms >= app_address THEN wms + PayloadBytes(frame) ELSE wms
  BY DEF ProgramDone, host, line, env, Busy, Left, Settled, Session, HandlersFrame
<1>2. wms = 0 <=> wms' = 0
  <2>1. PayloadBytes(frame) \in Nat /\ wms \in Nat
    BY <1>1, FrameFacts DEF TypeOK, Busy
  <2> QED BY <1>1, <2>1, SizesAssumption
<1>3. Sending' = Sending /\ Trusted' = Trusted /\ ~Preparing
  BY <1>1, <1>2, AtWork DEF Sending, Trusted
<1>4. Sending => Halves' = Halves
  <2>1. SUFFICES ASSUME Sending PROVE Halves' = Halves
    OBVIOUS
  <2>2. wms = app_address + off /\ off \in Nat
    BY <1>1, <2>1 DEF Session, InStep, At, TypeOK
  <2>3. wms >= app_address
    BY <2>2, SizesAssumption
  <2>4. /\ PayloadBytes(frame) = Payload /\ off % 2 = 0 /\ i \in Nat /\ Payload \in Nat
        /\ i <= Payload \div 2 /\ Halves = off \div 2 + i
    BY <1>1, <2>3, Where
  <2>5. i = Payload \div 2
    BY <1>1, <2>3, <2>4 DEF Writing
  <2>6. wms' - app_address = off + Payload
    BY <1>1, <2>2, <2>3, <2>4, SizesAssumption
  <2>7. Halves' = (off + Payload) \div 2
    BY <1>1, <2>6 DEF Halves
  <2> QED BY <2>2, <2>4, <2>5, <2>7, HalfSum
<1>5. Wiping' /\ Sound' /\ NoMixedImage'
  BY <1>1 DEF Contents, Wiping, Sound, NoMixedImage, PcInRange
<1>9. Cursor'
  <2>1. Sending => wms' <= app_address + ImageBytes[version]
    <3>1. SUFFICES ASSUME Sending PROVE wms' <= app_address + ImageBytes[version]
      OBVIOUS
    <3>2. wms = app_address + off /\ off \in Nat /\ wms >= app_address
      BY <1>1, <3>1, SizesAssumption DEF Session, InStep, At, TypeOK
    <3>3. PayloadBytes(frame) = Payload /\ Payload \in Nat /\ off + Payload <= ImageBytes[version]
      BY <1>1, <3>2, Where
    <3>4. ImageBytes[version] \in Nat /\ app_address \in Nat
      BY ImageFacts, SizesAssumption DEF TypeOK
    <3> QED BY <1>1, <3>2, <3>3, <3>4
  <2> QED BY <1>1, <1>3, <2>1 DEF Contents, Cursor
<1>6. Flashed'
  BY <1>1, <1>3, <1>4 DEF Contents, Flashed, Sure
<1>7. Complete'
  BY <1>1, <1>2 DEF Contents, Complete, Sure, Holds, HostDoneSound, ConfirmedAtItsSize
<1>8. Wiped'
  BY <1>1, <1>3, <1>4 DEF Contents, Wiped, Cleared, Needs, Preparing
<1> QED BY <1>5, <1>6, <1>7, <1>8, <1>9 DEF Contents

\* The last byte of the region: all of the image is in flash.
LEMMA AckedDataContents == ASSUME TypeOK, Session, Contents, AckedData PROVE Contents'
<1>1. /\ UNCHANGED <<i, flash, flashErr, faults, givenUp, reboots, cut, phase, version, off,
                     app_count, toHost>>
      /\ pc = "acked" /\ Left /\ pc' \in {"check", "respond"}
  BY DEF AckedData, host, line, env, Left
<1>2. ~Preparing
  BY <1>1 DEF Session, Prepared
<1>3. CASE UNCHANGED wms
  BY <1>1, <1>2, <1>3, Untouched DEF Preparing
<1>4. CASE wms = app_start + app_count /\ wms' = 0 /\ wms # 0
  <2>1. phase = "data" => Sending
    BY <1>4 DEF Sending
  <2>2. ~Sending' /\ Trusted' = Trusted
    BY <1>1, <1>4 DEF Sending, Trusted
  <2>3. Sending /\ Sure => Holds(version)
    <3>1. SUFFICES ASSUME Sending, Sure, NEW c \in 0 .. ImageBytes[version] \div 2 - 1
                   PROVE  flash[c] = <<version, c>>
      BY DEF Holds
    <3>2. app_start = app_address /\ app_count >= ImageBytes[version]
      BY <3>1 DEF Session, InStep, Region
    <3>3. /\ ImageBytes[version] \in Nat /\ app_count \in Nat
          /\ ImageBytes[version] \div 2 <= FlashCells
      BY ImageFacts, SizesAssumption DEF TypeOK
    <3>4. Halves = app_count \div 2
      <4>1. wms - app_address = app_count
        BY <1>4, <3>2, <3>3, SizesAssumption
      <4> QED BY <1>1, <4>1 DEF Halves
    <3>5. c \in Cells /\ c < Halves
      BY <3>2, <3>3, <3>4, SizesAssumption DEF Cells
    <3> QED BY <3>1, <3>5 DEF Contents, Flashed, Sure
  <2>7. Sending => app_count = ImageBytes[version]
    <3>1. SUFFICES ASSUME Sending PROVE app_count = ImageBytes[version]
      OBVIOUS
    <3>2. app_start = app_address /\ app_count >= ImageBytes[version]
      BY <3>1 DEF Session, InStep, Region
    <3>3. wms <= app_address + ImageBytes[version]
      BY <3>1 DEF Contents, Cursor
    <3>4. ImageBytes[version] \in Nat /\ app_count \in Nat
      BY ImageFacts, SizesAssumption DEF TypeOK
    <3> QED BY <1>4, <3>2, <3>3, <3>4, SizesAssumption
  <2>4. Complete'
    BY <1>1, <1>4, <2>1, <2>3, <2>7
       DEF Contents, Complete, Sure, Holds, HostDoneSound, ConfirmedAtItsSize
  <2>5. Cursor' /\ Flashed' /\ Wiping' /\ Sound' /\ NoMixedImage'
    BY <1>1, <2>2 DEF Contents, Cursor, Flashed, Sure, Wiping, Sound, NoMixedImage, PcInRange
  <2>6. Wiped'
    BY <1>1, <1>2, <2>2 DEF Wiped, Cleared, Preparing
  <2> QED BY <2>4, <2>5, <2>6 DEF Contents
<1> QED BY <1>3, <1>4 DEF AckedData

\* A restart leaves the flash; what the device confirms from now on is its own.
LEMMA BootContents ==
  ASSUME TypeOK, Session, Contents, Boot, UNCHANGED <<flash, phase, version, off, faults, givenUp>>,
         \/ cut' = TRUE /\ reboots' = reboots + 1 /\ UNCHANGED toHost
         \/ phase \in {"reset", "done"} /\ UNCHANGED <<cut, reboots>>
  PROVE  Contents'
<1>1. /\ pc' = "poll" /\ wms' = 0 /\ app_count' = 0 /\ flashErr' = FALSE
  BY DEF Boot
<1>2. ~Sending'
  BY <1>1 DEF Sending
<1>3. Cursor' /\ Flashed' /\ Wiping' /\ Sound'
  BY <1>1, <1>2 DEF Contents, Cursor, Flashed, Sure, Wiping, Sound
<1>4. Complete'
  BY <1>1 DEF Contents, Complete, Sure, HostDoneSound, ConfirmedAtItsSize, Holds
<1>5. faults' = 0 \/ (reboots' = 0 /\ givenUp' = {})
        => faults = 0 \/ (reboots = 0 /\ givenUp = {} /\ phase \in {"reset", "done"})
  <2>1. reboots \in Nat
    BY SizesAssumption DEF TypeOK
  <2> QED BY <2>1
<1>6. NoMixedImage'
  BY <1>5 DEF Contents, NoMixedImage, PcInRange
<1>7. Wiped'
  <2>1. SUFFICES ASSUME Trusted', Cleared' \/ phase = "write", NEW c \in Cells, Needs(c)
                 PROVE  flash[c] = Erased
    BY <1>2 DEF Wiped, Needs
  <2>2. phase \in {"erase", "write"} /\ ~Sending /\ (Cleared' => Cleared)
    BY <1>1, <2>1 DEF Cleared, Sending, Answering, Finals
  <2>3. Trusted
    BY <1>5, <2>1, <2>2 DEF Trusted, Contents, Sound
  <2> QED BY <2>1, <2>2, <2>3 DEF Contents, Wiped
<1> QED BY <1>3, <1>4, <1>6, <1>7 DEF Contents

\* A new session promises nothing yet.
LEMMA HostStartContents == ASSUME TypeOK, Session, Contents, HostStart PROVE Contents'
<1>1. /\ UNCHANGED <<pc, flash, flashErr, faults, givenUp, reboots>>
      /\ pc \in {"poll", "check", "jumped"}
      /\ phase' = "query" /\ off' = 0
  BY DEF HostStart, Quiet, Settled, ram
<1>2. ~Sending' /\ Cursor' /\ Flashed' /\ Complete' /\ Wiping' /\ Wiped'
  BY <1>1
     DEF Sending, Cursor, Flashed, Complete, Sure, HostDoneSound, ConfirmedAtItsSize, Wiping,
         Wiped, Cleared
<1>3. Sound' /\ NoMixedImage'
  BY <1>1 DEF Contents, Sound, NoMixedImage, PcInRange
<1> QED BY <1>2, <1>3 DEF Contents

\* An answer: a success is one.
LEMMA HostReceiveContents == ASSUME TypeOK, Session, Contents, HostReceive PROVE Contents'
<1>1. /\ UNCHANGED <<pc, i, flash, flashErr, faults, givenUp, reboots, cut, version, wms,
                     app_count>>
      /\ toHost # << >> /\ toHost' = Tail(toHost)
  BY DEF HostReceive, ram, env
<1>2. CASE ~Awaited(Head(toHost))
  <2>1. UNCHANGED <<phase, off>>
    BY <1>1, <1>2 DEF HostReceive
  <2>2. phase = "erase" /\ Answering' => Answering
    BY <1>1, <2>1, AnswerTaken DEF Preparing, Answering, Finals
  <2> QED BY <1>1, <2>1, <2>2, Untouched
<1>3. CASE Awaited(Head(toHost))
  <2>1. /\ phase \in {"query", "erase", "write", "data", "reset"}
        /\ phase = "query" => phase' = "erase"
        /\ phase = "erase" => phase' = "write"
        /\ phase = "write" => phase' = "data"
        /\ phase = "data" => phase' = IF LastPacket THEN "reset" ELSE "data"
        /\ phase = "reset" => phase' = "done"
        /\ off' = IF phase = "data" /\ ~LastPacket THEN off + packet_size ELSE 0
        /\ Preparing => Settled /\ toHost' = << >> /\ Answering
        /\ Sending => ~Busy /\ toHost' = << >> /\ ~LastPacket /\ At(off + Payload)
    BY <1>3, GoesOn
  <2>2. Sending' => phase' = "data" /\ pc # "program" /\ (Sending \/ phase = "write")
    <3>1. pc = "program" => ~Settled /\ (Busy \/ frame.kind = "data") /\ ~Left
      BY DEF Settled, Busy, Left
    <3> QED BY <1>1, <2>1, <3>1 DEF Sending, Preparing, Busy
  <2>3. phase = "write" => Started
    BY <2>1 DEF Session, Prepared, Preparing
  <2>4. Sending' => Halves' = (wms - app_address) \div 2 /\ Halves' = IF Sending THEN Halves ELSE 0
    <3>1. SUFFICES ASSUME Sending' PROVE Halves' = (wms - app_address) \div 2
                                         /\ Halves' = IF Sending THEN Halves ELSE 0
      OBVIOUS
    <3>2. Halves = (wms - app_address) \div 2 /\ Halves' = (wms - app_address) \div 2
      BY <1>1, <2>2, <3>1 DEF Halves
    <3>3. CASE phase = "write"
      <4>1. wms = app_address + 0 /\ ~Sending
        BY <1>1, <2>3, <3>1, <3>3 DEF Started, At, Sending
      <4>2. (wms - app_address) \div 2 = 0
        BY <4>1, SizesAssumption
      <4> QED BY <3>2, <4>1, <4>2
    <3> QED BY <2>2, <3>1, <3>2, <3>3
  <2>5. Cursor'
    <3>1. off' % 2 = 0
      BY <2>1, SizesAssumption DEF Contents, Cursor, TypeOK
    <3>2. Sending' => wms <= app_address + ImageBytes[version]
      <4>1. CASE Sending
        BY <4>1 DEF Contents, Cursor
      <4>2. CASE phase = "write"
        <5>1. ImageBytes[version] \in Nat /\ app_address \in Nat
          BY ImageFacts, SizesAssumption DEF TypeOK
        <5>2. Sending' => wms = app_address + 0
          BY <1>1, <2>3, <4>2 DEF Started, At, Sending
        <5> QED BY <5>1, <5>2
      <4> QED BY <2>2, <4>1, <4>2
    <3> QED BY <1>1, <2>2, <3>1, <3>2 DEF Cursor
  <2>6. Flashed'
    BY <1>1, <2>4 DEF Contents, Flashed, Sure, Cells
  <2>7. Complete'
    <3>1. CASE phase = "write"
      <4>1. (wms = 0 /\ app_count = 0 /\ cut) \/ (wms # 0 /\ app_count # 0)
        BY <2>3, <3>1, ImageFacts, SizesAssumption DEF Started, At, Region, TypeOK
      <4> QED BY <1>1, <2>1, <3>1, <4>1 DEF Complete, Sure, HostDoneSound, ConfirmedAtItsSize
    <3>2. CASE phase = "data"
      <4>1. phase' = "reset" => wms = 0
        BY <2>1, <3>2 DEF Sending
      <4> QED BY <1>1, <2>1, <3>2, <4>1
                 DEF Contents, Complete, Sure, Sound, HostDoneSound, ConfirmedAtItsSize, Holds
    <3>3. CASE phase \notin {"write", "data"}
      BY <1>1, <2>1, <3>3 DEF Contents, Complete, Sure, HostDoneSound, ConfirmedAtItsSize, Holds
    <3> QED BY <3>1, <3>2, <3>3
  <2>8. Sound' /\ Wiping' /\ NoMixedImage'
    BY <1>1 DEF Contents, Sound, Wiping, Trusted, NoMixedImage, PcInRange
  <2>9. Wiped'
    <3>1. ~Cleared'
      <4>1. ~AnswerOf(<< >>, Finals')
        BY Answers DEF Finals
      <4> QED BY <1>1, <2>1, <4>1 DEF Cleared, Preparing, Settled, Answering
    <3>2. Trusted' = Trusted
      BY <1>1 DEF Trusted
    <3>3. CASE phase \in {"erase", "write"}
      <4>1. Cleared \/ phase = "write"
        BY <2>1, <3>3 DEF Cleared, Preparing
      <4>2. ~Sending
        BY <3>3 DEF Sending
      <4> QED BY <1>1, <3>2, <4>1, <4>2 DEF Contents, Wiped, Needs
    <3>4. CASE phase \notin {"erase", "write"}
      <4>1. phase' # "write" /\ (Sending' => Sending)
        BY <2>1, <2>2, <3>4
      <4> QED BY <1>1, <2>4, <3>1, <3>2, <4>1 DEF Contents, Wiped, Needs
    <3> QED BY <3>3, <3>4
  <2> QED BY <2>5, <2>6, <2>7, <2>8, <2>9 DEF Contents
<1> QED BY <1>2, <1>3

-----------------------------------------------------------------------------
(* When a host is thrown out.                                              *)

Vector == app_address + 2 * VectorCell

\* Nothing but start bytes sets app_flag, and no packet is without one.
Unheard == ~app_flag => Settled /\ app_count = 0 /\ rx = "Start"

\* The loop runs with an application to start and the deadline's leave to start
\* it: before the first packet, or while the packet that brought the vector is
\* programmed or answered.
Leaving ==
  \/ app_count = 0 /\ Settled /\ (pc = "poll" => rx = "Start")
  \/ pc = "program" /\ app_address <= wms /\ wms <= Vector /\ Vector < wms + 2 * i
  \/ /\ app_count # 0 /\ app_start = app_address
     /\ pc \in {"ack", "acked", "respond", "check", "jumped"}
     /\ pc \in {"ack", "acked", "respond"} => frame.kind = "data"
     /\ Vector < Reached /\ Reached <= Vector + packet_size

Starting ==
  /\ Unheard
  /\ pc = "jumped" => jump_app /\ PcInRange
  /\ jump_app /\ PcInRange => Leaving

\* The steps that stay where main is.
LEMMA StartingElsewhere ==
  ASSUME Starting, UNCHANGED <<pc, frame, i, app_flag, jump_app, app_count, app_start, wms, rx,
                               flash>>
  PROVE  Starting'
BY DEF Starting, Unheard, Leaving, Settled, Reached, PcInRange

\* A restart forgets the deadline.
LEMMA BootStarting == ASSUME Boot PROVE Starting'
BY DEF Boot, Starting, Unheard, Settled

\* The deadline gives its leave only while no start byte was seen.
LEMMA DeadlineStarting == ASSUME TypeOK, Starting, Deadline PROVE Starting'
<1>1. /\ UNCHANGED <<pc, frame, i, app_flag, app_count, app_start, wms, rx, flash>>
      /\ jump_app' = (jump_app \/ ~app_flag) /\ pc # "jumped"
  BY DEF Deadline, Ticking
<1>2. Unheard'
  BY <1>1 DEF Starting, Unheard, Settled
<1>3. jump_app' /\ PcInRange' => Leaving'
  <2>1. CASE app_flag
    BY <1>1, <2>1 DEF TypeOK, Starting, PcInRange, Leaving, Settled, Reached
  <2>2. CASE ~app_flag
    BY <1>1, <2>2 DEF TypeOK, Starting, Unheard, Leaving, Settled
  <2> QED BY <2>1, <2>2
<1> QED BY <1>1, <1>2, <1>3 DEF Starting

\* A loop that may start the application does so before it takes a packet.
LEMMA LoopStarting ==
  ASSUME TypeOK, Starting, PollEmpty \/ PollNoise \/ Dispatch \/ CheckJump PROVE Starting'
<1>1. UNCHANGED <<jump_app, app_count, app_start, wms, flash>> /\ pc \in {"poll", "check"}
  BY DEF PollEmpty, PollNoise, Dispatch, CheckJump
<1>2. CASE PollEmpty \/ PollNoise
  <2>1. pc = "poll" /\ pc' = "check" /\ UNCHANGED <<frame, i>>
    BY <1>2 DEF PollEmpty, PollNoise
  <2>2. (app_flag' = app_flag /\ (rx = "Start" => rx' = "Start")) \/ app_flag' = TRUE
    BY <1>2 DEF PollEmpty, PollNoise
  <2>3. Unheard'
    BY <1>1, <2>1, <2>2 DEF TypeOK, Starting, Unheard, Settled
  <2>4. jump_app' /\ PcInRange' => Leaving'
    BY <1>1, <2>1 DEF Starting, PcInRange, Leaving, Settled
  <2> QED BY <2>1, <2>3, <2>4 DEF Starting
<1>3. CASE Dispatch
  <2>1. pc = "poll" /\ rx = "Cmd" /\ pc' # "jumped" /\ app_flag' = app_flag
    BY <1>3 DEF Dispatch
  <2>2. ~(jump_app /\ PcInRange) /\ app_flag
    BY <2>1 DEF TypeOK, Starting, Unheard, Leaving
  <2> QED BY <1>1, <2>1, <2>2 DEF Starting, Unheard, PcInRange
<1>4. CASE CheckJump
  <2>1. pc = "check" /\ pc' = (IF jump_app /\ PcInRange THEN "jumped" ELSE "poll")
        /\ UNCHANGED <<app_flag, rx>>
    BY <1>4 DEF CheckJump
  <2>2. Unheard'
    BY <1>1, <2>1 DEF Starting, Unheard, Settled
  <2>3. PcInRange' = PcInRange
    BY <1>1 DEF PcInRange
  <2>4. CASE jump_app /\ PcInRange
    <3>1. Leaving
      BY <2>4 DEF Starting
    <3>2. Leaving'
      BY <1>1, <2>1, <2>4, <3>1 DEF Leaving, Settled, Reached
    <3> QED BY <1>1, <2>2, <2>3, <2>4, <3>2 DEF Starting
  <2>5. CASE ~(jump_app /\ PcInRange)
    BY <1>1, <2>1, <2>2, <2>3, <2>5 DEF Starting
  <2> QED BY <2>4, <2>5
<1> QED BY <1>2, <1>3, <1>4

\* The handlers of other packets do not run with leave to start, and none of
\* them brings a vector.
LEMMA OthersStarting ==
  ASSUME TypeOK, Starting,
         \/ Pong \/ AckedErase \/ AckedWrite \/ AckedOther \/ EraseSector \/ EraseDone
  PROVE  Starting'
<1>1. /\ pc \in {"pong", "acked", "erase"} /\ (pc = "acked" => frame.kind # "data")
      /\ pc' # "jumped" /\ UNCHANGED <<jump_app, app_flag>>
  BY DEF Pong, AckedErase, AckedWrite, AckedOther, EraseSector, EraseDone
<1>2. PcInRange' => PcInRange
  <2>1. CASE EraseSector
    <3>1. flash' = flash \/ EraseCells(i)
      BY <2>1 DEF EraseSector, Operate
    <3>2. EraseCells(i) => flash'[VectorCell] \in {Erased, flash[VectorCell]}
      BY SizesAssumption DEF EraseCells, Cells
    <3> QED BY <3>1, <3>2 DEF PcInRange
  <2>2. CASE ~EraseSector
    <3>1. flash' = flash
      BY <2>2 DEF Pong, AckedErase, AckedWrite, AckedOther, EraseDone
    <3> QED BY <3>1 DEF PcInRange
  <2> QED BY <2>1, <2>2
<1>3. ~(jump_app /\ PcInRange) /\ app_flag
  BY <1>1 DEF TypeOK, Starting, Unheard, Leaving, Settled
<1> QED BY <1>1, <1>2, <1>3 DEF Starting, Unheard

\* The vector is programmed with the packet that brings it.
LEMMA ProgramStarting ==
  ASSUME TypeOK, Session, Contents, Starting, ProgramHalfWord PROVE Starting'
<1>1. /\ pc = "program" /\ pc' = pc /\ Writing /\ wms >= app_address /\ i' = i + 1
      /\ UNCHANGED <<jump_app, app_flag, app_count, wms, rx>>
  BY DEF ProgramHalfWord, Writing
<1>2. app_flag /\ ~Settled
  BY <1>1 DEF Starting, Unheard, Settled
<1>3. /\ Target = off \div 2 + i /\ wms = app_address + off /\ off \in Nat /\ off % 2 = 0
      /\ i \in Nat
  BY <1>1, Where
<1>4. VectorCell \in Nat /\ app_address \in Nat
  BY SizesAssumption
<1>5. CASE PcInRange
  <2>1. jump_app => wms <= Vector /\ Vector < wms + 2 * i
    BY <1>1, <1>2, <1>5 DEF Starting, Leaving
  <2>2. jump_app => wms <= Vector /\ Vector < wms + 2 * (i + 1)
    BY <1>3, <1>4, <2>1 DEF Vector
  <2> QED BY <1>1, <1>2, <2>2 DEF Starting, Unheard, Leaving, Vector
<1>6. CASE ~PcInRange
  <2>1. PcInRange' => Target = VectorCell
    <3>1. \/ flash' = flash
          \/ \E word : flash' = [flash EXCEPT ![Target] = word]
      BY DEF ProgramHalfWord, Operate, ProgramCell
    <3> QED BY <1>6, <3>1, SizesAssumption DEF PcInRange, TypeOK, Cells
  <2>2. Target = VectorCell => wms <= Vector /\ Vector < wms + 2 * (i + 1)
    BY <1>3, <1>4 DEF Vector
  <2> QED BY <1>1, <1>2, <2>1, <2>2 DEF Starting, Unheard, Leaving, Vector
<1> QED BY <1>5, <1>6

\* That packet is answered next.
LEMMA ProgramDoneStarting ==
  ASSUME TypeOK, Session, Contents, Starting, ProgramDone PROVE Starting'
<1>1. /\ pc = "program" /\ pc' = "ack" /\ ~Writing
      /\ UNCHANGED <<frame, jump_app, app_flag, app_count, app_start, flash>>
      /\ wms' = IF wms >= app_address THEN wms + PayloadBytes(frame) ELSE wms
  BY DEF ProgramDone
<1>2. app_flag /\ ~Settled /\ frame.kind = "data"
  BY <1>1 DEF Starting, Unheard, Settled, Session, HandlersFrame
<1>3. SUFFICES ASSUME jump_app, PcInRange PROVE Leaving'
  BY <1>1, <1>2 DEF Starting, Unheard, PcInRange
<1>4. app_address <= wms /\ wms <= Vector /\ Vector < wms + 2 * i
  BY <1>1, <1>2, <1>3 DEF Starting, Leaving
<1>5. wms \in Nat /\ VectorCell \in Nat /\ app_address \in Nat \ {0} /\ Vector \in Nat
  BY SizesAssumption DEF TypeOK, Vector
<1>6. wms >= app_address
  BY <1>4, <1>5
<1>7. /\ Sending /\ PayloadBytes(frame) = Payload /\ Payload \in Nat /\ i \in Nat
      /\ i <= Payload \div 2
  BY <1>1, <1>6, Where
<1>8. Payload <= packet_size /\ packet_size \in Nat
  <2>1. ImageBytes[version] - off \in Int
    BY ImageFacts DEF TypeOK
  <2> QED BY <2>1, SizesAssumption DEF Payload
<1>9. app_count # 0 /\ app_start = app_address
  BY <1>7, ImageFacts, SizesAssumption DEF Session, InStep, Region, TypeOK
<1>10. wms' = wms + Payload /\ wms' # 0 /\ Vector < wms' /\ wms' <= Vector + packet_size
  <2>1. 2 * i <= Payload
    BY <1>7
  <2> QED BY <1>1, <1>4, <1>5, <1>6, <1>7, <1>8, <2>1
<1> QED BY <1>1, <1>2, <1>9, <1>10 DEF Leaving, Reached, Vector

\* The answer of that packet leaves the transfer where it is.
LEMMA AnswerStarting ==
  ASSUME TypeOK, Starting, AckPacket \/ AckedData \/ (Respond /\ frame.kind # "reset")
  PROVE  Starting'
<1>1. /\ pc \in {"ack", "acked", "respond"} /\ pc' \in {"acked", "respond", "check"}
      /\ UNCHANGED <<frame, jump_app, app_flag, app_count, app_start, flash>>
      /\ wms' = wms \/ (wms = app_start + app_count /\ wms' = 0)
  BY DEF AckPacket, AckedData, Respond
<1>2. app_flag /\ ~Settled
  BY <1>1 DEF Starting, Unheard, Settled
<1>3. SUFFICES ASSUME jump_app, PcInRange PROVE Leaving'
  BY <1>1, <1>2 DEF Starting, Unheard, PcInRange
<1>4. /\ app_count # 0 /\ app_start = app_address /\ frame.kind = "data"
      /\ Vector < Reached /\ Reached <= Vector + packet_size
  BY <1>1, <1>2, <1>3 DEF Starting, Leaving
<1>5. Reached' = Reached
  <2>1. app_address \in Nat \ {0} /\ app_count \in Nat
    BY SizesAssumption DEF TypeOK
  <2> QED BY <1>1, <1>4, <2>1 DEF Reached
<1> QED BY <1>1, <1>4, <1>5 DEF Leaving, Vector

\* Every step keeps it.
LEMMA NextStarting == TypeOK /\ Session /\ Contents /\ Starting /\ [Next]_vars => Starting'
<1> SUFFICES ASSUME TypeOK, Session, Contents, Starting, [Next]_vars PROVE Starting'
  OBVIOUS
<1>1. CASE Deliver \/ LoseUnit \/ HostStart \/ HostSend \/ HostReceive \/ UNCHANGED vars
  BY <1>1, StartingElsewhere
     DEF Deliver, LoseUnit, HostStart, HostSend, HostReceive, vars, ram
<1>2. CASE PowerCycle \/ (Respond /\ frame.kind = "reset")
  BY <1>2, BootStarting DEF PowerCycle, Respond
<1> QED BY <1>1, <1>2, DeadlineStarting, LoopStarting, OthersStarting, ProgramStarting,
           ProgramDoneStarting, AnswerStarting DEF Next, Main

-----------------------------------------------------------------------------
(* The theorems.                                                           *)

\* The flash at power-on is blank or holds one image.
LEMMA InitContents == Init => Contents
<1> SUFFICES ASSUME Init PROVE Contents
  OBVIOUS
<1>1. /\ pc = "poll" /\ phase = "idle" /\ wms = 0 /\ off = 0 /\ flashErr = FALSE /\ ~Sending
      /\ givenUp = {}
  BY DEF Init, Sending
<1>2. NoMixedImage
  <2>1. CASE flash = Blank
    <3>1. flash[VectorCell] = Erased
      BY <2>1, SizesAssumption DEF Blank, Cells
    <3> QED BY <3>1, NoVector
  <2>2. ASSUME NEW v \in Versions, flash = Installed(v), flash[VectorCell] # Erased
        PROVE  NoMixedImage
    <3>1. ImageBytes[v] \in Nat /\ ImageBytes[v] \div 2 \in Nat
      BY ImageFacts
    <3>2. flash[VectorCell][1] = v
      BY <2>2, SizesAssumption DEF Installed, Cells
    <3>3. ImageBytes[v] \div 2 \in 0 .. ImageBytes[v] \div 2
      BY <3>1
    <3>4. \A c \in Occupied(v) :
            flash[c] = IF c < ImageBytes[v] \div 2 THEN <<v, c>> ELSE Erased
      BY <2>2 DEF Installed, Occupied
    <3> QED BY <3>2, <3>3, <3>4 DEF NoMixedImage
  <2> QED BY <2>1, <2>2, NoVector DEF Init
<1> QED BY <1>1, <1>2
        DEF Contents, Cursor, Flashed, Complete, Sure, HostDoneSound, ConfirmedAtItsSize, Sound,
            Wiping, Wiped, Cleared

\* Every step keeps what a transfer means.
LEMMA NextContents == TypeOK /\ Session /\ Contents /\ [Next]_vars => Contents'
<1> SUFFICES ASSUME TypeOK, Session, Contents, [Next]_vars PROVE Contents'
  OBVIOUS
<1>1. CASE PollEmpty \/ PollNoise \/ CheckJump \/ Deadline \/ UNCHANGED vars
  <2>1. UNCHANGED <<flash, flashErr, faults, givenUp, reboots, cut, phase, version, off, wms,
                    app_count, toHost>>
    BY <1>1 DEF PollEmpty, PollNoise, CheckJump, Deadline, vars, ram, host, line, env
  <2>2. \/ pc' = pc /\ i' = i
        \/ pc \in {"poll", "check"} /\ pc' \in {"poll", "check", "jumped"}
    BY <1>1 DEF PollEmpty, PollNoise, CheckJump, Deadline, vars, ram
  <2> QED BY <2>1, <2>2, Untouched DEF Answering, Finals
<1>2. CASE Pong \/ AckPacket \/ AckedOther \/ (Respond /\ frame.kind # "reset")
  <2>1. /\ UNCHANGED <<flash, flashErr, faults, givenUp, reboots, cut, phase, version, off, wms,
                       app_count>>
        /\ pc \notin {"program", "erase"} /\ pc' \notin {"program", "erase"}
    BY <1>2 DEF Pong, AckPacket, AckedOther, Respond, host, line, env
  <2>2. phase = "erase" /\ (pc' = "respond" \/ Answering') => pc = "respond" \/ Answering
    <3>1. SUFFICES ASSUME phase = "erase", pc # "respond"
                   PROVE  pc' # "respond" /\ (Answering' => Answering)
      OBVIOUS
    <3>2. Preparing /\ Finals = {"erase"} /\ Finals' = {"erase"}
      BY <2>1, <3>1 DEF Preparing, Finals
    <3>3. CASE Pong \/ AckedOther
      <4>1. Busy /\ frame.kind \in {"ping", "property", "reset"}
        BY <3>3 DEF Pong, AckedOther, Busy, Left, Settled, Session, HandlersFrame
      <4> QED BY <3>1, <3>2, <4>1, AtWork
    <3>4. CASE AckPacket
      <4>1. Busy /\ pc' = "acked" /\ toHost' = Append(toHost, "ack") /\ pc = "ack"
        BY <3>4 DEF AckPacket, Busy, Left, Settled
      <4>2. toHost' = <<"ack">>
        BY <3>2, <4>1, AtWork, Answers
      <4>3. ~AnswerOf(<<"ack">>, {"erase"})
        BY Answers
      <4> QED BY <3>2, <4>1, <4>2, <4>3 DEF Answering
    <3> QED BY <1>2, <3>1, <3>3, <3>4 DEF Respond
  <2> QED BY <2>1, <2>2, Untouched
<1>3. CASE Respond /\ frame.kind = "reset"
  <2>1. Busy /\ Boot /\ UNCHANGED <<flash, phase, version, off, faults, givenUp, cut, reboots>>
    BY <1>3 DEF Respond, Busy, Left, Settled, host, env
  <2>2. phase \in {"reset", "done"} /\ ~Preparing /\ ~Sending
    <3>1. ~Preparing /\ ~Sending /\ phase \in {"data", "reset", "done"}
      BY <1>3, <2>1, AtWork
    <3>2. phase = "data" => frame.kind # "reset"
      BY <2>1 DEF Session, Finishing, Late, Busy
    <3> QED BY <1>3, <3>1, <3>2
  <2> QED BY <2>1, <2>2, BootContents
<1>4. CASE Deliver \/ LoseUnit \/ HostSend
  <2>1. UNCHANGED <<pc, i, flash, flashErr, faults, givenUp, reboots, cut, phase, version, off,
                    wms, app_count>>
    BY <1>4 DEF Deliver, LoseUnit, HostSend, ram, host, env
  <2>2. \/ toHost' = toHost
        \/ toHost # << >> /\ toHost' = Tail(toHost)
    BY <1>4 DEF Deliver, LoseUnit, HostSend
  <2>3. phase = "erase" /\ Answering' => Answering
    BY <2>1, <2>2, AnswerTaken DEF Preparing, Answering, Finals
  <2> QED BY <2>1, <2>3, Untouched
<1>5. CASE PowerCycle
  BY <1>5, BootContents DEF PowerCycle, host, line
<1> QED BY <1>1, <1>2, <1>3, <1>4, <1>5, DispatchContents, AckedEraseContents,
           AckedWriteContents, AckedDataContents, EraseSectorContents, EraseDoneContents,
           ProgramHalfWordContents, ProgramDoneContents, HostStartContents, HostReceiveContents
        DEF Next, Main

\* The whole invariant holds.
LEMMA ContentsHold == Spec => [](TypeOK /\ Session /\ Contents)
<1>1. Init => TypeOK /\ Session /\ Contents
  BY InitTypeOK, InitSession, InitContents
<1>2. TypeOK /\ Session /\ Contents /\ [Next]_vars => (TypeOK /\ Session /\ Contents)'
  BY NextType, NextSession, NextContents
<1> QED BY <1>1, <1>2, PTL DEF Spec

\* What a packet is programmed over is erased, as long as the flash is sound.
THEOREM ProgramsErasedOnly == Spec => []ProgramsErased
<1>1. TypeOK /\ Session /\ Contents => ProgramsErased
  <2> SUFFICES ASSUME TypeOK, Session, Contents, pc = "program", Writing, ~flashErr, faults = 0
               PROVE  flash[Target] = Erased
    BY DEF ProgramsErased
  <2>1. /\ Sending /\ Target = Halves /\ Halves \in Cells /\ 2 * Halves < ImageBytes[version]
    BY Where DEF Writing
  <2>2. Halves >= Halves /\ Needs(Halves)
    BY <2>1, OccupiedCells DEF Cells, Needs, TypeOK
  <2> QED BY <2>1, <2>2 DEF Contents, Wiped, Needs, Trusted
<1> QED BY <1>1, ContentsHold, PTL

\* The response that ends a transfer is the truth when no error is latched and
\* no half-word was given up at the timeout, whatever became of the erases.
THEOREM SuccessIsFlashed == Spec => []FlashedOnSuccess
<1>1. TypeOK /\ Session /\ Contents => FlashedOnSuccess
  <2> SUFFICES ASSUME TypeOK, Session, Contents, pc = "respond", frame.kind = "data",
                      app_count # 0, ~flashErr, "program" \notin givenUp
               PROVE  Holds(frame.version)
    BY DEF FlashedOnSuccess
  <2>1. Busy /\ ~Settled
    BY DEF Busy, Left, Settled
  <2>2. phase \in {"data", "reset", "done"} /\ wms = 0
    BY <2>1, AtWork
  <2>3. frame.version = version
    BY <2>1, <2>2 DEF Session, Finishing, Late
  <2> QED BY <2>2, <2>3 DEF Contents, Complete, Sure
<1> QED BY <1>1, ContentsHold, PTL

\* A host that was told of success, by a device that did not restart, has its
\* image in flash.
THEOREM DoneIsFlashed == Spec => []HostDoneSound
<1>1. Contents => HostDoneSound
  BY DEF Contents, Complete, Sure
<1> QED BY <1>1, ContentsHold, PTL

\* A transfer is confirmed at its image's size and at no other.
THEOREM ConfirmedSize == Spec => []ConfirmedAtItsSize
<1>1. Contents => ConfirmedAtItsSize
  BY DEF Contents, Complete
<1> QED BY <1>1, ContentsHold, PTL

\* Within a session the application is started behind the packet that brought its
\* vector, and at no other step.
THEOREM StartsWithVector == Spec => []StartsWithItsVector
<1>1. Init => Starting
  BY DEF Init, Starting, Unheard, Settled
<1>2. TypeOK /\ Session /\ Contents => (Starting /\ [Next]_vars => Starting')
  BY NextStarting
<1>3. Starting => StartsWithItsVector
  BY DEF Starting, Leaving, StartsWithItsVector, Vector
<1>4. Spec => []Starting
  BY <1>1, <1>2, ContentsHold, PTL DEF Spec
<1> QED BY <1>3, <1>4, PTL

\* In the sectors of its vector's image, a flash that would be started holds a
\* prefix of that image and nothing else, unless an operation was given up since
\* the vector was erased, or flash and power both failed.
THEOREM OneImage == Spec => []NoMixedImage
<1>1. Contents => NoMixedImage
  BY DEF Contents
<1> QED BY <1>1, ContentsHold, PTL

=============================================================================
