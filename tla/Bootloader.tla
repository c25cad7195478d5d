------------------------------ MODULE Bootloader ------------------------------
(***************************************************************************)
(* The serial bootloader at the level of packets: the main loop and its    *)
(* command handlers (bl.c), the SysTick deadline that runs between any two *)
(* of its steps, the internal flash they erase and program, and, outside   *)
(* the repository, the host tool, the serial line and the power supply.    *)
(*                                                                         *)
(* A packet travels as two units, its start byte and the rest: the start   *)
(* byte alone already changes what the deadline does.  BlFraming models    *)
(* the bytes; rx abstracts its status to what a unit can do to it.         *)
(* Flash is counted in half-words from app_address.                        *)
(***************************************************************************)
EXTENDS Integers, Sequences, FiniteSets

CONSTANTS
  Versions,           \* the images a host may install
  ImageBytes,         \* ImageBytes[v]: the size of image v
  app_address,        \* APP_ADDRESS, the start of every image
  flash_sector_size,
  packet_size,
  FlashCells,         \* half-words of flash behind app_address
  VectorCell,         \* the half-word that decides check_app_pc
  Uint32,             \* the values of a size
  Or(_, _),           \* bitwise or of two sizes
  PatientHost,        \* the host leaves the 5 ms behind an ack alone
  MaxLosses, MaxReboots, MaxFaults, None

ASSUME SizesAssumption ==
  /\ app_address \in Nat \ {0}
  /\ flash_sector_size \in Nat \ {0} /\ flash_sector_size % 2 = 0
  /\ packet_size \in Nat \ {0} /\ packet_size % 2 = 0
  /\ None \notin Versions
  /\ Uint32 \subseteq Nat /\ 0 \in Uint32
  /\ ImageBytes \in [Versions -> Uint32 \ {0}]
  /\ FlashCells \in Nat /\ VectorCell \in 0 .. FlashCells - 1
  /\ 2 * VectorCell < flash_sector_size
  /\ \A v \in Versions : ImageBytes[v] \div 2 <= FlashCells
  /\ MaxLosses \in Nat /\ MaxReboots \in Nat /\ MaxFaults \in Nat
  /\ PatientHost \in BOOLEAN

\* analysis_app_download_addr ORs every size into the last one.
ASSUME OrAssumption ==
  \A m, n \in Uint32 : Or(m, n) \in Uint32 /\ Or(m, n) >= m /\ Or(m, n) >= n

Cells == 0 .. FlashCells - 1
Erased == <<None, 0>>
Words == {Erased} \cup (Versions \X Nat)

Kinds == {"ping", "property", "erase", "write", "data", "reset"}
Frames == {f \in [kind : Kinds, version : Versions, off : Nat] :
             f.off < ImageBytes[f.version]}
StartByte == [kind |-> "5A", version |-> None, off |-> 0]
Damaged == [kind |-> "bad", version |-> None, off |-> 0]
Units == {StartByte, Damaged} \cup Frames
Replies == {"pong", "ack"} \cup Kinds

\* An empty receive register is told apart from every unit.
ASSUME NoneAssumption == None \notin Units

\* bytes of payload in data packet f
PayloadBytes(f) ==
  LET left == ImageBytes[f.version] - f.off
  IN  IF left < packet_size THEN left ELSE packet_size

VARIABLES
  pc,           \* where main is, in the loop or in a handler
  frame, i,     \* the packet and the loop index of that handler
  app_flag,     \* bl_variate.app_flag: a start byte was seen
  jump_app,     \* set by the deadline, read by the loop
  tickint,      \* SysTick may interrupt
  systick,      \* SysTick counts
  app_count,    \* app_program.flash_byte_count
  app_start,    \* app_program.flash_start_addr
  wms,          \* bl_variate.write_memory_start
  rx,           \* the parser: between packets, behind a start byte, or off track
  dr,           \* the UART's one-byte receive register
  flash,        \* contents of the application area
  flashErr,     \* FLASH->STS holds PRGMFLR or WRPRTFLR: nothing clears it
  toDev, toHost,                        \* the serial line
  phase, sent, version, off,            \* the host
  losses, reboots, faults,              \* bounded events so far
  cut,          \* history: the device restarted since the session began
  givenUp       \* history: the kinds of flash operation that were given up at
                \* their timeout since the vector's sector was last erased

ram == <<pc, frame, i, app_flag, jump_app, tickint, systick, app_count,
         app_start, wms, rx, dr, flashErr>>
host == <<phase, sent, version, off>>
line == <<toDev, toHost>>
env == <<losses, reboots, faults, cut, givenUp>>
vars == <<ram, flash, host, line, env>>

\* main runs no handler
Settled == pc \in {"poll", "check", "jumped"}

\* Types; among them that a handler always has a packet that can be sent, and
\* that the sizes analysis_app_download_addr accumulates stay uint32_t.
TypeOK ==
  /\ pc \in {"poll", "check", "pong", "program", "ack", "acked", "erase",
             "respond", "jumped"}
  /\ frame \in Frames \cup {None} /\ i \in Nat
  /\ ~Settled => frame \in Frames
  /\ app_flag \in BOOLEAN /\ jump_app \in BOOLEAN
  /\ tickint \in BOOLEAN /\ systick \in BOOLEAN
  /\ flashErr \in BOOLEAN /\ sent \in BOOLEAN /\ cut \in BOOLEAN
  /\ app_count \in Uint32 /\ app_start \in {0, app_address} /\ wms \in Nat
  /\ rx \in {"Start", "Cmd", "Lost"} /\ dr \in Units \cup {None}
  /\ flash \in [Cells -> Words]
  /\ toDev \in Seq(Units) /\ toHost \in Seq(Replies)
  /\ phase \in {"idle", "query", "erase", "write", "data", "reset", "done"}
  /\ version \in Versions /\ off \in Nat /\ off < ImageBytes[version]
  /\ losses \in 0 .. MaxLosses
  /\ reboots \in 0 .. MaxReboots /\ faults \in 0 .. MaxFaults
  /\ givenUp \subseteq {"erase", "program"}

Blank == [c \in Cells |-> Erased]
Holds(v) == \A c \in 0 .. ImageBytes[v] \div 2 - 1 : flash[c] = <<v, c>>
Installed(v) == [c \in Cells |-> IF c < ImageBytes[v] \div 2 THEN <<v, c>> ELSE Erased]

Init ==
  /\ pc = "poll" /\ frame = None /\ i = 0
  /\ app_flag = FALSE /\ jump_app = FALSE /\ tickint = TRUE /\ systick = TRUE
  /\ app_count = 0 /\ app_start = 0 /\ wms = 0
  /\ rx = "Start" /\ dr = None /\ flashErr = FALSE
  /\ flash \in {Blank} \cup {Installed(v) : v \in Versions}
  /\ toDev = << >> /\ toHost = << >>
  /\ phase = "idle" /\ sent = FALSE /\ version \in Versions /\ off = 0
  /\ losses = 0 /\ reboots = 0 /\ faults = 0 /\ cut = FALSE /\ givenUp = {}

\* What a reset or the return of power does: RAM is initialised, flash stays.
Boot ==
  /\ pc' = "poll" /\ frame' = None /\ i' = 0
  /\ app_flag' = FALSE /\ jump_app' = FALSE /\ tickint' = TRUE /\ systick' = TRUE
  /\ app_count' = 0 /\ app_start' = 0 /\ wms' = 0
  /\ rx' = "Start" /\ dr' = None /\ flashErr' = FALSE

-----------------------------------------------------------------------------
(* The main loop.                                                          *)

PollEmpty ==
  /\ pc = "poll" /\ dr = None
  /\ pc' = "check"
  /\ UNCHANGED <<frame, i, app_flag, jump_app, tickint, systick, app_count,
                 app_start, wms, rx, dr, flashErr, flash, host, line, env>>

\* Units that complete no packet.  A truncated packet ends within its length,
\* and a start byte inside a payload is taken for a packet's: how often the
\* parser is led astray like this counts as a loss.
PollNoise ==
  /\ pc = "poll" /\ dr # None /\ ~(rx = "Cmd" /\ dr \in Frames)
  /\ dr' = None /\ pc' = "check"
  /\ \/ /\ rx = "Start" /\ dr = StartByte /\ rx' = "Cmd" /\ app_flag' = TRUE
        /\ UNCHANGED losses
     \/ /\ rx = "Start" /\ dr # StartByte /\ rx' = "Start"
        /\ UNCHANGED <<app_flag, losses>>
     \/ /\ rx # "Start" /\ rx' = "Start"
        /\ UNCHANGED <<app_flag, losses>>
     \/ /\ rx = "Cmd" /\ dr = Damaged /\ rx' = "Lost"
        /\ UNCHANGED <<app_flag, losses>>
     \/ /\ losses < MaxLosses /\ losses' = losses + 1
        /\ \/ rx = "Start" /\ dr # StartByte /\ rx' \in {"Start", "Cmd", "Lost"} /\ app_flag' = TRUE
           \/ rx = "Lost" /\ rx' = "Lost" /\ UNCHANGED app_flag
  /\ UNCHANGED <<frame, i, jump_app, tickint, systick, app_count, app_start,
                 wms, flashErr, flash, host, line, reboots, faults, cut, givenUp>>

\* The last byte of a packet whose CRC agrees: check_crc calls its handler.
Dispatch ==
  /\ pc = "poll" /\ rx = "Cmd" /\ dr \in Frames
  /\ dr' = None /\ rx' = "Start" /\ frame' = dr /\ i' = 0
  /\ pc' = CASE dr.kind = "ping" -> "pong"
             [] dr.kind = "data" -> "program"
             [] OTHER -> "ack"
  /\ UNCHANGED <<app_flag, jump_app, tickint, systick, app_count, app_start,
                 wms, flashErr, flash, host, line, env>>

PcInRange == flash[VectorCell] # Erased

CheckJump ==
  /\ pc = "check"
  /\ pc' = IF jump_app /\ PcInRange THEN "jumped" ELSE "poll"
  /\ frame' = None /\ i' = 0
  /\ UNCHANGED <<app_flag, jump_app, tickint, systick, app_count, app_start,
                 wms, rx, dr, flashErr, flash, host, line, env>>

\* SysTick counts towards its interrupt, also while delayms waits with it.
Ticking == tickint /\ (systick \/ pc \in {"pong", "ack", "acked"}) /\ pc # "jumped"

\* mutant: the deadline does not ask whether a host is there
MutDeadline ==
  /\ Ticking
  /\ jump_app' = TRUE /\ tickint' = FALSE
  /\ UNCHANGED <<pc, frame, i, app_flag, systick, app_count, app_start, wms,
                 rx, dr, flashErr, flash, host, line, env>>

\* mutant: the deadline asks for the opposite
MutDeadlineInverted ==
  /\ Ticking
  /\ jump_app' = (jump_app \/ app_flag) /\ tickint' = FALSE
  /\ UNCHANGED <<pc, frame, i, app_flag, systick, app_count, app_start, wms,
                 rx, dr, flashErr, flash, host, line, env>>

\* SysTick_Handler at the deadline; it interrupts any step of the loop.
Deadline ==
  /\ Ticking
  /\ jump_app' = (jump_app \/ ~app_flag)
  /\ tickint' = FALSE
  /\ UNCHANGED <<pc, frame, i, app_flag, systick, app_count, app_start, wms,
                 rx, dr, flashErr, flash, host, line, env>>

-----------------------------------------------------------------------------
(* The handlers.                                                           *)

\* Every answer waits with delayms, which in the end leaves SysTick disabled.
Pong ==
  /\ pc = "pong"
  /\ toHost' = Append(toHost, "pong")
  /\ systick' = FALSE /\ pc' = "check"
  /\ UNCHANGED <<frame, i, app_flag, jump_app, tickint, app_count, app_start,
                 wms, rx, dr, flashErr, flash, host, toDev, env>>

AckPacket ==
  /\ pc = "ack"
  /\ toHost' = Append(toHost, "ack")
  /\ systick' = FALSE /\ pc' = "acked"
  /\ UNCHANGED <<frame, i, app_flag, jump_app, tickint, app_count, app_start,
                 wms, rx, dr, flashErr, flash, host, toDev, env>>

\* mutant: the start address is added, not or-ed
MutAckedErase ==
  /\ pc = "acked" /\ frame.kind = "erase"
  /\ app_start' = app_start + app_address
  /\ app_count' = Or(app_count, ImageBytes[frame.version])
  /\ pc' = "erase" /\ i' = 0
  /\ UNCHANGED <<frame, app_flag, jump_app, tickint, systick, wms, rx, dr,
                 flashErr, flash, host, line, env>>

AckedErase ==
  /\ pc = "acked" /\ frame.kind = "erase"
  /\ app_start' = app_address /\ app_count' = Or(app_count, ImageBytes[frame.version])
  /\ pc' = "erase" /\ i' = 0
  /\ UNCHANGED <<frame, app_flag, jump_app, tickint, systick, wms, rx, dr,
                 flashErr, flash, host, line, env>>

\* mutant: a transfer that is under way keeps its write pointer
MutAckedWrite ==
  /\ pc = "acked" /\ frame.kind = "write"
  /\ app_start' = app_address /\ app_count' = Or(app_count, ImageBytes[frame.version])
  /\ wms' = (IF wms = 0 THEN app_start' ELSE wms) /\ pc' = "respond"
  /\ UNCHANGED <<frame, i, app_flag, jump_app, tickint, systick, rx, dr,
                 flashErr, flash, host, line, env>>

AckedWrite ==
  /\ pc = "acked" /\ frame.kind = "write"
  /\ app_start' = app_address /\ app_count' = Or(app_count, ImageBytes[frame.version])
  /\ wms' = app_start' /\ pc' = "respond"
  /\ UNCHANGED <<frame, i, app_flag, jump_app, tickint, systick, rx, dr,
                 flashErr, flash, host, line, env>>

\* mutant: every data packet is answered as if it were the last
MutAckedData ==
  /\ pc = "acked" /\ frame.kind = "data"
  /\ pc' = "respond"
  /\ wms' = IF wms = app_start + app_count THEN 0 ELSE wms
  /\ UNCHANGED <<frame, i, app_flag, jump_app, tickint, systick, app_count,
                 app_start, rx, dr, flashErr, flash, host, line, env>>

\* The end of recv_data: the last byte of the region brings the response.
AckedData ==
  /\ pc = "acked" /\ frame.kind = "data"
  /\ IF wms = app_start + app_count
     THEN wms' = 0 /\ pc' = "respond"
     ELSE pc' = "check" /\ UNCHANGED wms
  /\ UNCHANGED <<frame, i, app_flag, jump_app, tickint, systick, app_count,
                 app_start, rx, dr, flashErr, flash, host, line, env>>

AckedOther ==
  /\ pc = "acked" /\ frame.kind \in {"property", "reset"}
  /\ pc' = "respond"
  /\ UNCHANGED <<frame, i, app_flag, jump_app, tickint, systick, app_count,
                 app_start, wms, rx, dr, flashErr, flash, host, line, env>>

\* mutant: the sector that is only partly covered is forgotten
MutSectorNum == app_count \div flash_sector_size

SectorNum ==
  app_count \div flash_sector_size
    + (IF app_count % flash_sector_size # 0 THEN 1 ELSE 0)

SectorCells(n) == {c \in Cells : (2 * c) \div flash_sector_size = n}

\* An operation of the flash, Flash_WaitProcess before and behind it: it is
\* skipped while an error is latched, and else done, answered with an error,
\* which latches, or given up at the timeout, which nothing remembers.  Callers
\* drop the status.  (One given up that the flash still finishes was done.)
Operate(op, done) ==
  \/ flashErr /\ UNCHANGED <<flash, flashErr, faults, givenUp>>
  \/ ~flashErr /\ done /\ UNCHANGED faults
  \/ /\ ~flashErr /\ faults < MaxFaults /\ faults' = faults + 1
     /\ UNCHANGED flash
     /\ \/ flashErr' = TRUE /\ UNCHANGED givenUp
        \/ givenUp' = givenUp \cup {op} /\ UNCHANGED flashErr

\* sector n is erased
EraseCells(n) ==
  /\ flash' = [c \in Cells |-> IF c \in SectorCells(n) THEN Erased ELSE flash[c]]
  /\ givenUp' = IF VectorCell \in SectorCells(n) THEN {} ELSE givenUp
  /\ UNCHANGED flashErr

\* mutant: the last sector is erased first
MutEraseSector ==
  /\ pc = "erase" /\ i < SectorNum
  /\ i' = i + 1
  /\ Operate("erase", EraseCells(SectorNum - 1 - i))
  /\ UNCHANGED <<pc, frame, app_flag, jump_app, tickint, systick, app_count,
                 app_start, wms, rx, dr, host, line, losses, reboots, cut>>

\* Whatever becomes of an erase, it is followed by the next.
EraseSector ==
  /\ pc = "erase" /\ i < SectorNum
  /\ i' = i + 1
  /\ Operate("erase", EraseCells(i))
  /\ UNCHANGED <<pc, frame, app_flag, jump_app, tickint, systick, app_count,
                 app_start, wms, rx, dr, host, line, losses, reboots, cut>>

EraseDone ==
  /\ pc = "erase" /\ i >= SectorNum
  /\ pc' = "respond"
  /\ UNCHANGED <<frame, i, app_flag, jump_app, tickint, systick, app_count,
                 app_start, wms, rx, dr, flashErr, flash, host, line, env>>

\* mutant: the last half-word of a packet is not written
MutWriting == wms >= app_address /\ i + 1 < PayloadBytes(frame) \div 2

\* The half-words of a data packet: an odd last byte is cut off by len / 2.
Writing == wms >= app_address /\ i < PayloadBytes(frame) \div 2
Target == (wms - app_address) \div 2 + i

\* A half-word that is not erased cannot be programmed: the error latches.
ProgramCell(c, word) ==
  /\ UNCHANGED givenUp
  /\ \/ /\ flash[c] = Erased /\ flash' = [flash EXCEPT ![c] = word]
        /\ UNCHANGED flashErr
     \/ flash[c] # Erased /\ flashErr' = TRUE /\ UNCHANGED flash

ProgramHalfWord ==
  /\ pc = "program" /\ Writing
  /\ i' = i + 1
  /\ Operate("program", ProgramCell(Target, <<frame.version, frame.off \div 2 + i>>))
  /\ UNCHANGED <<pc, frame, app_flag, jump_app, tickint, systick, app_count,
                 app_start, wms, rx, dr, host, line, losses, reboots, cut>>

\* mutant: the pointer advances by the bytes written, not by those received
MutProgramDone ==
  /\ pc = "program" /\ ~Writing
  /\ wms' = IF wms >= app_address
            THEN wms + 2 * (PayloadBytes(frame) \div 2) ELSE wms
  /\ pc' = "ack"
  /\ UNCHANGED <<frame, i, app_flag, jump_app, tickint, systick, app_count,
                 app_start, rx, dr, flashErr, flash, host, line, env>>

\* A data packet without an address is acknowledged like any other.
ProgramDone ==
  /\ pc = "program" /\ ~Writing
  /\ wms' = IF wms >= app_address THEN wms + PayloadBytes(frame) ELSE wms
  /\ pc' = "ack"
  /\ UNCHANGED <<frame, i, app_flag, jump_app, tickint, systick, app_count,
                 app_start, rx, dr, flashErr, flash, host, line, env>>

\* generic_response_packet names the command; the response that ends the data
\* is tagged as a write.
Respond ==
  /\ pc = "respond"
  /\ toHost' = Append(toHost, IF frame.kind = "data" THEN "write" ELSE frame.kind)
  /\ IF frame.kind = "reset" THEN Boot
     ELSE /\ pc' = "check"
          /\ UNCHANGED <<frame, i, app_flag, jump_app, tickint, systick,
                         app_count, app_start, wms, rx, dr, flashErr>>
  /\ UNCHANGED <<flash, host, toDev, env>>

Main ==
  \/ PollEmpty \/ PollNoise \/ Dispatch \/ CheckJump
  \/ Pong \/ AckPacket
  \/ AckedErase \/ AckedWrite \/ AckedData \/ AckedOther
  \/ EraseSector \/ EraseDone \/ ProgramHalfWord \/ ProgramDone
  \/ Respond

-----------------------------------------------------------------------------
(* The line, the power supply and the host are not part of the repository. *)

\* Main polls faster than bytes arrive; while a handler runs, the register
\* keeps the first byte and the rest of a packet is overrun.
Deliver ==
  /\ toDev # << >> /\ toDev' = Tail(toDev)
  /\ \/ pc \in {"poll", "check"} /\ dr = None /\ dr' = Head(toDev)
     \/ ~Settled /\ dr' = IF dr = None /\ Head(toDev) = StartByte THEN StartByte ELSE dr
     \/ pc = "jumped" /\ dr' = dr
  /\ UNCHANGED <<pc, frame, i, app_flag, jump_app, tickint, systick, app_count,
                 app_start, wms, rx, flashErr, flash, host, toHost, env>>

LoseUnit ==
  /\ losses < MaxLosses /\ losses' = losses + 1
  /\ \/ toDev # << >> /\ toDev' = Tail(toDev) /\ UNCHANGED toHost
     \/ toHost # << >> /\ toHost' = Tail(toHost) /\ UNCHANGED toDev
     \/ /\ toDev # << >> /\ Head(toDev) # Damaged
        /\ toDev' = <<Damaged>> \o Tail(toDev) /\ UNCHANGED toHost
     \/ toDev = << >> /\ toDev' = <<StartByte>> /\ UNCHANGED toHost
  /\ UNCHANGED <<ram, flash, host, reboots, faults, cut, givenUp>>

PowerCycle ==
  /\ reboots < MaxReboots /\ reboots' = reboots + 1
  /\ Boot /\ cut' = TRUE
  /\ UNCHANGED <<flash, host, line, losses, faults, givenUp>>

\* The host starts over, with any image, when nothing more can be under way.
Quiet == toDev = << >> /\ toHost = << >> /\ dr = None /\ Settled

HostStart ==
  /\ Quiet /\ (sent \/ phase \in {"idle", "reset"})
  /\ phase' = "query" /\ sent' = FALSE /\ off' = 0
  /\ version' \in Versions /\ cut' = FALSE
  /\ UNCHANGED <<ram, flash, line, losses, reboots, faults, givenUp>>

HostSend ==
  /\ phase \notin {"idle", "done"} /\ ~sent
  /\ PatientHost => Settled
  /\ \E k \in Kinds :
       /\ k = phase \/ (phase = "query" /\ k \in {"ping", "property"})
       /\ toDev' = toDev \o <<StartByte, [kind |-> k, version |-> version, off |-> off]>>
  /\ sent' = TRUE
  /\ UNCHANGED <<ram, flash, toHost, phase, version, off, env>>

LastPacket == off + packet_size >= ImageBytes[version]

\* The reply that lets the host go on; others are ignored.
Awaited(r) ==
  /\ sent
  /\ \/ phase = "query" /\ r \in {"pong", "property"}
     \/ phase \in {"erase", "write", "reset"} /\ r = phase
     \/ phase = "data" /\ r = (IF LastPacket THEN "write" ELSE "ack")

HostReceive ==
  /\ toHost # << >> /\ toHost' = Tail(toHost)
  /\ IF Awaited(Head(toHost))
     THEN /\ phase' = CASE phase = "query" -> "erase"
                        [] phase = "erase" -> "write"
                        [] phase = "write" -> "data"
                        [] phase = "data" -> IF LastPacket THEN "reset" ELSE "data"
                        [] phase = "reset" -> "done"
          /\ off' = IF phase = "data" /\ ~LastPacket THEN off + packet_size ELSE 0
          /\ sent' = FALSE
     ELSE UNCHANGED <<phase, off, sent>>
  /\ UNCHANGED <<ram, flash, toDev, version, env>>

Next ==
  \/ Main \/ Deadline
  \/ Deliver \/ LoseUnit \/ PowerCycle
  \/ HostStart \/ HostSend \/ HostReceive

Spec == Init /\ [][Next]_vars

(***************************************************************************)
(* Main and its interrupt are always scheduled.  Nothing makes a host come,*)
(* the line noisy, the power fail or a flash cell break.                   *)
(***************************************************************************)
FairSpec == Spec /\ WF_vars(Main) /\ WF_vars(Deadline)

\* The UART shifts bytes in, and the host answers and gives up in finite time.
FairHost ==
  /\ WF_vars(Deliver)
  /\ WF_vars(HostStart) /\ WF_vars(HostSend) /\ WF_vars(HostReceive)

-----------------------------------------------------------------------------
(***************************************************************************)
(* A data packet is programmed at the offset the host took it from, through*)
(* losses, restarts of either side and sessions that are begun anew: there *)
(* is no sequence number, only write_memory_start.                         *)
(***************************************************************************)
PacketsLandInOrder ==
  pc = "program" /\ wms >= app_address => wms = app_address + frame.off

(***************************************************************************)
(* No half-word is programmed twice between erases (PRGMFLR would then     *)
(* suppress, silently, all that follows), as long as the flash is sound:   *)
(* the sectors erased cover what is written, whatever was there before.    *)
(***************************************************************************)
ProgramsErased ==
  pc = "program" /\ Writing /\ ~flashErr /\ faults = 0 => flash[Target] = Erased

(***************************************************************************)
(* What the response that ends a transfer is worth.  Every status is       *)
(* dropped, so it is sent whatever the flash did; but when a region was set*)
(* in this boot, no error is latched and no half-word was given up at the  *)
(* timeout, the whole image is in flash, except for the odd last byte of an*)
(* odd size.  An erase that was given up is no exception: what it left     *)
(* latches an error when it is programmed over.                            *)
(***************************************************************************)
FlashedOnSuccess ==
  pc = "respond" /\ frame.kind = "data" /\ app_count # 0 /\ ~flashErr
    /\ "program" \notin givenUp
    => Holds(frame.version)

(***************************************************************************)
(* A host that was told of success has its image in flash unless the device*)
(* restarted behind its back: a restarted bootloader acknowledges, drops   *)
(* and finally confirms (0 = 0 + 0) packets it has no address for.         *)
(***************************************************************************)
HostDoneSound ==
  phase \in {"reset", "done"} /\ ~cut /\ faults = 0 => Holds(version)

(***************************************************************************)
(* A transfer is confirmed when the region is that of its image, and in no *)
(* other case: the size of an earlier session that is or-ed in makes the   *)
(* device wait for bytes the host does not have.                           *)
(***************************************************************************)
ConfirmedAtItsSize ==
  phase \in {"reset", "done"} /\ ~cut => app_count \in {0, ImageBytes[version]}

\* the half-words of all sectors that image v reaches into
Occupied(v) ==
  {c \in Cells : flash_sector_size * ((2 * c) \div flash_sector_size) < ImageBytes[v]}

(***************************************************************************)
(* A flash the bootloader would start holds, in all sectors of the image   *)
(* its vector belongs to, a prefix of that image and nothing else: for any *)
(* number of abandoned sessions and power losses when no flash operation   *)
(* failed, and for any number of flash errors when the power stayed and    *)
(* none was given up since the vector was erased.  The vector's sector goes*)
(* first, and an error latches until a reset; an erase given up behind it  *)
(* does not, and leaves an old image's sector behind a new vector.         *)
(***************************************************************************)
NoMixedImage ==
  PcInRange /\ (faults = 0 \/ (reboots = 0 /\ givenUp = {})) =>
    LET v == flash[VectorCell][1]
    IN  \E n \in 0 .. ImageBytes[v] \div 2 :
          \A c \in Occupied(v) : flash[c] = IF c < n THEN <<v, c>> ELSE Erased

\* where the transfer under way, or the one that has just ended, has come to
Reached == IF wms = 0 THEN app_address + app_count ELSE wms

(***************************************************************************)
(* A host that was given a region is thrown out at one moment only: behind *)
(* the packet that brought the vector, because the deadline had passed with*)
(* nothing to start before the host came.  Neither a stale jump_app nor a  *)
(* deadline that fires inside a handler, or while an answer waits with     *)
(* SysTick, starts the application at any other step of a session.         *)
(***************************************************************************)
StartsWithItsVector ==
  pc = "jumped" /\ app_count # 0 =>
    LET vector == app_address + 2 * VectorCell
    IN  vector < Reached /\ Reached <= vector + packet_size

(***************************************************************************)
(* With no start byte on the line and a valid vector, the application is   *)
(* started: neither the deadline nor the loop can be missed.               *)
(***************************************************************************)
BootsWithoutHost == []<>(pc = "jumped" \/ app_flag \/ ~PcInRange)

\* The sizes of this boot add up to another than the image's.
OtherSize == app_count \notin {0, ImageBytes[version]}

(***************************************************************************)
(* A host that connects before the deadline, leaves the delay behind an ack*)
(* alone and starts over when an answer stays out, with any image, is told *)
(* of success, or the device restarts, or the host has begun with images of*)
(* different sizes in one boot.  In that last case it never is             *)
(* (ConfirmedAtItsSize).                                                   *)
(***************************************************************************)
UpdateCompletes ==
  FairHost =>
    (phase # "idle" /\ app_flag /\ ~jump_app)
      ~> (phase \in {"reset", "done"} \/ ~app_flag \/ OtherSize)
=============================================================================
