# Verification of the AT32 libraries and bootloader

TLA+ models, model-checking runs and machine-checked proofs for the firmware in
this repository: the libraries under `src/Libraries` (drivers, devices,
utilities) and the programs under `src/Project` that are built on them, for an
AT32F403A (Cortex-M4) board.  The RT-Thread tree under
`src/Libraries/utilities/rtthread` and the CMSIS files are vendored and are not
verified here.

Contents: [the system](#1-the-system), [the modules](#2-the-modules),
[the runs](#3-the-runs), [fairness](#4-fairness), [the proofs](#5-the-proofs),
[limits](#6-what-is-not-shown), [the plan](#7-the-plan).

## 1. The system

A bare-metal program here is one `main` that never returns plus the interrupt
handlers it enables.  There is no lock anywhere: what an interrupt and the loop
share is shared word by word.  Everything persistent is flash (internal, SPI)
or EEPROM; RAM is lost at every reset.

### Inventory

| Component | State it keeps | Operations | What is hard |
|---|---|---|---|
| Bootloader packet parser (`bl.c: analysis_packet, check_crc`) | `bl_variate.status/count/length`, `main`'s `fp_t` | one call per received byte | bytes lost, damaged, inserted; 16-bit counters; a buffer index that is a counter of its own |
| Bootloader (`bl.c`, `Project/bl/src/main.c`) | `bl_variate`, `app_program`, `jump_app`, SysTick, the application area of flash | `ping`, property query, `flash_erase_region`, `write_memory`, data packets, reset, jump to the application | lost answers, restarts in the middle, a SysTick interrupt between any two steps, statuses nobody looks at, flash operations given up without a trace, an update protocol without sequence numbers |
| Internal flash driver (`flash.c`) | flash, `FLASH->STS`, `FLASH_BUF` | `flash_write`, `flash_read`, `Flash_ErasePage`, `Flash_WriteHalfWord`, `Flash_WritePageWord` | read-erase-program-back, power loss in the middle, a sticky error bit, buffers that cross sectors |
| UART driver (`uart.c`) | the one-byte data register, baud rate | `UART_GetChar`, `UART_PutChar`, init | overrun while the loop is elsewhere |
| Delay and clock queries (`common.c`) | SysTick | `delayms`, `delayus`, `GetClock_Frequency` | `delayms` leaves SysTick off, and the bootloader's deadline uses it |
| System clock (`systemclk.c`) | RCC registers | HSI, HSE, PLL selection | the order of enable, wait, switch |
| Software IIC (`gpio_iic.c`), AT24C02 (`AT24C02.c`) | the bus, the EEPROM and its address | start, stop, ack, byte in/out; read, write, check | missing acknowledges, who drives the line, the write cycle, an 8-bit loop index |
| SPI flash (`spi_flash.c`, `spi.c`) | the chip, its write-enable latch and power-down | open, read, erase, write, close | commands a busy chip ignores, page boundaries, the busy timeout |
| TSIC506 (`tsic506.c`, `rt_TSIC506/src/my_thread.c`) | a packet of two bytes, error flags | edge-timed read, conversion, retry | an edge that stays out; the file holds an unresolved merge |
| IMU decoder (`packet.c`, `imu_data_decode.c`) | frame status, offset, length, CRC; the decoded record | one call per byte in the UART interrupt | packets cut short or run together, any length against a buffer of 2048 |
| Encoder simulation (`E6B2`) | the pulse index and rate | a timer interrupt, a thread that sets the rate | nothing at this commit: neither is ever started |
| Virtual UART (`virtual_uart.c`, `Project/VIRTUAL_UART1/src/main.c`) | the line's status word, its buffer, the two pins | bit-timed receive in the interrupt, echo and reset in the loop | the buffer's limit, one delay timer for both, a host that goes on during the echo |
| Automatic baud rate (`auto_uart_baud.c`) | edge times | rate detection | timing alone |
| Shell (`shell.c`), command history (`link.c`) | line buffer and index; a doubly linked list | edit, complete, dispatch, remember | the list at its limit, an index past the table, the end of the line buffer, bytes left behind the index |
| GPIO, EXTI, SPI, timer, standby drivers; example programs; `strfunc.c` | registers | one register write after the other | nothing that a model adds to |
| RT-Thread, startup, CMSIS | — | — | vendored |

`PROJECT.json` lists the same components with their status, and under `hazards`
every place where this code is hard to test, at its line.

### How the parts interact

* The bootloader's `main` polls `UART_GetChar` and calls `analysis_packet` with
  each byte; the last byte of a packet calls `check_crc`, which calls the
  command or data handler, which calls the flash driver and answers over the
  UART.  All of it runs in the loop: while a handler runs, nobody reads the
  UART.
* `SysTick_Handler` runs between any two instructions of that.  It reads
  `app_flag` (through `bl_connect`) and sets `jump_app`; the loop reads
  `jump_app`.  `delayms`, called behind every answer, takes SysTick over and
  leaves it disabled, so the deadline may be put off for ever.
* The bootloader's erase and program calls go to `Flash_ErasePage` and
  `Flash_WritePageWord`; other programs use `flash_write` on top of the same
  two.  Their only shared state is `FLASH->STS`, whose error bits nothing in
  the repository clears.
* `AT24C02.c` calls the routines of `gpio_iic.c`, which call the pin functions a
  program registers (`simulation_IIC`).  `spi_flash.c` calls a transfer and a
  chip-select function in the same way (`SPI_EN25Q`, on top of `spi.c`).  Both run
  in one loop, but not alone: the chip at the other end goes on by itself.
* The virtual UART's interrupt stays in its handler for a whole byte and delays
  in it with the `delayus` that `main` uses to time the bits of the echo.  The
  two share the status word: the handler sets its flags, `main` clears it.
* `shell_loop` takes one key after the other, and puts a line that was entered
  into the list of `link.c`, which takes its nodes from the heap.
* `USART2_IRQHandler` of E6B2 gives every byte to `packet_decode`, which calls
  the handler of a packet in the same interrupt.
* The host tool that drives an update is not in the repository.  It is modelled
  from what the bootloader answers to.

### What makes each part correct

* Parser: what reaches a handler is one packet that was sent; nothing is stored
  outside the buffer; nothing of one packet leaks into the next; every packet
  ends.
* Bootloader: a data packet lands where it belongs whatever was lost before it;
  a confirmed transfer is in flash, and had the size of its image; what an
  interrupted update leaves is never started as a mixture of two images; a host is
  thrown out at no other moment than behind the packet that brings the vector, and
  without a host the application is started; an update completes.
* Flash driver: a call replaces its words and no others; it never makes a flash
  error of its own; a power loss costs at most the sector in work; a call
  returns.
* EEPROM: whenever a bit counts, only one side determines it; between two bytes the
  bus is free, whatever went wrong in the first; the bytes of a write are stored
  one by one, each once and in its place, and nothing else is; what was written
  is there and what is read was there; a call returns.
* SPI flash: nothing is programmed over something else; the chip is not left
  enabled; what was written is there and what is read was there; a call returns
  even if the chip is never ready again.
* Virtual UART: the index stays at the buffer; the interrupt never delays while
  `main` does; the host reads back the line it sent.
* Shell and history: no key takes the index out of the line; the list's links lead
  through allocated nodes only; ENTER runs the command that is seen on the line; the
  commands that were run are in the list, in their order.
* IMU decoder: no byte is stored outside the buffer; what the handler gets is one
  packet, whole, and nothing of an abandoned one.

## 2. The modules

| Module | Models | Extends / uses |
|---|---|---|
| `BlFraming` | `analysis_packet`, `check_crc`, one action per case of the switch | |
| `BlFramingProofs` | theorems about it | `BlFraming`, `TLAPS` |
| `Bootloader` | `main`, all packet handlers, `SysTick_Handler`; host, line and power | |
| `BootloaderProofs` | theorems about its types, what a transfer does to the flash, and when a host is thrown out | `Bootloader`, `TLAPS` |
| `SectorStore` | abstract: what `flash_write` promises a caller | |
| `FlashDriver` | `flash_write` and what it calls | instance of `SectorStore` |
| `FlashDriverProofs` | theorems about it, the refinement among them | `FlashDriver`, `TLAPS` |
| `Iic` | `gpio_iic.c`, pin operation by pin operation; the EEPROM chip | |
| `EepromStore` | abstract: what `AT24C02.c` promises a caller | |
| `AT24C02` | `AT24CXX_read`, `AT24CXX_write`, `AT24CXX_check` | `Iic`, instance of `EepromStore` |
| `AT24C02Proofs` | theorems about both | `AT24C02`, `TLAPS` |
| `SpiFlash` | `spi_flash.c`, transaction by transaction; the EN25Q chip | |
| `SpiFlashProofs` | theorems about it | `SpiFlash`, `TLAPS` |
| `VirtualUart` | `virtual_uart.c` and the `main` that echoes with it, bit by bit | |
| `VirtualUartProofs` | theorems about it | `VirtualUart`, `TLAPS` |
| `History` | `link.c` on a heap of blocks | |
| `Shell` | `shell_loop`, key by key | `History` |
| `ShellProofs` | theorems about both | `Shell`, `TLAPS` |
| `ImuPacket` | `packet.c`, one action per case of the switch | |
| `ImuPacketProofs` | theorems about it | `ImuPacket`, `TLAPS` |
| `MC...` | constants for TLC | the module of that name |

Definitions whose name begins with `Mut` are mutants: the same definition with
a plausible mistake in it.  For every property of a passing run one of them, put
in the place of the original, makes TLC find the property violated.

### BlFraming

One variable per field of `bl_variate` that the parser uses, `fp` for `fp_t`
(an uninitialised local of `main`, hence `Init` takes any of `StackJunk`),
`event` for the handler the last byte called.  `raw` and `overrun` are history:
the bytes since the packet's type, and that a byte was stored behind
`fp_t.data`.  Such a store hits `main`'s stack: it is harmless or, at any later
time, fatal (`Fault`).

Abstractions.  The CRC is an operator constant `Crc`: the parser only compares.
The handlers are `Bootloader`'s; what they do to the parser's own state is the
`memset` of `fp_t` in `generic_response_packet`, which `handled` allows.  A byte
has `Radix` values and the two counters wrap at `Radix^2`, as `uint8_t` and
`uint16_t` do with 256.

### Bootloader

`pc` names where `main` is: `poll` (calls `UART_GetChar`), `check` (tests
`jump_app` and `check_app_pc`), or inside a handler.  A handler is cut where it
does something that another actor sees: an answer, one erased sector, one
programmed half-word.  Everything between two cuts is one action.

| Action | Code |
|---|---|
| `PollEmpty`, `PollNoise`, `Dispatch` | `UART_GetChar`, `analysis_packet`, `check_crc` |
| `CheckJump` | the `if (jump_app ...)` of the loop, `check_app_pc` |
| `Deadline` | `SysTick_Handler` when its count is reached; `Ticking` is when it may |
| `Pong`, `AckPacket`, `Respond` | the three answers; `Respond` to a reset restarts |
| `AckedErase`, `EraseSector`, `EraseDone` | `flash_erase_region`, `Flash_ErasePage` |
| `AckedWrite` | `write_memory` |
| `ProgramHalfWord`, `ProgramDone`, `AckedData` | `recv_data`, `Flash_WriteHalfWord` |
| `AckedOther` | property query and reset |
| `Deliver`, `LoseUnit`, `PowerCycle`, `Host...` | outside the repository |

Abstractions.

* A packet travels as two units, its start byte and the rest, because the start
  byte alone sets `app_flag`.  A truncated packet, or a start byte inside a
  payload, leads the parser astray; how often is bounded by `MaxLosses`.  That a
  damaged packet is not taken for another is `BlFraming`'s result, up to the
  strength of the CRC.
* Flash is counted in half-words from `app_address`.  A half-word written holds
  `<<image, index>>`, which tells apart everything a mix-up could confuse.
* An erase or a program is one `Operate`: skipped because an error is latched, done,
  ended in an error, which latches, or given up by `Flash_WaitProcess` at its
  timeout, which latches nothing and whose status the callers drop.  `givenUp`
  is history: the kinds of operation given up since the vector's sector was last
  erased.  An operation that is given up and finished later counts as done: in
  the model nothing reads the flash in between.
* The SysTick count is one event, `Deadline`, that may come at any moment while
  SysTick counts and its interrupt is enabled, the delay of an answer included.
* `check_app_pc` looks at one word of the image; `PcInRange` takes it for valid
  when it was programmed.  Images whose vector is out of range are not modelled.
* `analysis_app_download_addr` ORs sizes: `Or` is a constant operator with the
  two facts the model needs in `OrAssumption`.
* The region always starts at `APP_ADDRESS`: the host tool has no other.
* `bl.c` and `main.c` contain merge markers; both sides of each are the same for
  what is modelled.

The host of the model sends one command, waits for its answer, ignores other
answers, and, when one stays out, waits until nothing can be under way any more
(`Quiet`: its timeout is longer than the device's longest operation) and starts
the session anew, with any image.  It never repeats a single packet.  A host that
did so could program a half-word twice.  `PatientHost` says whether it leaves
the 5 ms behind an acknowledge alone.

### FlashDriver and SectorStore

`FlashDriver` has the local variables of `flash_write` and
`Flash_WritePageWord`, the flash, and `sts` for "an error bit of `FLASH->STS`
is set".  `Scan` is `flash_read` and the search for a written word, `Erase`
and `Program` one operation of the hardware each with the `Flash_WaitProcess`
on both sides of it, `NextSector` and `Return` the end of a turn of the loop.

`Operate` is what an operation can do: be skipped because an error is latched;
be done; be given up at the timeout (and done late, or never); end in an error,
which latches.  Programming a half-word that is not erased is always an error.
These are facts about the hardware, taken from how `Flash_GetStatus` and its
callers treat them.  `PowerLoss` may come between any two operations; one in
the middle of an operation counts as before or after it.  The bootloader needs
`Flash_ErasePage` and `Flash_WriteHalfWord` only: its `EraseSector` and
`ProgramHalfWord` have the same outcomes, but that an operation done late is done
at once.

`SectorStore` is the promise: sectors are replaced one after the other, in
ascending order; a power loss ends the job and costs at most the sector in work;
an operation that fails may spoil the sector it was meant for, never another,
and the job goes on, because `flash_write` returns no status.  The refinement
mapping takes the sector in work as untouched until its last word was
programmed, and the job as the sectors from the one in work to the last.

Callers pass even addresses and stay within the bank: what an odd address or the
second bank's controller does is not in the repository.

### Iic, AT24C02 and EepromStore

`Iic` has the two lines, the direction of the data pin, and the chip.  A routine
of `gpio_iic.c` is a sequence of pin operations, written down as such
(`IIC_Start`, `IIC_SendData`, ...); its loop over the bits is `ForEachBit`.  `todo`
is the list of the calls that are left, `at` the place in the first of them, and one
action performs the operation there.  Only two operations look at a line: `Read` in
`IIC_ReceiveData`, and the loop in `IIC_WaitAck`, of which the two outcomes are
`AckSeen` and `AckTimeout`; the latter puts an `IIC_Stop` in front of what the
caller does next, as the code does.  `AT24C02` adds the loops over bytes:
`BeginByte` up to the first acknowledge, `DeviceAnswered` or `DeviceSilent` on
its result, `EndByte` with the delay behind a write, `Return`.

`EepromStore` is the promise: a memory, a call, and the place of its next byte.  A byte is
put, or, when the memory was disturbed, missed, or got; then it is the next one's turn.
The mapping shows the dozens of pin operations of a transfer as none, and the one
in which the chip stores as the `Put`: it is the STOP, after which the loop has not yet
counted the byte but the abstract call has (`Settled`).  A byte that was not
acknowledged is missed at the same STOP, or when the device does not answer; one that
is read is got when the loop keeps it.

Abstractions.

* The data line is low when the chip pulls it, else what the output register says:
  the master drives it push-pull or, as an input, pulls it that way.  Delays
  between pin operations are not modelled; the chip reacts at once to an edge.
* A byte has `Bits` bits, the device address `DevWrite` and `DevRead`; the
  loop index wraps at `IndexWrap`, 256 in the code.
* The chip is external and modelled from the datasheet behaviour the driver
  relies on: start, stop, acknowledge, write cycle, deaf while it lasts.
  `ChipReset` makes it lose its place at any moment, at most `MaxResets` times.
  A write cycle may outlast the delay loop; `late` remembers it.  A master that
  restarts in the middle of a transfer is not modelled.
* `IIC_Ack` has no caller that reaches it (`IIC_ReceiveData` is called with 0).

### SpiFlash

A function of the driver is a sequence of transactions, `todo` what is left of
it.  `Transact` sends one, and `Obey` is what the chip makes of it: a busy or
sleeping chip ignores it, an erase or a program needs the write-enable latch.
`spi_flash_wait_busy` ends when the chip is ready or when the status was read
too often, which `late` remembers.  `Finish` is the chip's own step.  Memory is counted
in bytes; `Over` tells a byte programmed over an erased one from one over
something else (`Mixed`).  The page program wraps within its page.  Callers use
the device between `spi_flash_open` and `spi_flash_close` and stay inside it.
The time the chip takes to wake up is not modelled.

### VirtualUart

Time is counted in bits.  `frame` and `at` are the host's waveform, `isr` how far
the interrupt handler is in a byte; one `BitTime` moves the waveform on and lets
the handler take the sample in it (`Sample`, `LastSample`), or enter at a falling
edge (`EdgeTaken`), or return at once because a complete line waits
(`EdgeIgnored`).  `enter`, `nline` and `idx` are the flags and the count in
`uart_read_status`.  `MainLoop` runs while the handler does not: `Found`, one
`virtual_serial` per byte, `Reset`.

Abstractions.

* Host and device have the same baud rate, so that one sample falls into each
  bit.  A byte of the echo is one step: no state of the handler's changes what it
  sends, because by `DelayNotShared` no handler runs for longer than it takes to
  find a line waiting.
* `Get_ExtiInter` ORs where it should AND (`exti.c:29`), so it always answers yes,
  and `Clean_ExtiInter` (`exti.c:34`) clears every pending line, because a one
  written clears: edges that fall into a byte are forgotten with it.
* No file at this commit defines `UART_SIZE`; it is a constant.  The handler
  stores before it compares, and compares with `>`: one store may go behind the
  buffer.  What lies there is up to the linker, and the status word, declared
  next, is one possibility: such a store is harmless or sets the index.

### History and Shell

`after`, `before` and `command` are the fields of every block of a heap, `live`
the blocks in use.  `install_head` takes any free one.  `Shell` has the locals
`str`, `i` and `flag` of `shell_loop`, and one action per kind of key.  `typed`,
`nul` and `log` are history: the line as its user sees it, that a NUL was typed
since `str` was last blanked, and what was run for every line entered, or `Stray`
if nothing was.  `EntersWhatIsSeen` compares what ENTER finds in `str` with
`typed`, across arrow keys, completion and BACKSPACE; `HistoryKeepsCommands`
compares the commands in the list with those in `log`.

Abstractions.

* Any key but ENTER, TAB and BACKSPACE is stored, a NUL, too.  It ends the string
  for `strcmp` and `strncmp` (`Agrees`, `Ends`), but not for the index.
* A full line buffer or a full heap ends the model (`lost`): the code checks neither
  and goes on behind the array, or through address 0.
* The lookup runs over all commands; no two have the same name, so at most one is
  found, or all lookups behind it fail.
* `shell_command[COM_SIZE].name`, what the code reads behind its table when a line
  is no command, is a constant value, `Stray`.
* The shell cannot be left: nothing writes `uart_rx_buf`.
* The terminal, the LED and the date are left out.

### ImuPacket

One variable per field of `packet_t` and per static of `packet_decode`; `event`
is the packet the last byte handed to the handler, `raw` the bytes behind the last
`A5` that began a packet.  `crc16_update` is the operator constant `Crc`.  `len`
of `packet_t` is never used.  Left to itself `on_data_received` does not change
the parser's state, and nothing calls `imu_data_decode_init`, which registers it.

## 3. The runs

| Run | Question | Constants |
|---|---|---|
| `framing` | Does a handler only see what was sent, which packets store outside the buffer, is a count ever left over, does every packet end? | `Radix` 8, every packet type, buffer of 1 byte, an arbitrary stream |
| `bootloader_safe` | Do packets land in order, is what is written erased, what do a success and a valid vector mean, when is a host thrown out? | 2 images of 12 and 7 bytes, 2 losses, 2 power cycles, 1 flash operation that fails or is given up, impatient host |
| `bootloader_live` | Does an update complete, and is the application started when nobody connects? | 2 images of 12 and 7 bytes, any of them in any session, 2 losses, 1 power cycle, patient host |
| `flash_write` | Is exactly the range replaced, without an error of the driver's own, what do a fault and a power loss cost, does `flash_write` implement `SectorStore` and return? | 3 sectors of 2 words, any contents, 1 call, 1 fault, 1 power loss |
| `eeprom_calls` | Is what was written stored, what was stored read, who drives the line, is the bus free whatever the chip does, does the driver implement `EepromStore`, does a call return? | bytes of 3 bits, 4 cells, 1 call, 2 resets, the index wraps at 4 |
| `eeprom_check` | Does `AT24CXX_check` tell the chip's size? No (a finding). | a chip of 2 cells, a driver for 4 |
| `spi_calls` | Is what was written stored, what was stored read, and what is programmed, left enabled or never finished when the chip outlasts the driver? | 2 sectors of 2 pages of 2 bytes, 3 calls |
| `virtual_uart` | Can the index leave the buffer, do handler and echo ever delay at once, does the host read its line back? | bytes of 3 bits, a buffer of 3, 8 bytes sent |
| `shell_keys` | Can a key take the index out of the line, do the list's links survive its limit, does ENTER run what is seen, are the commands run in the list? | 3 names, 4 letters and NUL, a line of 4, a heap of 4 blocks, `HOIS_SIZE` 3 |
| `shell_history` | Does the list hold nothing but commands that were run? No (a finding). | as `shell_keys` |
| `imu_packets` | Is a byte stored outside the buffer, does the handler get anything but one whole packet? | bytes of 4 values, a buffer of 4, an arbitrary stream |
| `spi_rest` | Does a write keep the bytes around it? No (a finding). | 2 calls |

Why the bounds are enough.

* `Radix` 8 keeps everything a byte is used for (type codes, lengths, payload
  bytes) overlapping, and lets both 16-bit counters wrap in a run.  The proofs
  hold for every `Radix`.
* An image of 12 bytes in packets and sectors of 4 has a first, a middle and a
  last packet and three sectors; 7 is odd, ends inside a packet and a sector, and
  ORs with 12 to 15, which is neither.  The vector lies in the second half-word, so
  the first sector can be half written with the vector still erased.
* Two losses let an answer and its repetition be lost, or noise and a loss meet;
  two power cycles let one hit the recovery from the other.  One operation that is
  given up is enough for a half-word that is missing, or for a sector that keeps the
  old image; the proofs allow any number.
* In three bits, 4 and 5 address the EEPROM, and 5 is data as well: a byte can
  be taken for an address if the chip and the master disagree on where they are.
  Four cells and buffers of up to two bytes go round the end of the chip.  The
  memory is arbitrary at first, and `late` and the resets are the only things a
  call leaves behind, so one call is enough; two resets hit any two of its pin
  operations.
* A buffer of three bytes over pages of two is clipped and wraps; three calls are an
  open, an operation, and one that meets what the chip has not finished.
* A buffer of four words over sectors of two starts anywhere in a sector, fills
  one, and ends in a third.  `Init` starts from every flash, so a second call
  would add only what the first leaves behind in the driver, `sts`, and the
  fault is one that may latch it at any operation.

* In three bits the four bytes the host sends include `CR`, `LF` and the zero byte;
  frames read from their middle give the other patterns.  A buffer of 3 overflows
  with the fourth byte, and eight bytes are two lines, or one line that overflows
  and one behind it.
* A heap of four blocks holds the head and three lines: `HOIS_SIZE` 3 is reached,
  one node is freed, and the next line fills the heap for good.  Two of the names
  begin with the same letter, so TAB finds none, one or several.  Three characters are
  enough for an arrow key, and a line of 4 holds one with a character before it.
* Bytes of 4 values make every header also a payload; lengths run from 0 to 15
  against a buffer of 4, so that the buffer is full before, with and behind the
  end of the packet.  The parser has no counter beyond the buffer: the stream is
  not bounded.

What the runs taught.

`NoMixedImage` without its premise is violated in two ways.  With a flash error and a
reset, an erase fails and latches, the reset forgets the error, and the restarted
session may go on over a vector sector that still holds the old image.  And without any
reset, an erase that is given up at its timeout latches nothing: the next sectors are
erased and the new image is programmed up to the old sector, whose first half-word latches
an error, too late: a vector over a mixture is left.  `src/Project/Flash/flash.md:117` tells of an erase that was lost to a timeout.

`HostDoneSound` needs `~cut`: a device that restarted during a transfer acknowledges data
it drops and at the end confirms a transfer that never was.  `FlashedOnSuccess` needs
`~flashErr` and `"program" \notin givenUp`, because the status of every operation is
dropped: with either, a transfer is confirmed and the image is incomplete.  An erase that
was given up needs no exception there: what it left latches an error as soon as it is
programmed over.

An update of another size in the same boot never completes.  `analysis_app_download_addr`
ORs the sizes (`bl.c:427`), 12 and 7 become 15, and the device waits for bytes the host
does not have.  `ConfirmedAtItsSize` says that a transfer is confirmed at the size of its
image and at no other, and `UpdateCompletes` excepts the case by name (`OtherSize`).  It is
no finding only because no line of the repository says what a second update in one boot
should do.

`StartsWithItsVector`: a device without an application whose deadline has passed keeps
`jump_app` set, and starts the new image behind the packet that brings its vector, with
the transfer unfinished.  The property says that a host that was given a region is thrown
out at that moment and no other.

Behind a sent byte that ends in 1 both sides drive the EEPROM's data line for a
moment: the chip acknowledges at the falling clock, the master turns its pin round
after it.  It is over before the clock rises, which is why `NoDisputedBit` speaks
of a high clock.  In `SpiFlash`, `NoMixed` without its premise is violated: behind a wait that was
given up, `write_enable`, sent before the next wait, is ignored and the erase
with it, while the program's is in time.

The findings.

* `AT24CXX_check` is meant to tell the chip's size by its wrap-around
  (`AT24C02.c:7-9`).  But the driver rolls the address over itself, and a chip of
  half the size passes (`eeprom_check`).
* `spi_flash_write` says it reads, modifies and writes (`spi_flash.c:78`).  It
  erases the sector and reads nothing (`spi_rest`).
* The comment above ENTER (`shell.c:116-117`) saves the command that was executed, if there
  is one, and the listing in `SHELL/readme.md:265-268` saves nothing for an unknown line.
  The code inserts `shell_command[COM_SIZE].name`, read behind the table, for every
  line that is no command, the empty one included (`shell_history`).

The history is limited only once: `install_head` frees a node when `tatol` is exactly
`HOIS_SIZE`, and the heap is full some time later.  Nothing in the repository says what
`HOIS_SIZE` is to bound, so that no property does; `HistoryKeepsCommands` only allows
no command to go before `HOIS_SIZE - 1` lines came behind it, and the model ends as `Lost`
when `malloc` fails.  An empty line jumps over the reset of `flag`; that does no harm
only because an empty line finds no command (`Left`).

`EntersWhatIsSeen` excepts lines with a NUL: a completion then shortens the line and leaves
bytes behind its index, which the search for an arrow key, one byte behind the index, may
take for one that nobody pressed.

`EchoIsLine` needs two premises: a line of `UART_SIZE` bytes and more may have
stored over the status word, and a reset in the middle of a frame lets the handler
take a data bit for a start bit, until the host is silent for a byte.

A packet of the IMU whose length is that of the buffer or more never reaches the
handler, and one of length 0 takes a byte and is compared with a CRC over it.

Two more disagreements have no run, because each is one comparison or assignment.
`flash_write` compares the address with `BANK1` = 255 sectors (`flash.c:49`), where
`src/Project/Flash/flash.md:5` gives the bank 256: a call for the last one returns without
writing.  `spi_flash_open` ORs the ID into an uninitialised local (`spi_flash.c:40, 48`),
where the version in `SPI_EN25Q/readme/readme.md:55` starts from 0; `ReadId` chooses what
the caller gets.

## 4. Fairness

* `BlFraming!FairSpec`: weak fairness of `Receive` for `PacketEnds`.  The loop
  polls for ever; the property is about a line that keeps delivering.
* `Bootloader!FairSpec`: weak fairness of `Main` and `Deadline`.  The loop
  has no blocking call and SysTick, once counting, fires.  Nothing is assumed of
  the host or the line.
* `Bootloader!FairHost`, the premise of `UpdateCompletes` alone: `Deliver` (the
  UART shifts) and the three host actions (a host goes on, and gives up after a
  finite time).  Loss, power failure and flash errors are never fair.
* `FlashDriver!FairSpec`: weak fairness of `flash_write`: every wait in it is
  bounded by `TIMEOUT`.
* `AT24C02!FairSpec`: weak fairness of the driver, whose wait for an
  acknowledge is bounded, and of the end of a write cycle, which the chip
  guarantees.
* `VirtualUart`, `Shell` and `ImuPacket` have no fairness: they promise nothing
  while the host or the user is silent.
* `SpiFlash!FairSpec`: weak fairness of the driver alone, because its waits are
  bounded; nothing is assumed of the chip.

## 5. The proofs

All proofs are checked by TLAPS with Z3, Zenon and LS4, for every value of the
constants that satisfies the named `ASSUME`s of the module.  TLC evaluates those
assumptions in every run.

`BlFramingProofs`.  The safety properties of the parser are consequences of one
inductive invariant, `IInv`.  `DispatchIntegrity` is not inductive: it speaks of
the moment of a dispatch only.  What has to be carried to that moment is that,
in every state between, `fp_t` and the history `raw` agree on what was received
so far: the header byte by byte (`Framed`), then the payload up to `count`
(`InPacket`); that `count` is what `raw` has beyond the header; and that `count`
is zero outside a payload (`NoStaleCount`), although only a complete packet
resets it.

| Theorem | Says |
|---|---|
| `TypeCorrect` | `Spec => []TypeOK` |
| `DispatchedWasSent` | `Spec => []DispatchIntegrity` |
| `CountIsFresh` | `Spec => []NoStaleCount` |
| `StraysExplained` | `Spec => StrayStores` |

`BootloaderProofs`.

| Theorem | Says |
|---|---|
| `BootloaderTypes` | `Spec => []TypeOK`.  Two conjuncts are not about types and make it inductive: a handler that runs has a packet that can be sent, and the host's offset lies in its image.  One lemma per action. |
| `PacketsInOrder` | `Spec => []PacketsLandInOrder` |
| `ProgramsErasedOnly` | `Spec => []ProgramsErased` |
| `SuccessIsFlashed` | `Spec => []FlashedOnSuccess` |
| `DoneIsFlashed` | `Spec => []HostDoneSound` |
| `ConfirmedSize` | `Spec => []ConfirmedAtItsSize` |
| `OneImage` | `Spec => []NoMixedImage` |
| `StartsWithVector` | `Spec => []StartsWithItsVector` |

None of the properties of a transfer is inductive,
because there is no sequence number: what keeps a packet from landing twice or in the
wrong place is only that the host asks for one thing at a time.  The invariant has two
layers.

`Session` is about what is under way.  While the host prepares a transfer, or the
device has an address for one, there is one trace of the host's request: its packet on the
line, or in the receive register, or a handler at work on it, or its answer (`One`).
`wms` is the host's offset until that packet is programmed and the next one's from then
on (`InStep`); an answered write means that the address and a region large enough are
set, or that the device has restarted since (`Prepared`); a device that lost its
address gets no other before the next session (`Finishing`).  Noise, losses, and
power cycles can remove the trace but not add one.  `PacketsLandInOrder` follows.

`Contents` is about the flash.  While a transfer runs, the cells below the place of the
next half-word hold the image (`Flashed`), and those from it on that the image needs are
erased (`Wiped`), because the sectors of the region were (`Wiping`); so no program
meets a written cell, and an error is always the flash's own (`Sound`).  `Flashed` holds while
the device is `Sure`: no error is latched and no half-word was given up.
When the address returns to zero in a boot that set a region, the region is full, hence
the image complete (`Complete`); the host has then sent as many bytes as the region has,
so that its size is the image's.  A restart leaves no region, and `cut` tells the
host's claim apart.  For `NoMixedImage`, the first erased sector takes the vector with it,
and the half-word that makes a vector again belongs to the image whose cells below
it are flashed and above it are erased, in every sector it reaches into.  The kinds of
failure it tolerates enter as `Trusted`: no error is latched, and either no flash operation
failed, or the power stayed and none was given up since the vector was erased.  `Wiped` needs
`Trusted`, too: an erase given up is the one that leaves a cell for a program to meet.

`StartsWithItsVector` has an invariant of its own, `Starting`, over every step of the loop.
Before a start byte nothing but the loop runs (`Unheard`), so that the deadline can
give its leave at no other place.  While `jump_app` is set and there is a vector, the
device is `Leaving`: in a loop that has not taken a packet, or between the half-word that
made the vector and the next `CheckJump`; the handler that runs is then the one of that
packet, which is what the property says of `wms`.

`FlashDriverProofs`.  The invariant places the call in its buffer: the page that
is filled lies inside the sector in work; below that sector everything the goal
asks for is in flash, above it nothing has changed; and what is left of the buffer
is what the goal has from `addr` on.  A call for no words does nothing.  The
refinement goes through the mapping of `FlashDriver`, in which the sector in work
keeps its old contents until the call is through with it: every step is a stutter of
`SectorStore`, a failure, the beginning of a job, the commit or the spoiling of one
sector, or a crash, one lemma each.

| Theorem | Says |
|---|---|
| `TypeCorrect` | `Spec => []TypeOK` |
| `ProgramsErasedOnly` | `Spec => []NoErrorOfItsOwn` |
| `OneSectorAtRisk` | `Spec => []AtMostOneSectorTorn` |
| `WritesSectors` | `Spec => ImplementsStore` |

`AT24C02Proofs`.  The invariant says what the two lines and the chip are at each
place of each routine.  While a transfer runs, `todo` is one of a dozen lists of
calls, and for each of them and each `at` either the chip is in step with the master,
or it is lost: off, not pulling the line, and the transfer disturbed (`Bus`).  In step means:
behind `c` bits of the byte `d` the chip has shifted in the first `c` of them (`Taking`,
by `Top`); behind the eighth it acknowledges `d` (`Acking`); its word address is the
driver's `addr` (`Points`); behind a written byte it holds that byte and nothing else until
the STOP (`Holding`); when it sends, the master has collected the first bits of the
cell (`Feeding`, `Got`).  A chip once lost stays so up to the next START, since
no STOP of a lost chip stores anything and only a START wakes it.  `Cycle` says that a busy
chip is off, and that an undisturbed one is busy only in the delay behind a byte.
`NoDisputedBit` and `BusFree` read off `Bus`.  So does the refinement: of each pin operation one
lemma tells whether it stores, and then that it is the STOP behind a written byte, with
that byte in its place; a STOP that does not store is one of a lost chip, and a byte
read is the cell's unless the chip was lost while it sent.

`WriteLands` and `ReadReturns` need `Memory` on top: what the chip holds is what it held at
the call with the bytes that have landed put in their places (`Overwrite`), and what a read
has collected is what the chip holds at the places so far.  `Overwrite` is a closed
form - of two bytes at one place the later - so that a buffer longer than the chip, which goes
over its own first bytes, is covered; `OverwriteNext` adds one byte to it.  A transfer
that is lost leaves no trace there, because both properties speak of undisturbed calls.

The arithmetic of bits is in lemmas about the recursive function `Pow2`: a byte shifted in
bit by bit is the byte (`Top`), and a collected one never leaves its width.

| Theorem | Says |
|---|---|
| `TypeCorrect` | `Spec => []TypeOK` |
| `NoBitDisputed` | `Spec => []NoDisputedBit` |
| `BusLeftFree` | `Spec => []BusFree` |
| `StoresBytes` | `Spec => ImplementsStore` |
| `WritesLand` | `Spec => []WriteLands` |
| `ReadsReturn` | `Spec => []ReadReturns` |

`SpiFlashProofs`.  What is left of `todo` is a suffix of the transactions of the
function that was called, so that the invariant is a statement about each suffix:
which latch, which operation of the chip and how much of the memory it may meet,
while no wait was given up (`late`).  The latch is open only between an enable and the
erase or program behind it.  Two facts about pages carry the memory's part: a sector is a
whole number of pages, and a program stays inside the page it begins in.

| Theorem | Says |
|---|---|
| `TypeCorrect` | `Spec => []TypeOK` |
| `LeavesLatchClosed` | `Spec => []LatchClosed`, if no caller writes zero bytes: such a call sends its enable and no program |
| `ProgramsErasedOnly` | `Spec => []NoMixed` |
| `ReadsMemory` | `Spec => []ReadReturns` |
| `WritesLand` | `Spec => []WriteLands` |

`VirtualUartProofs`.  `TypeOK` is not inductive: that the echo's position stays in
the buffer needs a zero byte at or behind it while `main` sends, and one in the buffer
at all once `enter` is set (`Ended`).  The bound on `idx` needs nothing more, because the
comparison behind the store, late as it is, still comes before the next one.
`DelayNotShared` needs that `main` past its wait has found `nline`, and that `nline`
means `enter` (`Exclusion`): the handler can only be entered when `nline` is not
set, and `main` only goes on between two runs of it.

`EchoIsLine` speaks of the end of an echo.  What leads there, while no reset cut a frame
(`slip`) and the line fits (`spilt`): the handler is in step with the host's frame and its
`data` are the frame's bits so far (`Sync`); the buffer holds what was heard from some byte
on that begins a line (`Buffered`: the byte is a witness of the invariant, not a variable);
and what `main` has sent is the buffer up to `pos`, framed (`Echoing`).  A handler that is
out of step is so only until the host is silent for a byte, whereupon `heard` is empty
(`Silent`).

| Theorem | Says |
|---|---|
| `TypeCorrect` | `Spec => []TypeOK` |
| `OneDelayAtATime` | `Spec => []DelayNotShared` |
| `EchoesLine` | `Spec => []EchoIsLine` |

`ShellProofs`.  `RingOK` is not inductive without the types: an insertion
preserves it because the new node is not in the ring, a deletion because the node
cut out is not the head, which is what `Few` is there for.  One lemma for the links
behind an insertion, one for those behind a deletion, one for `install_head`.

`HistoryKeepsCommands` follows the `after` links from the head by a recursive function.  The
invariant replaces it by a walk that exists (`Chain`): a function from `0 .. Kept` into the
allocated nodes, without repetition, each linked to the next and the last to the head, that
shows the log backwards, commands and `Stray` alike.  An insertion lengthens the walk at the
head, the one deletion shortens it at the end.  That the recursive function is that walk is an
induction over data; it is done with the least number of a set (`LeastNumber`, from the
well-foundedness of the natural numbers), the one form of induction the provers can use.

`EntersWhatIsSeen` needs more than that `str` and `typed` agree up to the index: `Seen` adds that
no character of the line is NUL and that all of `str` behind it is, because `strcmp` and the
search for an arrow key read there.  `Watched` says so unless a NUL was typed; an empty line
does not blank `str`, and keeps it because the line was `Seen` before.

| Theorem | Says |
|---|---|
| `TypeCorrect` | `Spec => []TypeOK` |
| `LinksAreSound` | `Spec => []RingOK` |
| `RunsWhatIsSeen` | `Spec => []EntersWhatIsSeen` |
| `CommandsAreKept` | `Spec => []HistoryKeepsCommands` |

`ImuPacketProofs`.  As in the bootloader's parser, `DeliveredWhole` speaks of one
moment; the invariant carries to it that length, CRC and buffer agree with `raw`
in every state between.

| Theorem | Says |
|---|---|
| `TypeCorrect` | `Spec => []TypeOK` |
| `OnlyWholePackets` | `Spec => []DeliveredWhole` |

Constants are constrained as weakly as the code justifies: sizes are positive,
sector and packet sizes even, packet types are distinct bytes, `packet_size`
fits the buffer (`main.c`'s `PACKET_SIZE` against `bl.h`'s `LENGTH`), OR is at
least each of its operands, every image fits the flash, its vector lies in the first
sector (`check_app_pc` reads the second word behind `APP_ADDRESS`), an empty receive
register is told apart from every unit on the line, and what a second program leaves
(`Mixed`) from every byte a caller writes.

## 6. What is not shown

* Model-checked only: `PacketEnds`, `UpdateCompletes`, `BootsWithoutHost` and the `Returns`
  properties, because liveness under fairness is beyond TLAPS.  Every other property of a
  passing run is a theorem.  `NoStaleCount` and `NoMixed` are proved and not run: each is a part
  of what `DispatchIntegrity` and `WriteLands` need.
* Not modelled: timing in microseconds, register addresses and bits, the contents
  of the property answers, the bytes of an answer.  Components with status
  `not_modelled` in `PROJECT.json` keep no state of their own between two calls, are
  timing alone, do not compile at this commit, or are vendored, as their notes say.
* The map covers a small part of `src/`: of its 2.5 million lines all but some
  thousands are RT-Thread, its board support packages and CMSIS headers.

## 7. The plan

What would be done next, in order of importance.

1. An abstract update protocol (an image is absent, partial or complete), and
   `Bootloader` shown to implement it; the invariant `Contents` of `BootloaderProofs` is
   what its proof would need.
