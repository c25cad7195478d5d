-------------------------------- MODULE Shell --------------------------------
(***************************************************************************)
(* shell_loop (shell.c): one key at a time from the serial port, a line    *)
(* edited in str, TAB completion, and on ENTER the command of that name,   *)
(* which goes into the history.  A key may be NUL, which ends the string   *)
(* for strcmp and strncmp but not for the index.  Nothing in the repository*)
(* writes uart_rx_buf, so the loop is never left.                          *)
(***************************************************************************)
EXTENDS History, SequencesExt

CONSTANTS
  Names,        \* shell_command[].name, each a sequence of Letters
  RESET,        \* the one that calls NVIC_SystemReset
  Letters,      \* the keys that are stored: all but ENTER, TAB and BACKSPACE
  ESC, Bracket, NUL,       \* three of them, '[' the second
  Stray,        \* what shell_command[COM_SIZE].name reads, behind the table
  SIZE          \* bytes of str, 4096 in the code

ASSUME NamesAssumption ==
  /\ RESET \in Names /\ Names \subseteq Entries
  /\ Stray \in Entries \ Names
  /\ \A name \in Names : name \in Seq(Letters \ {NUL}) /\ name # << >> /\ Len(name) < SIZE
ASSUME LettersAssumption == {ESC, Bracket, NUL} \subseteq Letters /\ NUL \notin {ESC, Bracket}
ASSUME SizeAssumption == SIZE \in Nat /\ SIZE > 1

VARIABLES
  str, i, flag,   \* the locals of shell_loop
  lost,           \* an array or the heap was left: anything may happen
  typed,          \* history: the line as its user sees it, unless nul
  nul,            \* history: a NUL was typed since str was blank
  log             \* history: for every line entered what was run, or Stray

vars == <<history, str, i, flag, lost, typed, nul, log>>

Zeros == [k \in 0 .. SIZE - 1 |-> NUL]

\* The index stays inside str, the links inside the heap.
TypeOK ==
  /\ live \subseteq Blocks /\ HeadNode \in live
  /\ after \in [Blocks -> Blocks] /\ before \in [Blocks -> Blocks]
  /\ command \in [Blocks -> Entries] /\ tatol \in Nat
  /\ str \in [0 .. SIZE - 1 -> Letters]
  /\ i \in 0 .. SIZE /\ flag \in BOOLEAN /\ lost \in BOOLEAN /\ nul \in BOOLEAN
  /\ typed \in Seq(Letters) /\ log \in Seq(Entries)

Init ==
  /\ HistoryInit
  /\ str = Zeros /\ i = 0 /\ flag = FALSE /\ lost = FALSE
  /\ typed = << >> /\ nul = FALSE /\ log = << >>

\* One more character is stored inside str, and the search for an arrow key,
\* which looks one byte behind a trailing ESC, stays inside too.
Room(c) == i < SIZE - 1 \/ (i = SIZE - 1 /\ c # ESC)

\* A full str, and a malloc that fails: the code has no check and goes on behind
\* the array or through address 0.
Lost ==
  /\ (\E c \in Letters : ~Room(c)) \/ live = Blocks
  /\ lost' = TRUE
  /\ UNCHANGED <<history, str, i, flag, typed, nul, log>>

-----------------------------------------------------------------------------
(* An arrow key is found once the line has three characters, whether its   *)
(* letter is one of them or not, and costs the line.                       *)

Edited(s) ==
  IF Len(s) > 2 /\ \E m \in 1 .. Len(s) - 1 : s[m] = ESC /\ s[m + 1] = Bracket
  THEN << >> ELSE s

\* mutant: the search begins at the second character
MutArrow(now) ==
  i + 1 > 2 /\ \E m \in 1 .. i : m < SIZE - 1 /\ now[m] = ESC /\ now[m + 1] = Bracket

Arrow(now) ==
  i + 1 > 2 /\ \E m \in 0 .. i : m < SIZE - 1 /\ now[m] = ESC /\ now[m + 1] = Bracket

Char(c) ==
  /\ Room(c)
  /\ LET now == [str EXCEPT ![i] = c]
     IN  IF Arrow(now) THEN str' = Zeros /\ i' = 0 ELSE str' = now /\ i' = i + 1
  /\ nul' = (nul \/ c = NUL)
  /\ typed' = IF nul' THEN << >> ELSE Edited(Append(typed, c))
  /\ UNCHANGED <<history, flag, lost, log>>

\* str holds the characters of name, as far as they are among its first n
Agrees(name, n) == \A k \in 1 .. Len(name) : k <= n => name[k] = str[k - 1]

\* name ends at n, or at a NUL before
Ends(name, n) == Len(name) = n \/ (Len(name) < n /\ str[Len(name)] = NUL)

\* strncmp(command[j], str, i) == 0
Matching == {name \in Names : Agrees(name, i) /\ (i < Len(name) \/ Ends(name, i))}

Completed(t) ==
  LET T == {name \in Names : IsPrefix(t, name)}
  IN  IF \E name \in Names : T = {name} THEN CHOOSE name \in T : TRUE ELSE t

\* One match is copied over the line, none or several are only printed.
Tab ==
  /\ i < SIZE
  /\ \/ \E name \in Names :
          /\ Matching = {name}
          /\ i' = Len(name)
          /\ str' = [k \in 0 .. SIZE - 1 |->
                       IF k < Len(name) THEN name[k + 1] ELSE IF k = i THEN NUL ELSE str[k]]
     \/ /\ \A name \in Names : Matching # {name}
        /\ str' = [str EXCEPT ![i] = NUL] /\ UNCHANGED i
  /\ typed' = IF nul THEN << >> ELSE Completed(typed)
  /\ UNCHANGED <<history, flag, lost, nul, log>>

\* mutant: an empty line is shortened, too
MutErasable == TRUE

Erasable == i # 0

Backspace ==
  /\ Erasable /\ i' = i - 1
  /\ str' = [str EXCEPT ![i - 1] = NUL]
  /\ typed' = SubSeq(typed, 1, Len(typed) - 1)
  /\ UNCHANGED <<history, flag, lost, nul, log>>

-----------------------------------------------------------------------------
(* ENTER ends the string at i and looks for the command of that name.      *)

Entered == {name \in Names : Agrees(name, i) /\ Ends(name, i)}

\* flag = 0, which an empty line jumps over
Left(f) == f /\ i = 0

Run(name) ==
  /\ name # RESET
  /\ install_head(name) /\ log' = Append(log, name)
  /\ flag' = Left(TRUE)

\* An unknown line is not run, but what lies behind the table is inserted.
NotFound ==
  /\ Entered = {}
  /\ IF flag THEN UNCHANGED history ELSE install_head(Stray)
  /\ log' = Append(log, Stray)
  /\ flag' = Left(flag)

\* The line starts anew; an empty one leaves the bytes behind the index.
Enter ==
  /\ i < SIZE
  /\ (\E name \in Entered : Run(name)) \/ NotFound
  /\ str' = IF i = 0 THEN [str EXCEPT ![0] = NUL] ELSE Zeros
  /\ i' = 0
  /\ typed' = << >> /\ nul' = (nul /\ i = 0)
  /\ UNCHANGED lost

\* NVIC_SystemReset, before the command is in the history.
Reboot ==
  /\ i < SIZE /\ RESET \in Entered
  /\ live' = {HeadNode} /\ tatol' = 0 /\ UNCHANGED <<command, lost>>
  /\ after' = [after EXCEPT ![HeadNode] = HeadNode]
  /\ before' = [before EXCEPT ![HeadNode] = HeadNode]
  /\ str' = Zeros /\ i' = 0 /\ flag' = FALSE
  /\ typed' = << >> /\ nul' = FALSE /\ log' = << >>

Next ==
  /\ ~lost
  /\ (\E c \in Letters : Char(c)) \/ Tab \/ Backspace \/ Enter \/ Reboot \/ Lost

Spec == Init /\ [][Next]_vars

-----------------------------------------------------------------------------
(***************************************************************************)
(* What ENTER runs is the line its user sees, after any keys: characters,  *)
(* completions, corrections and arrow keys that take back a line.  A NUL   *)
(* that was typed since str was last blanked is excepted: a completion then*)
(* shortens the line and leaves bytes behind it, in which the search for an*)
(* arrow key later finds one that nobody pressed.                          *)
(***************************************************************************)
EntersWhatIsSeen == ~nul => Entered = Names \cap {typed}

(***************************************************************************)
(* The commands in the history are those that were run, in the order they  *)
(* were run, the newest first, and none is missing but the oldest, and that*)
(* only when HOIS_SIZE - 1 lines were entered since.  Nothing is said here *)
(* of entries that are no command.                                         *)
(***************************************************************************)
HistoryKeepsCommands ==
  LET node[k \in 0 .. tatol + 1] == IF k = 0 THEN HeadNode ELSE after[node[k - 1]]
      listed == {k \in 1 .. tatol + 1 : \A j \in 1 .. k : node[j] # HeadNode}
      kept == {k \in listed : command[node[k]] \in Names}
      run == {m \in 1 .. Len(log) : log[m] \in Names}
  IN  \E ofNode \in [kept -> run] :
        /\ \A k \in kept : log[ofNode[k]] = command[node[k]]
        /\ \A j, k \in kept : j < k => ofNode[k] < ofNode[j]
        /\ \A m \in run :
             \/ \E k \in kept : ofNode[k] = m
             \/ /\ m <= Len(log) - (HOIS_SIZE - 1)
                /\ \A k \in kept : m < ofNode[k]

(***************************************************************************)
(* The history holds commands that were executed and nothing else, as the  *)
(* comment above ENTER says and the listing in the shell's notes does.     *)
(***************************************************************************)
OnlyCommandsKept == \A n \in live \ {HeadNode} : command[n] \in Names
=============================================================================
