----------------------------- MODULE EepromStore -----------------------------
(***************************************************************************)
(* What AT24C02.c promises its caller: a write puts its bytes into the     *)
(* memory one by one, each once, at consecutive addresses and round the    *)
(* last of them; a read gets them in the same order.  No other step        *)
(* changes the memory.  Only a disturbed memory loses a byte of a write,   *)
(* or gives another one to a read; neither ends the call, and the caller   *)
(* is not told.                                                            *)
(***************************************************************************)
EXTENDS Integers, Sequences

CONSTANTS Size,      \* bytes of the memory
          LastPlace, \* the last address
          Wrap,      \* values of the index of a call
          Values     \* values of a byte

VARIABLES memory,        \* the bytes stored
          work,          \* the call under way
          data, count,   \* what it writes; the bytes it writes or reads
          place, index,  \* the address and the index of the next one
          result,        \* what it has read
          disturbed      \* the memory has been disturbed

call == <<work, data, count>>
storeVars == <<memory, call, place, index, result, disturbed>>

StoreInit ==
  /\ memory \in [0 .. Size - 1 -> Values]
  /\ work = "none" /\ data = << >> /\ count = 0
  /\ place = 0 /\ index = 0 /\ result = << >>
  /\ disturbed = FALSE

Begin ==
  /\ work = "none"
  /\ \/ work' = "write" /\ data' \in Seq(Values) /\ count' = Len(data')
     \/ work' = "read" /\ data' = << >> /\ count' \in Nat
  /\ place' \in 0 .. LastPlace /\ index' = 0 /\ result' = << >>
  /\ UNCHANGED <<memory, disturbed>>

\* To the next byte; an index at its end begins anew, and with it the data.
NextByte ==
  /\ index < count
  /\ place' = IF place = LastPlace THEN 0 ELSE place + 1
  /\ index' = (index + 1) % Wrap
  /\ UNCHANGED <<call, disturbed>>

Put ==
  /\ work = "write" /\ NextByte
  /\ memory' = [memory EXCEPT ![place % Size] = data[index + 1]]
  /\ UNCHANGED result

Miss == work = "write" /\ disturbed /\ NextByte /\ UNCHANGED <<memory, result>>

Get ==
  /\ work = "read" /\ NextByte
  /\ \E v \in Values :
       /\ disturbed \/ v = memory[place % Size]
       /\ result' = IF index < Len(result) THEN [result EXCEPT ![index + 1] = v]
                    ELSE Append(result, v)
  /\ UNCHANGED memory

End ==
  /\ work # "none" /\ index >= count
  /\ work' = "none"
  /\ UNCHANGED <<memory, data, count, place, index, result, disturbed>>

Disturb ==
  /\ disturbed' = TRUE
  /\ UNCHANGED <<memory, call, place, index, result>>

StoreNext == Begin \/ Put \/ Miss \/ Get \/ End \/ Disturb

StoreSpec == StoreInit /\ [][StoreNext]_storeVars
=============================================================================
