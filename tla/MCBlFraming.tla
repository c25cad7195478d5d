----------------------------- MODULE MCBlFraming -----------------------------
(***************************************************************************)
(* BlFraming for TLC.  A byte has Radix values, so that count and length   *)
(* wrap at Radix^2; the codes of the packet types are small numbers and    *)
(* overlap with lengths and payloads, as they do in the program.           *)
(***************************************************************************)
EXTENDS BlFraming

\* A checksum over small numbers: like a CRC, some corruptions slip through
\* and most are seen, and every header has a payload that agrees.
MCCrc(s) == LET sum[i \in 0 .. Len(s)] ==
                  IF i = 0 THEN 0 ELSE (2 * sum[i - 1] + s[i]) % 3
            IN  sum[Len(s)]

MCJunk == {ZeroPacket,
           [ZeroPacket EXCEPT !.packet_type = Data, !.len_low = 1, !.crc_low = 1]}

=============================================================================
