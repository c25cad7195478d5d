----------------------------- MODULE MCImuPacket -----------------------------
(***************************************************************************)
(* ImuPacket for TLC: bytes of four values, so that every header and      *)
(* payload also contains the codes a packet starts with.                   *)
(***************************************************************************)
EXTENDS ImuPacket

\* A checksum that sees most corruptions and that every payload can meet.
MCCrc(s) == LET sum[k \in 0 .. Len(s)] ==
                  IF k = 0 THEN 0 ELSE (2 * sum[k - 1] + s[k]) % 5
            IN  sum[Len(s)]
=============================================================================
