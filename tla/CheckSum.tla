------------------------------- MODULE CheckSum -------------------------------
(* The sum the parsers of the controller keep of the bytes of a frame, and  *)
(* compare with its last one. A byte is a number below 8.                   *)
EXTENDS Integers, Sequences

(* After each byte.                                                         *)
Sums(bytes) ==
  LET sums[n \in 0 .. Len(bytes)] == IF n = 0 THEN 0 ELSE (sums[n - 1] + bytes[n]) % 8
  IN sums

SumOf(bytes) == Sums(bytes)[Len(bytes)]
=============================================================================
