----------------------------- MODULE MCCanDriver -----------------------------
(* CanDriver with one sending thread: the mutex lets only one in, and all   *)
(* senders do the same.                                                     *)
EXTENDS CanDriver

CONSTANT s1

MCSenders == {s1}
=============================================================================
