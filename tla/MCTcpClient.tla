----------------------------- MODULE MCTcpClient -----------------------------
(* TcpClient with two senders, and with one.                               *)
EXTENDS TcpClient

CONSTANTS s1, s2

MCSenders == {s1, s2}
MCOneSender == {s1}
=============================================================================
