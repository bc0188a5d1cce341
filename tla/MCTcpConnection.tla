-------------------------- MODULE MCTcpConnection --------------------------
(* A small instance of TcpConnection for TLC: payloads of two bytes that   *)
(* are lent, and empty ones that are owned.                                *)
EXTENDS TcpConnection

Ask(n, s) == [size |-> n, sync |-> s]
SomeRequests == {Ask(2, TRUE), Ask(0, FALSE)}

=============================================================================
