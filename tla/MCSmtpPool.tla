---------------------------- MODULE MCSmtpPool ----------------------------
(* A finite instance of SmtpPool: three sends over two sinks, one           *)
(* connection to a transport.                                               *)
EXTENDS SmtpPool, TLC

Symmetric == Permutations(Job) \cup Permutations(Sink)
=============================================================================
