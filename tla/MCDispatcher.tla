---------------------------- MODULE MCDispatcher ----------------------------
(* Finite instances of Dispatcher.  The retry delays and the failure codes  *)
(* are those of the real policy.                                            *)
EXTENDS Dispatcher, Retry

CONSTANTS mail, phone, mailbox, topic

\* The mailbox is served by an email sink, the topic by an ntfy one.
MCSinkOf == [r \in RouteDestination |-> IF r = mailbox THEN mail ELSE phone]

MCFailureCode == {Named("EAUTH"), Http(429)}
MCPermanentCode == {c \in MCFailureCode : IsPermanentFailure(c)}
=============================================================================
