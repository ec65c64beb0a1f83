-------------------------- MODULE MCPollingChannel --------------------------
(* Two consumers that need the channel and one that does not.              *)
EXTENDS PollingChannel

CONSTANTS c1, c2, o1

MCConsumers == {c1, c2, o1}
MCOptional == {o1}
=============================================================================
