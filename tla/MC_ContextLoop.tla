---------------------------- MODULE MC_ContextLoop ----------------------------
(* Three KISS ports and two radio channels: every pattern of zero and       *)
(* non-zero ports, a zero port before, between and after configured ones,   *)
(* and neighbouring ports on the same or on different channels.             *)
EXTENDS ContextLoop

MC_NKiss == 3
MC_Chans == {0, 1}
=============================================================================
