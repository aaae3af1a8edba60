-------------------------- MODULE MCLlamaService --------------------------
(* Bounds for LlamaService: three calls, so that one waits while another is *)
(* completed and the third still initialises.                               *)
EXTENDS LlamaService, TLC

CONSTANTS c1, c2, c3

ThreeCalls == {c1, c2, c3}
===========================================================================
