-------------------------- MODULE MCVoiceManager --------------------------
(* Bounds for VoiceManager: two users, of whom one speaks three times and the *)
(* other twice.  Nobody hears the first time; the others make what one says   *)
(* meet the timer, the buffers and the answers of the other and its own.      *)
EXTENDS VoiceManager, TLC

CONSTANTS u1, u2

TwoUsers == {u1, u2}
ThreeAndTwo == (u1 :> 3) @@ (u2 :> 2)
===========================================================================
