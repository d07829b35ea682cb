---------------------------- MODULE MCYieldQueue ----------------------------
(* Two results, one replacement of the transcript with what is around it, and *)
(* a prompt that begins before the one before it has ended.                   *)
EXTENDS YieldQueue

CONSTANTS r1, r2

=============================================================================
