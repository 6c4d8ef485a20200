--------------------------- MODULE MCServiceQueue ---------------------------
(* ServiceQueue for TLC: the one network thread the code starts, two        *)
(* sessions, and enough packets for three turns of the double buffer.       *)
EXTENDS ServiceQueue
=============================================================================
