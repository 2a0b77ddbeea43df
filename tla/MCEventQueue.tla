---------------------------- MODULE MCEventQueue ----------------------------
(* Three distinct events, and rings of 0, 1, 2 and 3 entries.              *)
EXTENDS EventQueue

MCLengths == 0 .. 3
=============================================================================
