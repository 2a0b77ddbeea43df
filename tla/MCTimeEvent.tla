----------------------------- MODULE MCTimeEvent -----------------------------
(* Three time events, armed for two ticks, one-shot or with a period of two, by   *)
(* the framework's users or as timers of the platform, in nanoseconds.            *)
EXTENDS PlatformTimer
CONSTANTS t1, t2, t3
=============================================================================
