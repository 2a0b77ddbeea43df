--------------------------- MODULE MCPlatformTimer ---------------------------
(* One timer, in ticks of two nanoseconds. *)
EXTENDS PlatformTimer
=============================================================================
