---------------------------- MODULE MCPosixCore ----------------------------
EXTENDS PosixCore

\* An immutable event for both objects, and one with a payload for one of them.
MCFuzzTable == <<[size |-> 0, to |-> {1, 9}], [size |-> 2, to |-> {9}]>>
=============================================================================
