---------------------------- MODULE MCHostLink ----------------------------
EXTENDS HostLink
CONSTANTS diag, start

\* The longest request fills the assembly exactly.
MCFrameLength == [r \in {diag, start} |-> IF r = diag THEN 1 ELSE 2]

\* A host that does not wait on a fast line, with reports; one that waits on a slow line
\* in transmit operation; and one that does not wait on a slow line.
Hasty     == [pipelined |-> TRUE, slowLine |-> FALSE, reporting |-> TRUE]
Waiting   == [pipelined |-> FALSE, slowLine |-> TRUE, reporting |-> FALSE]
Pipelined == [pipelined |-> TRUE, slowLine |-> TRUE, reporting |-> FALSE]
HastyOrWaiting == {Hasty, Waiting}
OnlyPipelined  == {Pipelined}
=============================================================================
