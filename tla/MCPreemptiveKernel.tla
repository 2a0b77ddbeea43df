------------------------ MODULE MCPreemptiveKernel ------------------------
EXTENDS PreemptionExample

\* Two bytes of the mask.  In the lower one a group of two, whose objects do not preempt
\* each other, and one that preempts both; in the upper one two that are groups of their own.
MCObject == {1, 2, 3, 9, 10}
MCGroups == [o \in MCObject |-> IF o = 1 THEN 2 ELSE o]
=============================================================================
