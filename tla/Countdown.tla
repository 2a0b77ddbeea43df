------------------------------ MODULE Countdown ------------------------------
(***************************************************************************)
(* What the time events of EDF promise their clients, without the linked   *)
(* lists: a tick counts every time event on them exactly once, and one     *)
(* more time each that is put on them while it is being processed; a time  *)
(* event is posted exactly when its count runs out.                        *)
(***************************************************************************)
EXTENDS Naturals

CONSTANTS
  TimeEvent,  \* the time events of one tick rate
  Start,      \* the times they are armed with
  Period,     \* the periods they are armed with, 0 for one-shot
  NULL        \* no time event

VARIABLES
  cnt,        \* ticks until expiration, 0 when disarmed
  period,     \* reload value
  listed,     \* the time events the tick attends to
  ticking,    \* a tick is being processed
  uncounted,  \* the time events it still has to attend to
  posting     \* the time event being posted, or NULL

vars == <<cnt, period, listed, ticking, uncounted, posting>>

Init ==
  /\ cnt = [te \in TimeEvent |-> 0]
  /\ period = [te \in TimeEvent |-> 0]
  /\ listed = {} /\ uncounted = {}
  /\ ticking = FALSE /\ posting = NULL

\* A time event that is not listed joins the tick in progress, also when that tick has
\* counted it and taken it off already: it is counted again.
List(te) ==
  /\ listed' = listed \cup {te}
  /\ uncounted' = IF ticking /\ te \notin listed THEN uncounted \cup {te} ELSE uncounted

Arm(te, start, p) ==
  /\ cnt[te] = 0
  /\ cnt' = [cnt EXCEPT ![te] = start]
  /\ period' = [period EXCEPT ![te] = p]
  /\ List(te)
  /\ UNCHANGED <<ticking, posting>>

Disarm(te) ==
  /\ cnt' = [cnt EXCEPT ![te] = 0]
  /\ UNCHANGED <<period, listed, ticking, uncounted, posting>>

Rearm(te, time) ==
  /\ cnt' = [cnt EXCEPT ![te] = time]
  /\ List(te)
  /\ UNCHANGED <<period, ticking, posting>>

TickBegins ==
  /\ ~ticking
  /\ ticking' = TRUE
  /\ uncounted' = listed
  /\ UNCHANGED <<cnt, period, listed, posting>>

Expires(te) ==
  /\ cnt[te] = 1
  /\ cnt' = [cnt EXCEPT ![te] = period[te]]
  /\ listed' = IF period[te] = 0 THEN listed \ {te} ELSE listed
  /\ posting' = te

CountsDown(te) ==
  /\ cnt[te] > 1
  /\ cnt' = [cnt EXCEPT ![te] = @ - 1]
  /\ UNCHANGED <<listed, posting>>

Retires(te) ==
  /\ cnt[te] = 0
  /\ listed' = listed \ {te}
  /\ UNCHANGED <<cnt, posting>>

Attend(te) ==
  /\ ticking /\ posting = NULL /\ te \in uncounted
  /\ Expires(te) \/ CountsDown(te) \/ Retires(te)
  /\ uncounted' = uncounted \ {te}
  /\ UNCHANGED <<period, ticking>>

Post ==
  /\ posting # NULL
  /\ posting' = NULL
  /\ UNCHANGED <<cnt, period, listed, ticking, uncounted>>

TickEnds ==
  /\ ticking /\ posting = NULL /\ uncounted = {}
  /\ ticking' = FALSE
  /\ UNCHANGED <<cnt, period, listed, uncounted, posting>>

Next ==
  \/ \E te \in TimeEvent :
       \/ \E start \in Start : (\E p \in Period : Arm(te, start, p)) \/ Rearm(te, start)
       \/ Disarm(te) \/ Attend(te)
  \/ TickBegins \/ Post \/ TickEnds

Spec == Init /\ [][Next]_vars
=============================================================================
