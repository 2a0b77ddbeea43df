------------------------------ MODULE TimeEvent ------------------------------
(***************************************************************************)
(* The time events of EDF (edf_time_event.c), those of one tick rate.      *)
(* They hang on two singly linked lists: the armed one, which only the     *)
(* tick changes, and the new one, to which they are linked when armed.     *)
(* The tick leaves its critical section after each time event, so another  *)
(* context may arm, disarm or re-arm any of them between two steps of its  *)
(* walk, also between the expiration of one and the post that follows.     *)
(* Each action is one critical section of the code.                        *)
(***************************************************************************)
EXTENDS Naturals

CONSTANTS
  TimeEvent,  \* the time events
  Start,      \* the times they are armed with (EDF_timeEvent_cnt_t, not 0)
  Period,     \* the periods they are armed with, 0 for one-shot
  ARMED_HEAD, NEW_HEAD, \* the two list heads, registry->armed_head and registry->new_head
  NULL        \* the null pointer

ASSUME TimeEventAssumption ==
  /\ Start \subseteq Nat \ {0} /\ Period \subseteq Nat
  /\ ARMED_HEAD # NEW_HEAD /\ NULL \notin TimeEvent /\ TimeEvent \cap {ARMED_HEAD, NEW_HEAD} = {}

\* Where a pointer to a time event is stored: a head, or the next field of another.
Link == TimeEvent \cup {ARMED_HEAD, NEW_HEAD}

VARIABLES
  cnt, period, is_linked,  \* the fields of the time events,
  next,       \* and the pointers: of a list head, what it points to
  pc,         \* the tick: "idle", "walk", or "post" between expiration and post
  te_link,    \* the link the walk has come to
  posting     \* the time event to post, or NULL

vars == <<cnt, period, is_linked, next, pc, te_link, posting>>

Init ==
  /\ cnt = [te \in TimeEvent |-> 0]
  /\ period = [te \in TimeEvent |-> 0]
  /\ is_linked = [te \in TimeEvent |-> FALSE]
  /\ next = [l \in Link |-> NULL]
  /\ pc = "idle" /\ te_link = ARMED_HEAD /\ posting = NULL

-----------------------------------------------------------------------------
(* The contexts that use the time events. *)

\* Mutant: a time event that hangs on a list already is linked again.
LinkAlways(te) ==
  /\ is_linked' = [is_linked EXCEPT ![te] = TRUE]
  /\ next' = [next EXCEPT ![te] = next[NEW_HEAD], ![NEW_HEAD] = te]

\* Unless it hangs on a list, the time event becomes the first of the new one.
LinkNew(te) ==
  IF is_linked[te] THEN UNCHANGED <<is_linked, next>>
  ELSE /\ is_linked' = [is_linked EXCEPT ![te] = TRUE]
       /\ next' = [next EXCEPT ![te] = next[NEW_HEAD], ![NEW_HEAD] = te]

\* EDF_timeEvent_arm(), which asserts that the time event is disarmed.
Arm(te, start, p) ==
  /\ cnt[te] = 0
  /\ cnt' = [cnt EXCEPT ![te] = start]
  /\ period' = [period EXCEPT ![te] = p]
  /\ LinkNew(te)
  /\ UNCHANGED <<pc, te_link, posting>>

\* EDF_timeEvent_disarm(): the next tick will unlink it.
Disarm(te) ==
  /\ cnt' = [cnt EXCEPT ![te] = 0]
  /\ UNCHANGED <<period, is_linked, next, pc, te_link, posting>>

\* Mutant: a time event that was disarmed is not linked.
RearmUnlinked(te, time) ==
  /\ cnt' = [cnt EXCEPT ![te] = time]
  /\ UNCHANGED <<period, is_linked, next, pc, te_link, posting>>

\* EDF_timeEvent_rearm(): the period stays what it was.
Rearm(te, time) ==
  /\ cnt' = [cnt EXCEPT ![te] = time]
  /\ IF cnt[te] = 0 THEN LinkNew(te) ELSE UNCHANGED <<is_linked, next>>
  /\ UNCHANGED <<period, pc, te_link, posting>>

-----------------------------------------------------------------------------
(* EDF_timeEvent_tick() *)

TickBegins ==
  /\ pc = "idle"
  /\ pc' = "walk"
  /\ te_link' = ARMED_HEAD
  /\ UNCHANGED <<cnt, period, is_linked, next, posting>>

\* At the end of the list the new one is attached.
Attached ==
  IF next[te_link] = NULL
  THEN [next EXCEPT ![te_link] = next[NEW_HEAD], ![NEW_HEAD] = NULL]
  ELSE next

\* Mutant: the walk goes on from the time event it has just unlinked.
UnlinkAndAdvance(te) ==
  /\ next' = [Attached EXCEPT ![te_link] = next[te]]
  /\ is_linked' = [is_linked EXCEPT ![te] = FALSE]
  /\ te_link' = te

Unlink(te) ==
  /\ next' = [Attached EXCEPT ![te_link] = next[te]]
  /\ is_linked' = [is_linked EXCEPT ![te] = FALSE]
  /\ UNCHANGED te_link

Advance(te) ==
  /\ next' = Attached
  /\ te_link' = te
  /\ UNCHANGED is_linked

\* Mutant: a disarmed time event is marked unlinked, but stays on its list.
RetiresInPlace(te) ==
  /\ cnt[te] = 0
  /\ next' = Attached /\ is_linked' = [is_linked EXCEPT ![te] = FALSE]
  /\ UNCHANGED <<cnt, pc, posting, te_link>>

Retires(te) ==
  /\ cnt[te] = 0
  /\ Unlink(te)
  /\ UNCHANGED <<cnt, pc, posting>>

\* Mutant: the reload is one tick too long.
ExpiresReloadsLate(te) ==
  /\ cnt[te] = 1
  /\ cnt' = [cnt EXCEPT ![te] = IF period[te] = 0 THEN 0 ELSE period[te] + 1]
  /\ IF period[te] = 0 THEN Unlink(te) ELSE Advance(te)
  /\ pc' = "post" /\ posting' = te

Expires(te) ==
  /\ cnt[te] = 1
  /\ cnt' = [cnt EXCEPT ![te] = period[te]]
  /\ IF period[te] = 0 THEN Unlink(te) ELSE Advance(te)
  /\ pc' = "post" /\ posting' = te

CountsDown(te) ==
  /\ cnt[te] > 1
  /\ cnt' = [cnt EXCEPT ![te] = @ - 1]
  /\ Advance(te)
  /\ UNCHANGED <<pc, posting>>

\* One round of the loop.
Visit(te) ==
  /\ pc = "walk"
  /\ te = Attached[te_link]
  /\ Retires(te) \/ Expires(te) \/ CountsDown(te)
  /\ UNCHANGED period

\* EDF_activeObject_postFIFO(), outside the critical section of the tick.
Post ==
  /\ pc = "post"
  /\ pc' = "walk" /\ posting' = NULL
  /\ UNCHANGED <<cnt, period, is_linked, next, te_link>>

TickEnds ==
  /\ pc = "walk"
  /\ Attached[te_link] = NULL
  /\ pc' = "idle"
  /\ UNCHANGED <<cnt, period, is_linked, next, te_link, posting>>

-----------------------------------------------------------------------------
Uses(te) ==
  \/ \E start \in Start : (\E p \in Period : Arm(te, start, p)) \/ Rearm(te, start)
  \/ Disarm(te)

Tick == TickBegins \/ (\E te \in TimeEvent : Visit(te)) \/ Post \/ TickEnds

Next == Tick \/ \E te \in TimeEvent : Uses(te)

Spec == Init /\ [][Next]_vars

\* The tick is called periodically, and a call goes on.
FairSpec == Spec /\ WF_vars(Tick)

-----------------------------------------------------------------------------
(* Properties *)

\* What hangs on a link: what it points to, what that points to, and so on.
Follows(l, chain) == \A m \in {l} \cup chain : next[m] # NULL => next[m] \in chain
Reached(l) == {te \in TimeEvent : \A chain \in SUBSET TimeEvent : Follows(l, chain) => te \in chain}

TypeOK ==
  /\ cnt \in [TimeEvent -> {0} \cup UNION {0..n : n \in Start \cup Period}]
  /\ period \in [TimeEvent -> {0} \cup Period]
  /\ is_linked \in [TimeEvent -> BOOLEAN]
  /\ next \in [Link -> TimeEvent \cup {NULL}]
  /\ pc \in {"idle", "walk", "post"}
  /\ te_link \in TimeEvent \cup {ARMED_HEAD}
  /\ posting \in TimeEvent \cup {NULL} /\ (posting # NULL <=> pc = "post")

\* The lists stay lists: no two pointers lead to one time event, is_linked tells who
\* hangs on one, and the link the walk stopped at is still on the armed list when it
\* goes on, whatever was armed or disarmed meanwhile.
ListsAreSound ==
  /\ \A l, m \in {l \in Link : l \in {ARMED_HEAD, NEW_HEAD} \/ is_linked[l]} :
       next[l] = next[m] /\ next[l] # NULL => l = m
  /\ Reached(ARMED_HEAD) \cap Reached(NEW_HEAD) = {}
  /\ Reached(ARMED_HEAD) \cup Reached(NEW_HEAD) = {te \in TimeEvent : is_linked[te]}
  /\ pc # "idle" => te_link \in {ARMED_HEAD} \cup Reached(ARMED_HEAD)

\* An armed time event hangs on a list: none is forgotten.
ArmedIsLinked == \A te \in TimeEvent : cnt[te] # 0 => is_linked[te]

\* A call of the tick counts each time event once per linking: once if it hangs on a list
\* when the call begins, and once more for each time it is linked while the call runs.  One
\* that is disarmed and armed again without leaving its list is counted once; a one-shot
\* that expires, or one that the call has retired, and is armed again before the call ends
\* hangs on the new list and is counted a second time, a tick too early
\* (edf_time_event.c:270-318).
Counts == INSTANCE Countdown
            WITH listed <- {te \in TimeEvent : is_linked[te]},
                 ticking <- pc # "idle",
                 uncounted <- IF pc = "idle" THEN {} ELSE Reached(te_link) \cup Reached(NEW_HEAD)
CountsOncePerLinking == Counts!Spec

\* A call of the tick returns, however time events that hang on a list are disarmed and
\* re-armed while it runs: only linking others again and again can hold it.
TickReturns ==
  (<>[][\A te \in TimeEvent : is_linked'[te] => is_linked[te]]_vars)
    => (pc # "idle" ~> pc = "idle")

\* As long as the calls of the tick return, an armed time event that is not re-armed for
\* ever expires or is disarmed, whatever becomes of the others.
ArmedExpires ==
  \A te \in TimeEvent :
    []<>(pc = "idle") /\ <>[][\A time \in Start : ~Rearm(te, time)]_vars
      => (cnt[te] # 0 ~> cnt[te] = 0 \/ posting = te)

\* Both: nothing that is armed waits for ever.
TimeGoesOn == TickReturns /\ ArmedExpires
=============================================================================
