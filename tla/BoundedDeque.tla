---------------------------- MODULE BoundedDeque ----------------------------
(***************************************************************************)
(* What an EDF event queue promises its clients: a bounded double-ended    *)
(* queue.  Events posted FIFO leave last, events posted LIFO leave first,  *)
(* nothing is lost, duplicated or reordered, a post to a full queue is a   *)
(* fatal error, and the low-water mark of the free entries is exact.       *)
(***************************************************************************)
EXTENDS Integers, Sequences

CONSTANTS
  Event,    (* the events that can be queued                               *)
  NO_EVENT, (* "no event"                                                  *)
  Lengths   (* the ring lengths the queue may be initialised with          *)

VARIABLES
  cap,      (* number of events the queue can hold                         *)
  q,        (* the queued events, the next one to leave first              *)
  low,      (* the least number of free entries there ever was             *)
  ret,      (* the event the last Take delivered                           *)
  failed    (* a post was refused: the program has stopped                 *)

vars == <<cap, q, low, ret, failed>>

Init ==
  /\ cap \in {n + 1 : n \in Lengths}
  /\ q = <<>>
  /\ low = cap
  /\ ret = NO_EVENT
  /\ failed = FALSE

Lower(free) == low' = IF free < low THEN free ELSE low

PostBack(e) ==
  /\ ~failed
  /\ Len(q) < cap
  /\ q' = Append(q, e)
  /\ Lower(cap - Len(q) - 1)
  /\ UNCHANGED <<cap, ret, failed>>

PostFront(e) ==
  /\ ~failed
  /\ Len(q) < cap
  /\ q' = <<e>> \o q
  /\ Lower(cap - Len(q) - 1)
  /\ UNCHANGED <<cap, ret, failed>>

Refuse ==
  /\ ~failed
  /\ Len(q) = cap
  /\ failed' = TRUE
  /\ UNCHANGED <<cap, q, low, ret>>

Take ==
  /\ ~failed
  /\ q # <<>>
  /\ ret' = Head(q)
  /\ q' = Tail(q)
  /\ UNCHANGED <<cap, low, failed>>

TakeNothing ==
  /\ ~failed
  /\ q = <<>>
  /\ ret' = NO_EVENT
  /\ UNCHANGED <<cap, q, low, failed>>

Next ==
  \/ \E e \in Event : PostBack(e) \/ PostFront(e)
  \/ Refuse
  \/ Take
  \/ TakeNothing

Spec == Init /\ [][Next]_vars
=============================================================================
