----------------------------- MODULE EventQueue -----------------------------
(***************************************************************************)
(* The event queue of the Event Driven Framework (EDF):                    *)
(* sw/ecf/event_driven_framework/src/framework/src/edf_event_queue.c.      *)
(* One entry, front_e, sits outside the ring buffer, so a queue            *)
(* initialised with q_len storage entries holds q_len + 1 events.  The     *)
(* ring runs counter-clockwise: head is where the next FIFO post writes,   *)
(* tail is where the event behind the front one is read.                   *)
(*                                                                         *)
(* Every operation is one critical section of the code, hence one action.  *)
(* EDF_activeObject_postFIFO/postLIFO/get (edf_active_object.c) repeat the *)
(* same code for the queue of an active object.                            *)
(***************************************************************************)
EXTENDS Integers, Sequences

CONSTANTS
  Event,    (* the events that can be queued                               *)
  NO_EVENT, (* the null pointer                                            *)
  Lengths   (* the q_len values EDF_eventQueue_init may be given           *)

ASSUME NullAssumption == NO_EVENT \notin Event
ASSUME LengthsAssumption == Lengths \subseteq Nat

VARIABLES
  front_e,  (* event at the front of the queue, or NO_EVENT                *)
  ring,     (* ring buffer storage                                         *)
  end,      (* number of storage entries                                   *)
  head,     (* where the next FIFO post inserts                            *)
  tail,     (* where the next event is taken from                          *)
  n_free,   (* free entries, front_e included                              *)
  n_min,    (* least value n_free ever had                                 *)
  ret,      (* what the last EDF_eventQueue_get returned                   *)
  failed    (* EAF_ERROR was reached: the error handler never returns      *)

queueVars == <<front_e, ring, end, head, tail, n_free, n_min, ret, failed>>

(* Positions of the ring; a queue without storage has none, and its        *)
(* indices stay at 0.                                                      *)
Slots == 0 .. end - 1

(* EDF_eventQueue_init; the storage arrays are static, so they start null. *)
QueueInit ==
  /\ end \in Lengths
  /\ ring = [i \in Slots |-> NO_EVENT]
  /\ front_e = NO_EVENT
  /\ head = 0
  /\ tail = 0
  /\ n_free = end + 1
  /\ n_min = n_free
  /\ ret = NO_EVENT
  /\ failed = FALSE

-----------------------------------------------------------------------------
(* Mutants: plausible slips in the index arithmetic below.                 *)

PrevSlotFromEnd(i)   == IF i = 0 THEN end ELSE i - 1
UpdateMinStale(free) == n_min' = n_min

-----------------------------------------------------------------------------
(* The counter-clockwise neighbour: "if (i == 0U) i = end; i--;".          *)
PrevSlot(i) == IF i = 0 THEN end - 1 ELSE i - 1

(* The clockwise neighbour: "i++; if (i == end) i = 0U;".                  *)
NextSlot(i) == IF i + 1 = end THEN 0 ELSE i + 1

(* "if (n_min > n_free) n_min = n_free;" after the entry is reserved.      *)
UpdateMin(free) == n_min' = IF n_min > free THEN free ELSE n_min

(* One entry is taken from the free ones, and the minimum follows.         *)
Reserve ==
  /\ ~failed
  /\ n_free > 0
  /\ n_free' = n_free - 1
  /\ UpdateMin(n_free - 1)

(* EDF_eventQueue_postFIFO, the queue can accept the event.                *)
PostFIFO(e) ==
  /\ Reserve
  /\ \/ /\ front_e = NO_EVENT
        /\ front_e' = e
        /\ UNCHANGED <<ring, head>>
     \/ /\ front_e # NO_EVENT
        /\ ring' = [ring EXCEPT ![head] = e]
        /\ head' = PrevSlot(head)
        /\ UNCHANGED front_e
  /\ UNCHANGED <<end, tail, ret, failed>>

(* EDF_eventQueue_postLIFO, the queue can accept the event.                *)
PostLIFO(e) ==
  /\ Reserve
  /\ front_e' = e
  /\ \/ /\ front_e = NO_EVENT
        /\ UNCHANGED <<ring, tail>>
     \/ /\ front_e # NO_EVENT
        /\ tail' = NextSlot(tail)
        /\ ring' = [ring EXCEPT ![NextSlot(tail)] = front_e]
  /\ UNCHANGED <<end, head, ret, failed>>

(* Either post on a full queue: EAF_ERROR_IN_CRITICAL_SECTION().           *)
PostOverflow ==
  /\ ~failed
  /\ n_free = 0
  /\ failed' = TRUE
  /\ UNCHANGED <<front_e, ring, end, head, tail, n_free, n_min, ret>>

(* "n_free <= end" once the front entry has been counted as free.          *)
HasRingEvent == n_free + 1 <= end

(* EDF_eventQueue_get; the two assertions of the code are                  *)
(* RingConsistent below.                                                   *)
Get ==
  /\ ~failed
  /\ ret' = front_e
  /\ \/ /\ front_e = NO_EVENT
        /\ UNCHANGED <<front_e, tail, n_free>>
     \/ /\ front_e # NO_EVENT
        /\ n_free' = n_free + 1
        /\ \/ /\ HasRingEvent
              /\ front_e' = ring[tail]
              /\ tail' = PrevSlot(tail)
           \/ /\ ~HasRingEvent
              /\ front_e' = NO_EVENT
              /\ UNCHANGED tail
  /\ UNCHANGED <<ring, end, head, n_min, failed>>

QueueNext ==
  \/ \E e \in Event : PostFIFO(e) \/ PostLIFO(e)
  \/ PostOverflow
  \/ Get

QueueSpec == QueueInit /\ [][QueueNext]_queueVars

-----------------------------------------------------------------------------
QueueTypeOK ==
  /\ end \in Lengths
  /\ front_e \in Event \cup {NO_EVENT}
  /\ ring \in [Slots -> Event \cup {NO_EVENT}]
  /\ head \in Slots \cup {0}
  /\ tail \in Slots \cup {0}
  /\ n_free \in 0 .. end + 1
  /\ n_min \in 0 .. end + 1
  /\ ret \in Event \cup {NO_EVENT}
  /\ failed \in BOOLEAN

(* Number of events in the ring, the front one excluded.                   *)
InRing == IF front_e = NO_EVENT THEN 0 ELSE end - n_free

(* The position k steps counter-clockwise of tail, 0 <= k <= end.          *)
Behind(k) == IF k <= tail THEN tail - k ELSE tail - k + end

(* The bookkeeping agrees with itself: the queue is empty exactly when     *)
(* every entry is free, the head is as many positions behind the tail as   *)
(* the ring holds events, and each of those positions holds one.  The two  *)
(* assertions in EDF_eventQueue_get can therefore never fail.              *)
RingConsistent ==
  /\ (front_e = NO_EVENT) <=> (n_free = end + 1)
  /\ end > 0 => head = Behind(InRing)
  /\ \A k \in 0 .. InRing - 1 : ring[Behind(k)] # NO_EVENT
  /\ n_min <= n_free

(* Every access falls inside the ring, and what is accessed is there.      *)
QueueIsSound == QueueTypeOK /\ RingConsistent

(* The queued events in the order in which they will leave.                *)
Contents ==
  [i \in 1 .. end + 1 - n_free |-> IF i = 1 THEN front_e ELSE ring[Behind(i - 2)]]

Deque == INSTANCE BoundedDeque
           WITH cap <- end + 1, q <- Contents, low <- n_min

(* The ring buffer, with any mix of FIFO and LIFO posts and gets and any   *)
(* storage length (0 included), is a bounded deque.                        *)
ImplementsDeque == Deque!Spec
=============================================================================
