---------------------------- MODULE EventLifecycle ----------------------------
(***************************************************************************)
(* The life of an event in the event driven framework: a block acquired    *)
(* from the pool (edf_event.c, edf_pool.c) is published, multicast,        *)
(* dispatched, deferred and recalled (edf_active_object.c), and returns to *)
(* the pool when its last reference is collected.  One step is one         *)
(* critical section of the code; active objects and outside publishers     *)
(* (interrupts, threads) interleave between them in any order.             *)
(***************************************************************************)
EXTENDS Naturals, SequencesExt

CONSTANTS
  Object,          \* the active objects, by priority
  Outsider,        \* publishers that are no active object
  PREEMPTS,        \* they are interrupts, which no active object interrupts
  Block,           \* the blocks of the pool
  Static,          \* immutable events, outside the pool
  QUEUE_LENGTH,    \* the capacity of an event queue and of a deferred queue
  MAX_ACTIVE_OBJECT,    \* EDF_MAX_ACTIVE_OBJECT, of the build's configuration
  NONE

REF_LIMIT == 2 * MAX_ACTIVE_OBJECT

ASSUME LifecycleAssumption ==
  /\ PREEMPTS \in BOOLEAN
  /\ MAX_ACTIVE_OBJECT \in Nat \ {0}
  /\ Object \subseteq 1..MAX_ACTIVE_OBJECT /\ Object \cap Outsider = {}
  /\ Block \cap Static = {} /\ NONE \notin Block \cup Static
  /\ IsFiniteSet(Outsider) /\ IsFiniteSet(Block)
  /\ QUEUE_LENGTH \in Nat \ {0}

Actor == Object \cup Outsider
Event == Block \cup Static

VARIABLES
  free,      \* the blocks of the pool's free list
  ref,       \* ref_cnt of each block
  queue,     \* the event queue of each object
  deferred,  \* its deferred-event queue
  current,   \* the event it dispatches
  pc,        \* where each actor is
  work,      \* the event its publish, recall or collection is about
  subs,      \* the subscribers its multicast has still to serve
  list,      \* the subscriber registry's entry of the events' signal
  failed     \* the assertion that stopped the program

vars == <<free, ref, queue, deferred, current, pc, work, subs, list, failed>>

Init ==
  /\ free = Block
  /\ ref = [b \in Block |-> 0]
  /\ queue = [o \in Object |-> <<>>]
  /\ deferred = [o \in Object |-> <<>>]
  /\ current = [o \in Object |-> NONE]
  /\ pc = [a \in Actor |-> "idle"]
  /\ work = [a \in Actor |-> NONE]
  /\ subs = [a \in Actor |-> {}]
  /\ list \in SUBSET Object   \* as the objects subscribed when they were started
  /\ failed = "no"

\* On a single core an interrupt's publication runs to its end; threads interleave.
MayRun(a) ==
  /\ failed = "no"
  /\ PREEMPTS /\ a \in Object => \A x \in Outsider : pc[x] = "idle"

Goto(a, label) == pc' = [pc EXCEPT ![a] = label]
Fail(reason) ==
  /\ failed' = reason
  /\ UNCHANGED <<free, ref, queue, deferred, current, pc, work, subs, list>>

\* Code that runs in a handler: an object's while it dispatches, an interrupt's own.
InHandler(a) == pc[a] = IF a \in Object THEN "handling" ELSE "idle"
HandlerLabel(a) ==
  IF a \in Object /\ current[a] # NONE THEN "handling" ELSE "idle"

-----------------------------------------------------------------------------
(* Allocation and publication. *)

\* EDF_pool_acquire(): the head of the free list, whose order nothing else depends on.
Acquire(b) == b \in free /\ free' = free \ {b}

\* EDF_event_initMutable(): an exhausted pool is an error.
Allocate(a) ==
  /\ MayRun(a) /\ InHandler(a)
  /\ IF free = {} THEN Fail("pool")
     ELSE \E b \in Block :
            /\ Acquire(b)
            /\ ref' = [ref EXCEPT ![b] = 0]
            /\ work' = [work EXCEPT ![a] = b]
            /\ Goto(a, "publish")
            /\ UNCHANGED <<queue, deferred, current, subs, list, failed>>

PublishStatic(a) ==
  /\ MayRun(a) /\ InHandler(a)
  /\ \E e \in Static : work' = [work EXCEPT ![a] = e]
  /\ Goto(a, "publish")
  /\ UNCHANGED <<free, ref, queue, deferred, current, subs, list, failed>>

\* One more, or one less, reference to e; immutable events are not counted.
Referenced(e) == IF e \in Block THEN [ref EXCEPT ![e] = @ + 1] ELSE ref
Released(e)   == IF e \in Block THEN [ref EXCEPT ![e] = @ - 1] ELSE ref
LimitHolds(e) == e \in Block => ref[e] < REF_LIMIT

\* Mutant: publishing takes no reference of its own.
BeginPublishUnguarded(a) ==
  /\ MayRun(a) /\ pc[a] = "publish"
  /\ subs' = [subs EXCEPT ![a] = list]
  /\ Goto(a, "multicast")
  /\ UNCHANGED <<free, ref, queue, deferred, current, work, list, failed>>

\* EDF_activeObject_publish(): the first critical section takes a reference that
\* lasts for the multicast, and copies the list, which may change meanwhile.
BeginPublish(a) ==
  /\ MayRun(a) /\ pc[a] = "publish"
  /\ IF ~LimitHolds(work[a]) THEN Fail("limit")
     ELSE /\ ref' = Referenced(work[a])
          /\ subs' = [subs EXCEPT ![a] = list]
          /\ Goto(a, "multicast")
          /\ UNCHANGED <<free, queue, deferred, current, work, list, failed>>

\* EDF_activeObject_postFIFO() to the highest-priority subscriber left.
PostNext(a) ==
  /\ MayRun(a) /\ pc[a] = "multicast"
  /\ \E o \in subs[a] :
       /\ \A other \in subs[a] : other <= o
       /\ IF Len(queue[o]) = QUEUE_LENGTH THEN Fail("queue")
          ELSE IF ~LimitHolds(work[a]) THEN Fail("limit")
          ELSE /\ ref' = Referenced(work[a])
               /\ queue' = [queue EXCEPT ![o] = Append(@, work[a])]
               /\ subs' = [subs EXCEPT ![a] = @ \ {o}]
               /\ UNCHANGED <<free, deferred, current, pc, work, list, failed>>

EndMulticast(a) ==
  /\ MayRun(a) /\ pc[a] = "multicast" /\ subs[a] = {}
  /\ Goto(a, "collect")
  /\ UNCHANGED <<free, ref, queue, deferred, current, work, subs, list, failed>>

-----------------------------------------------------------------------------
(* EDF_event_gc(): the decision and the release are two critical sections. *)

Collect(a) ==
  /\ MayRun(a) /\ pc[a] = "collect"
  /\ IF work[a] \in Block /\ ref[work[a]] <= 1
     THEN Goto(a, "release") /\ UNCHANGED <<ref, work>>
     ELSE /\ ref' = Released(work[a])
          /\ Goto(a, HandlerLabel(a))
          /\ work' = [work EXCEPT ![a] = NONE]
  /\ UNCHANGED <<free, queue, deferred, current, subs, list, failed>>

\* EDF_pool_release().
Release(a) ==
  /\ MayRun(a) /\ pc[a] = "release"
  /\ IF free = Block THEN Fail("release")
     ELSE /\ free' = free \cup {work[a]}
          /\ Goto(a, HandlerLabel(a))
          /\ work' = [work EXCEPT ![a] = NONE]
          /\ UNCHANGED <<ref, queue, deferred, current, subs, list, failed>>

-----------------------------------------------------------------------------
(* The active object: get, dispatch, defer, recall. *)

Take(o) ==
  /\ MayRun(o) /\ pc[o] = "idle" /\ queue[o] # <<>>
  /\ current' = [current EXCEPT ![o] = Head(queue[o])]
  /\ queue' = [queue EXCEPT ![o] = Tail(@)]
  /\ Goto(o, "handling")
  /\ UNCHANGED <<free, ref, deferred, work, subs, list, failed>>

\* EDF_activeObject_subscribe() and EDF_activeObject_unsubscribe(), for themselves or as
\* the round of their All variants that comes to this signal.
Subscribe(o) ==
  /\ MayRun(o) /\ InHandler(o)
  /\ o \notin list /\ list' = list \cup {o}
  /\ UNCHANGED <<free, ref, queue, deferred, current, pc, work, subs, failed>>
Unsubscribe(o) ==
  /\ MayRun(o) /\ InHandler(o)
  /\ o \in list /\ list' = list \ {o}
  /\ UNCHANGED <<free, ref, queue, deferred, current, pc, work, subs, failed>>

\* The handler has returned: the core collects the event.
EndDispatch(o) ==
  /\ MayRun(o) /\ pc[o] = "handling"
  /\ work' = [work EXCEPT ![o] = current[o]]
  /\ current' = [current EXCEPT ![o] = NONE]
  /\ Goto(o, "collect")
  /\ UNCHANGED <<free, ref, queue, deferred, subs, list, failed>>

\* EDF_activeObject_defer(); an application keeps an event deferred once.
Defer(o) ==
  /\ MayRun(o) /\ pc[o] = "handling"
  /\ current[o] \in Block => current[o] \notin ToSet(deferred[o])
  /\ IF Len(deferred[o]) = QUEUE_LENGTH THEN Fail("queue")
     ELSE IF ~LimitHolds(current[o]) THEN Fail("limit")
     ELSE /\ ref' = Referenced(current[o])
          /\ deferred' = [deferred EXCEPT ![o] = Append(@, current[o])]
          /\ UNCHANGED <<free, queue, current, pc, work, subs, list, failed>>

\* EDF_eventQueue_get() on the deferred queue, which leaves the reference standing.
TakeDeferred(o, label) ==
  /\ MayRun(o) /\ pc[o] = "handling" /\ deferred[o] # <<>>
  /\ work' = [work EXCEPT ![o] = Head(deferred[o])]
  /\ deferred' = [deferred EXCEPT ![o] = Tail(@)]
  /\ Goto(o, label)
  /\ UNCHANGED <<free, ref, queue, current, subs, list, failed>>

\* EDF_activeObject_recall(): three critical sections.  An application recalls what
\* it deferred in an earlier dispatch.
Recall(o) ==
  /\ deferred[o] # <<>> => Head(deferred[o]) # current[o]
  /\ TakeDeferred(o, "recall")

RecallPost(o) ==     \* EDF_activeObject_postLIFO()
  /\ MayRun(o) /\ pc[o] = "recall"
  /\ IF Len(queue[o]) = QUEUE_LENGTH THEN Fail("queue")
     ELSE IF ~LimitHolds(work[o]) THEN Fail("limit")
     ELSE /\ ref' = Referenced(work[o])
          /\ queue' = [queue EXCEPT ![o] = <<work[o]>> \o @]
          /\ Goto(o, "recalled")
          /\ UNCHANGED <<free, deferred, current, work, subs, list, failed>>

\* Mutant: the deferred queue's reference is never given back.
RecallKeepsReference(o) ==
  /\ MayRun(o) /\ pc[o] = "recalled"
  /\ Goto(o, "handling")
  /\ work' = [work EXCEPT ![o] = NONE]
  /\ UNCHANGED <<free, ref, queue, deferred, current, subs, list, failed>>

RecallRelease(o) ==
  /\ MayRun(o) /\ pc[o] = "recalled"
  /\ IF work[o] \in Block /\ ref[work[o]] < 2 THEN Fail("recall")
     ELSE /\ ref' = Released(work[o])
          /\ Goto(o, "handling")
          /\ work' = [work EXCEPT ![o] = NONE]
          /\ UNCHANGED <<free, queue, deferred, current, subs, list, failed>>

\* EDF_activeObject_flushDeferred(): one round of its loop.
Flush(o) == TakeDeferred(o, "collect")

-----------------------------------------------------------------------------
Next ==
  \/ \E a \in Actor :
       \/ Allocate(a) \/ PublishStatic(a) \/ BeginPublish(a) \/ PostNext(a)
       \/ EndMulticast(a) \/ Collect(a) \/ Release(a)
  \/ \E o \in Object :
       \/ Take(o) \/ Subscribe(o) \/ Unsubscribe(o) \/ EndDispatch(o) \/ Defer(o)
       \/ Recall(o) \/ RecallPost(o) \/ RecallRelease(o) \/ Flush(o)

Spec == Init /\ [][Next]_vars

-----------------------------------------------------------------------------
(* Properties *)

TypeOK ==
  /\ free \subseteq Block
  /\ ref \in [Block -> Nat]
  /\ queue \in [Object -> Seq(Event)]
  /\ deferred \in [Object -> Seq(Event)]
  /\ \A o \in Object : Len(queue[o]) <= QUEUE_LENGTH /\ Len(deferred[o]) <= QUEUE_LENGTH
  /\ current \in [Object -> Event \cup {NONE}]
  /\ pc \in [Actor -> {"idle", "handling", "publish", "multicast", "collect",
                       "release", "recall", "recalled"}]
  /\ work \in [Actor -> Event \cup {NONE}]
  /\ subs \in [Actor -> SUBSET Object]
  /\ list \subseteq Object
  /\ failed \in {"no", "pool", "queue", "limit", "recall", "release"}

\* Where an event lies in the queues of the objects.
Positions(queues, e) ==
  {p \in Object \X (1..QUEUE_LENGTH) : p[2] \in DOMAIN queues[p[1]] /\ queues[p[1]][p[2]] = e}

\* The references an event has: queued, deferred, being dispatched, or in the hands
\* of a publish, a recall or a collection.
InHand(e) == {a \in Actor : work[a] = e /\ pc[a] # "publish"}
Dispatching(e) == {o \in Object : current[o] = e}
Holders(e) ==
  Cardinality(InHand(e)) + Cardinality(Dispatching(e))
    + Cardinality(Positions(queue, e)) + Cardinality(Positions(deferred, e))

\* The count of every block in use is the number of references to it, between any
\* two critical sections of any actors.
RefCountsHolders == \A b \in Block \ free : ref[b] = Holders(b)

\* The reference-count assertions of publish, post, recall and release never fail.
CountAssertionsHold == failed \notin {"limit", "recall", "release"}

\* A block in the free list is in nobody's hands: nothing uses an event after its
\* release, and no block is released twice.
FreeBlocksAreUnheld ==
  \A b \in free : Holders(b) = 0 /\ \A a \in Actor : work[a] # b

\* A block that is not in the free list is in somebody's hands: none leaks.
NoBlockLeaks ==
  \A b \in Block \ free : Holders(b) > 0 \/ \E a \in Actor : work[a] = b

\* Counts say what they are kept for, whoever is between two critical sections: how
\* many references there are, never more or fewer than the assertions allow.
CountsAreExact == RefCountsHolders /\ CountAssertionsHold

\* A block is either free or in somebody's hands, never both and never neither.
BlocksAreAccounted == FreeBlocksAreUnheld /\ NoBlockLeaks

=============================================================================
