--------------------------- MODULE PreemptiveKernel ---------------------------
(***************************************************************************)
(* The preemptive scheduler of the bare-metal Cortex-M core (edf_core.c,   *)
(* edf_core.h, edf_core.S).  One stack serves everything: activating an    *)
(* object pushes a frame on the thread it preempts, the idle thread at the *)
(* bottom.  One step is one critical section; an interrupt may come        *)
(* between any two.  Events are only counted.                              *)
(***************************************************************************)
EXTENDS Naturals, SequencesExt, Bitmask

CONSTANTS
  MAX_ACTIVE_OBJECT,  \* EDF_MAX_ACTIVE_OBJECT
  Object,             \* the registered active objects, by priority
  pthre,              \* the preemption threshold of each
  MAX_POSTS           \* bound: events posted in a behaviour (a publication counts at its start)

NOT_LOCKED == 255     \* EDF_CORE_SCHED_NOT_LOCKED

\* EDF_activeObject_register(): what its assertions make sure of once all are registered.
ThresholdsAreConsistent ==
  /\ \A o \in Object : o <= pthre[o]
  /\ \A o, p \in Object : o <= p => pthre[o] <= pthre[p]

\* EDF_init() locks with MAX_ACTIVE_OBJECT + 1, which lock_ceiling, an octet, must hold.
ASSUME KernelAssumption ==
  /\ MAX_ACTIVE_OBJECT \in Nat /\ MAX_ACTIVE_OBJECT + 1 <= 255 /\ MAX_POSTS \in Nat
  /\ Object \subseteq 1..MAX_ACTIVE_OBJECT
  /\ pthre \in [Object -> 1..MAX_ACTIVE_OBJECT]
  /\ ThresholdsAreConsistent

VARIABLES
  ready_set, active_priority, next_priority,      \* EDF_core
  active_preemption_threshold, lock_ceiling,
  queued,        \* the events in each object's queue
  stack,         \* the threads, the running one last
  running,       \* EDF_run() has started the scheduler
  isr,           \* an interrupt is being served
  pendsv,        \* PendSV is pending
  posts          \* events posted so far (bounded by MAX_POSTS)

EDF_core == <<ready_set, active_priority, next_priority,
              active_preemption_threshold, lock_ceiling>>
vars == <<EDF_core, queued, stack, running, isr, pendsv, posts>>

\* A thread: the object it runs (0: main and idle), what it is doing, whom it
\* publishes to and who is left, the lock it took for that, and what
\* EDF_core_activate() restores.
Frame(o, pc, prio_in, pthre_in) ==
  [ao |-> o, pc |-> pc, addressed |-> {}, subs |-> {}, sched_status |-> NOT_LOCKED,
   prio_in |-> prio_in, pthre_in |-> pthre_in]

Depth == Len(stack)
Top == stack[Depth]
SetTop(frame) == [stack EXCEPT ![Depth] = frame]

\* EDF_init() and the starting of the objects: the scheduler is locked.
Init ==
  /\ ready_set = {} /\ active_priority = 0 /\ next_priority = 0
  /\ active_preemption_threshold = 0
  /\ lock_ceiling = MAX_ACTIVE_OBJECT + 1
  /\ queued = [o \in Object |-> 0]
  /\ stack = <<Frame(0, "handling", 0, 0)>>
  /\ running = FALSE /\ isr = FALSE /\ pendsv = FALSE
  /\ posts = 0

-----------------------------------------------------------------------------
(* The scheduler's decisions. *)

\* The priority that may run over a threshold and a lock, 0 for none.  Of what is ready
\* only what the bitmask search finds is considered.
Eligible(ready, threshold, ceiling) ==
  IF FindMax(ready) <= threshold \/ FindMax(ready) <= ceiling THEN 0 ELSE FindMax(ready)

\* EDF_core_schedule()
Schedule(ready, ceiling) == Eligible(ready, active_preemption_threshold, ceiling)

\* Mutant: an activation takes the priority it preempts for its threshold.
ActivateOverPriority(next_prio, threads) ==
  /\ active_priority' = next_prio
  /\ active_preemption_threshold' = pthre[next_prio]
  /\ next_priority' = 0
  /\ stack' = Append(threads, Frame(next_prio, "get", active_priority, active_priority))

\* EDF_core_activate(), to its first EBF_CRITICAL_SECTION_EXIT().
Activate(next_prio, threads) ==
  /\ active_priority' = next_prio
  /\ active_preemption_threshold' = pthre[next_prio]
  /\ next_priority' = 0
  /\ stack' = Append(threads,
       Frame(next_prio, "get", active_priority,
             IF active_priority = 0 THEN 0 ELSE pthre[active_priority]))

\* In a thread, a scheduling decision is acted on at once.
ScheduleAndActivate(ready, ceiling, threads) ==
  IF Schedule(ready, ceiling) # 0
  THEN Activate(Schedule(ready, ceiling), threads)
  ELSE /\ stack' = threads
       /\ UNCHANGED <<active_priority, active_preemption_threshold, next_priority>>

-----------------------------------------------------------------------------
(* Threads. *)

ThreadRuns == ~isr /\ ~pendsv

\* EDF_CORE_NOTIFY_EVENT() in a thread.
Notify(o, threads) ==
  /\ ready_set' = ready_set \cup {o}
  /\ ScheduleAndActivate(ready_set \cup {o}, lock_ceiling, threads)

\* The post of an event by a thread: only an empty queue notifies.
PostFrom(o, threads) ==
  /\ queued' = [queued EXCEPT ![o] = @ + 1]
  /\ IF queued[o] = 0
     THEN Notify(o, threads)
     ELSE /\ stack' = threads
          /\ UNCHANGED <<ready_set, active_priority, next_priority,
                         active_preemption_threshold>>
  /\ UNCHANGED <<lock_ceiling, running, isr, pendsv>>

Post(o) ==
  /\ ThreadRuns /\ Top.pc = "handling" /\ posts < MAX_POSTS
  /\ posts' = posts + 1
  /\ PostFrom(o, stack)

\* EDF_activeObject_publish() to subscribers S, up to EDF_core_lockScheduler().
PublishLocks(S) ==
  /\ ThreadRuns /\ Top.pc = "handling" /\ posts + Cardinality(S) <= MAX_POSTS
  /\ posts' = posts + Cardinality(S)
  /\ LET raise == FindMax(S) > lock_ceiling IN
       /\ lock_ceiling' = IF raise THEN FindMax(S) ELSE lock_ceiling
       /\ stack' = SetTop([Top EXCEPT
            !.pc = "multicast", !.addressed = S, !.subs = S,
            !.sched_status = IF raise THEN lock_ceiling ELSE NOT_LOCKED])
  /\ UNCHANGED <<ready_set, active_priority, next_priority,
                 active_preemption_threshold, queued, running, isr, pendsv>>

\* EDF_activeObject_postFIFO() to the subscriber that the bitmask search finds next.
PublishPosts ==
  /\ ThreadRuns /\ Top.pc = "multicast" /\ Top.subs # {}
  /\ LET o == FindMax(Top.subs) IN
       PostFrom(o, SetTop([Top EXCEPT !.subs = @ \ {o}]))
  /\ UNCHANGED posts

\* Mutant: unlocking does not look for the objects the lock has held back.
UnlockWithoutSchedule ==
  /\ ThreadRuns /\ Top.pc = "multicast" /\ Top.subs = {}
  /\ lock_ceiling' = IF Top.sched_status = NOT_LOCKED THEN lock_ceiling
                     ELSE Top.sched_status
  /\ stack' = SetTop([Top EXCEPT !.pc = "handling", !.addressed = {},
                                 !.sched_status = NOT_LOCKED])
  /\ UNCHANGED <<ready_set, active_priority, next_priority,
                 active_preemption_threshold, queued, running, isr, pendsv, posts>>

\* EDF_core_unlockScheduler(), when the publication has raised the lock.
PublishUnlocks ==
  /\ ThreadRuns /\ Top.pc = "multicast" /\ Top.subs = {}
  /\ LET done == SetTop([Top EXCEPT !.pc = "handling", !.addressed = {},
                                 !.sched_status = NOT_LOCKED])
     IN IF Top.sched_status = NOT_LOCKED
        THEN /\ stack' = done
             /\ UNCHANGED EDF_core
        ELSE /\ lock_ceiling' = Top.sched_status
             /\ ScheduleAndActivate(ready_set, Top.sched_status, done)
             /\ UNCHANGED ready_set
  /\ UNCHANGED <<queued, running, isr, pendsv, posts>>

\* EDF_activeObject_get()
Get ==
  /\ ThreadRuns /\ Top.pc = "get" /\ queued[Top.ao] > 0
  /\ queued' = [queued EXCEPT ![Top.ao] = @ - 1]
  /\ stack' = SetTop([Top EXCEPT !.pc = "handling"])
  /\ UNCHANGED <<EDF_core, running, isr, pendsv, posts>>

\* Mutant: an object that has run is no longer ready, whatever its queue holds.
ReadyAfterCleared(o) == ready_set \ {o}

ReadyAfter(o) == IF queued[o] = 0 THEN ready_set \ {o} ELSE ready_set

\* The handler has returned: EDF_core_scheduleAfter() and the rest of the loop of
\* EDF_core_activate().
EndDispatch ==
  /\ ThreadRuns /\ Top.pc = "handling" /\ Top.ao # 0
  /\ ready_set' = ReadyAfter(Top.ao)
  /\ LET next_prio == Eligible(ReadyAfter(Top.ao), Top.pthre_in, lock_ceiling) IN
       IF next_prio # 0
       THEN /\ active_priority' = next_prio
            /\ active_preemption_threshold' = pthre[next_prio]
            /\ stack' = SetTop(Frame(next_prio, "get", Top.prio_in, Top.pthre_in))
       ELSE /\ active_priority' = Top.prio_in
            /\ active_preemption_threshold' = Top.pthre_in
            /\ stack' = Front(stack)
  /\ UNCHANGED <<next_priority, lock_ceiling, queued, running, isr, pendsv, posts>>

\* EDF_run(), after EDF_onStartup().
Run ==
  /\ ThreadRuns /\ ~running /\ Top.pc = "handling"
  /\ running' = TRUE
  /\ lock_ceiling' = 0
  /\ ScheduleAndActivate(ready_set, 0, stack)
  /\ UNCHANGED <<ready_set, queued, isr, pendsv, posts>>

-----------------------------------------------------------------------------
(* Interrupts. *)

IsrEnters ==
  /\ ~isr /\ posts < MAX_POSTS
  /\ isr' = TRUE
  /\ UNCHANGED <<EDF_core, queued, stack, running, pendsv, posts>>

\* A post in an interrupt only marks the object ready.
IsrPosts(o) ==
  /\ isr /\ posts < MAX_POSTS
  /\ posts' = posts + 1
  /\ queued' = [queued EXCEPT ![o] = @ + 1]
  /\ ready_set' = IF queued[o] = 0 THEN ready_set \cup {o} ELSE ready_set
  /\ UNCHANGED <<active_priority, next_priority, active_preemption_threshold,
                 lock_ceiling, stack, running, isr, pendsv>>

\* Mutant: with PendSV pending already, the decision stands.
IsrExitsOnce ==
  /\ isr
  /\ isr' = FALSE
  /\ LET prio == Schedule(ready_set, lock_ceiling) IN
       IF prio # 0 /\ ~pendsv
       THEN next_priority' = prio /\ pendsv' = TRUE
       ELSE UNCHANGED <<next_priority, pendsv>>
  /\ UNCHANGED <<ready_set, active_priority, active_preemption_threshold,
                 lock_ceiling, queued, stack, running, posts>>

\* EDF_ISRExit()
IsrExits ==
  /\ isr
  /\ isr' = FALSE
  /\ LET prio == Schedule(ready_set, lock_ceiling) IN
       IF prio # 0
       THEN next_priority' = prio /\ pendsv' = TRUE
       ELSE UNCHANGED <<next_priority, pendsv>>
  /\ UNCHANGED <<ready_set, active_priority, active_preemption_threshold,
                 lock_ceiling, queued, stack, running, posts>>

\* PendSV_Handler, which returns into EDF_core_activate() on the preempted thread.
PendSV ==
  /\ pendsv /\ ~isr
  /\ pendsv' = FALSE
  /\ Activate(next_priority, stack)
  /\ UNCHANGED <<ready_set, lock_ceiling, queued, running, isr, posts>>

-----------------------------------------------------------------------------
Thread ==
  \/ \E o \in Object : Post(o)
  \/ \E S \in (SUBSET Object) \ {{}} : PublishLocks(S)
  \/ PublishPosts \/ PublishUnlocks
  \/ Get \/ EndDispatch \/ Run

Next ==
  \/ Thread
  \/ IsrEnters \/ IsrExits \/ PendSV
  \/ \E o \in Object : IsrPosts(o)

Spec == Init /\ [][Next]_vars

\* Handlers return, interrupts end, and they leave time for the threads: whatever can
\* run between interrupts again and again does run.
FairSpec == Spec /\ SF_vars(Thread) /\ SF_vars(PendSV) /\ WF_vars(IsrExits)

-----------------------------------------------------------------------------
(* Properties *)

FrameType ==
  [ao : Object \cup {0}, pc : {"get", "handling", "multicast"},
   addressed : SUBSET Object, subs : SUBSET Object,
   sched_status : 0..(MAX_ACTIVE_OBJECT + 1) \cup {NOT_LOCKED},
   prio_in : Object \cup {0}, pthre_in : 0..MAX_ACTIVE_OBJECT]

TypeOK ==
  /\ ready_set \subseteq Object
  /\ active_priority \in Object \cup {0}
  /\ next_priority \in Object \cup {0}
  /\ active_preemption_threshold \in 0..MAX_ACTIVE_OBJECT
  /\ lock_ceiling \in 0..(MAX_ACTIVE_OBJECT + 1)
  /\ queued \in [Object -> 0..MAX_POSTS]
  /\ stack \in Seq(FrameType) /\ stack # <<>>
  /\ running \in BOOLEAN /\ isr \in BOOLEAN /\ pendsv \in BOOLEAN
  /\ posts \in 0..MAX_POSTS

\* An object preempts only threads whose threshold it exceeds, however deep the
\* preemption: no object shares the stack with one of its own group.
ThresholdsHold ==
  \A i, j \in 1..Depth : i < j /\ stack[i].ao # 0 => stack[j].ao > pthre[stack[i].ao]

\* No lost wake-up: when a thread may go on, what is ready and could run over it is hidden
\* in the mask by an object in a lower byte, which could not.
NoLostWakeup ==
  ThreadRuns =>
    \A o \in ready_set : o > active_preemption_threshold /\ o > lock_ceiling =>
      \E p \in ready_set : /\ Byte(p) < Byte(o)
                           /\ p <= active_preemption_threshold \/ p <= lock_ceiling

\* An object with events is ready, and EDF_activeObject_get() finds an event.
ReadyHasEvents ==
  /\ \A o \in Object : queued[o] > 0 => o \in ready_set
  /\ \A i \in 1..Depth : stack[i].pc = "get" => queued[stack[i].ao] > 0

\* What is posted is never overlooked: the ready set and the queues agree, and no
\* decision to activate an object is missed.
NothingIsMissed == NoLostWakeup /\ ReadyHasEvents

\* No subscriber runs in the middle of a publication to it: by the time it does, every
\* subscriber has the event.  The lock overlooks those above the lowest byte of the mask
\* that subscribers share, which may run until the first of all has the event.
MulticastIsAtomic ==
  \A i \in 1..Depth : stack[i].pc = "multicast" =>
    \A j \in (i + 1)..Depth : stack[j].ao \in stack[i].addressed =>
      /\ stack[i].subs = stack[i].addressed
      /\ \E o \in stack[i].addressed : Byte(o) < Byte(stack[j].ao)

\* The lock that a publication took is undone by it and by nothing else: the
\* ceiling is that of the innermost publication which raised it.
LocksNest ==
  LET raised == {i \in 1..Depth : stack[i].sched_status # NOT_LOCKED} IN
    /\ \A i \in raised : stack[i].sched_status < lock_ceiling
    /\ \A i, j \in raised : i < j => stack[i].sched_status < stack[j].sched_status
    /\ running /\ raised = {} => lock_ceiling = 0

\* However activations, publications and interrupts nest on the stack, thresholds
\* and locks keep those apart that must not preempt each other.
PreemptionIsOrdered == ThresholdsHold /\ MulticastIsAtomic /\ LocksNest

Dispatches == Top'.pc = "get" /\ stack' # stack /\ Depth' >= Depth

\* A dispatch passes over a ready object of a higher priority only when one in a lower
\* byte of the mask is ready, also when more interrupts came between the decision and
\* PendSV: of objects in one byte, the highest runs.
HighestIsChosen ==
  [][Dispatches =>
       /\ Top'.ao \in ready_set'
       /\ \A o \in ready_set' : o > Top'.ao => \E p \in ready_set' : Byte(p) < Byte(o)]_vars

\* "Evaluates the current set of ready active objects and selects the highest-priority
\* one" (edf_core.h:200-201).  Violated: see the README.
HighestOfAllIsChosen == [][Dispatches => \A o \in ready_set' : o <= Top'.ao]_vars

\* Everything that was posted is dispatched, and the idle thread resumes.
EverythingIsDispatched == running ~> (\A o \in Object : queued[o] = 0) /\ Depth = 1

=============================================================================
