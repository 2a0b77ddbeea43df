----------------------------- MODULE PosixCore -----------------------------
(***************************************************************************)
(* The cores of the framework for POSIX: a thread per object               *)
(* (posix_preemptive), one loop for all (posix_non_preemptive) and that    *)
(* loop driven by a testcase (posix_non_preemptive_fuzz).  A critical      *)
(* section holds a mutex and is one step.  The main thread, the threads of *)
(* the objects, a ticker thread and signals interleave.                    *)
(***************************************************************************)
EXTENDS CoverageFlush, Bitmask

CONSTANTS
  PORTS,          \* the cores: "preemptive", "cooperative", "fuzz"
  Object,         \* the active objects, by priority
  EDF_MAX_ACTIVE_OBJECT,   \* the highest priority there is
  QUEUE_LEN,      \* events a queue holds
  CPUS,           \* processors that run threads of the program
  FuzzTable,      \* EDF_fuzz_eventTable: payload size and subscribers of each entry
  SELECTOR,       \* sizeof(EDF_event_signal_t)
  FUZZ_LENGTHS,   \* bound: lengths of a testcase
  MAX_STIMULI       \* bound: posts by ticker and handlers, spurious wake-ups

ASSUME PosixAssumption ==
  /\ PORTS \subseteq {"preemptive", "cooperative", "fuzz"}
  /\ EDF_MAX_ACTIVE_OBJECT \in Nat /\ Object \subseteq 1..EDF_MAX_ACTIVE_OBJECT
  /\ \A e \in Range(FuzzTable) : e.size \in Nat /\ e.to \subseteq Object
  /\ SELECTOR \in Nat /\ FUZZ_LENGTHS \subseteq Nat

VARIABLES
  port,        \* the core the program is built with
  main,        \* the position of the main thread
  thread,      \* the positions of the objects' threads (preemptive)
  startup,     \* who holds startupMutex: an object, 0 for the main thread, or nobody
  isRunning,
  queued,      \* the events in each object's queue: the segment each stems from
  ready,       \* EDF_core.ready_set
  current,     \* the object the loop serves, 0 for none
  inSection,   \* the main thread has left the loop inside its critical section
  stopped,     \* history: EDF_stop() was called
  stimuli,       \* posts and spurious wake-ups so far (bounded by MAX_STIMULI)
  input        \* the testcase: length, offset, table entry and subscribers left

coreVars == <<port, main, thread, startup, isRunning, queued, ready, current,
              inSection, stopped, stimuli, input>>
vars == <<coreVars, flushVars>>

Preemptive == port = "preemptive"
Fuzzing == port = "fuzz"
Ended == main = "ended" \/ Killed
Looping == main \in {"spinning", "deciding", "getting", "handling", "settling", "idle"}

\* EDF_init()
CoreInit ==
  /\ port \in PORTS
  /\ main = "starting"
  /\ thread = [o \in Object |-> "none"]
  /\ startup = IF Preemptive THEN {0} ELSE {}
  /\ isRunning = FALSE
  /\ queued = [o \in Object |-> <<>>]
  /\ ready = {} /\ current = 0
  /\ inSection = FALSE /\ stopped = FALSE /\ stimuli = 0
  /\ input = [len |-> 0, offset |-> 0, entry |-> 0, left |-> {}]

Init == CoreInit /\ FlushInit

-----------------------------------------------------------------------------
(* Ready objects and threads. *)

Runnable(o) == \/ thread[o] \in {"unlock", "getting", "woken", "handling"}
               \/ thread[o] = "lock" /\ startup = {}

\* SCHED_FIFO: the main thread is above every object, the ticker above both.
Runs(o) ==
  /\ Preemptive /\ ~Ended /\ Runnable(o)
  /\ LET above == {p \in Object : p > o /\ Runnable(p)} IN
       Cardinality(above) + (IF main \in {"entering", "spinning"} THEN 1 ELSE 0) < CPUS

MainRuns(pc) == main = pc /\ ~Killed /\ ~Interrupted

\* The event of an object that runs stems from the segment being served.
Segment == input.offset + 1

\* EDF_CORE_NOTIFY_EVENT(): the condition variable, or the ready set.
Notify(o) ==
  IF Preemptive
  THEN /\ thread' = [thread EXCEPT ![o] = IF @ = "waiting" THEN "woken" ELSE @]
       /\ UNCHANGED ready
  ELSE /\ ready' = ready \cup {o}
       /\ UNCHANGED thread

\* EDF_activeObject_postFIFO(); a queue that is full is a failed assertion, which
\* ends the program (exit(0) in the fuzzing port).  pc is where a main thread goes on.
Post(o, origin, pc) ==
  /\ ~inSection
  /\ IF Len(queued[o]) = QUEUE_LEN
     THEN /\ main' = "ended"
          /\ UNCHANGED <<queued, thread, ready>>
     ELSE /\ main' = pc
          /\ queued' = [queued EXCEPT ![o] = Append(@, origin)]
          /\ IF queued[o] = <<>> THEN Notify(o) ELSE UNCHANGED <<thread, ready>>

\* EDF_stop()
Stop ==
  /\ isRunning' = FALSE /\ stopped' = TRUE
  /\ UNCHANGED <<port, main, thread, startup, queued, ready, current, inSection,
                 stimuli, input>>

-----------------------------------------------------------------------------
(* Start-up: nothing posts before EDF_onStartup(). *)

\* EDF_activeObject_start(): the object's thread, or nothing but its registration.
StartThread(o) == Preemptive /\ thread' = [thread EXCEPT ![o] = "lock"]
StartServed(o) == ~Preemptive /\ thread' = [thread EXCEPT ![o] = "served"]

Start(o) ==
  /\ MainRuns("starting") /\ thread[o] = "none"
  /\ StartThread(o) \/ StartServed(o)
  /\ UNCHANGED <<port, main, startup, isRunning, queued, ready, current, inSection,
                 stopped, stimuli, input>>

\* EDF_run(): EDF_onStartup(), the priority, startupMutex; or the input is read.
Run ==
  /\ MainRuns("starting") /\ \A o \in Object : thread[o] # "none"
  /\ startup' = {}
  /\ \/ /\ Fuzzing /\ main' = "segment"
        /\ \E len \in FUZZ_LENGTHS : input' = [input EXCEPT !.len = len]
     \/ /\ ~Fuzzing /\ main' = "entering"
        /\ UNCHANGED input
  /\ UNCHANGED <<port, thread, isRunning, queued, ready, current, inSection, stopped,
                 stimuli>>

\* Mutant: an object's thread keeps the start-up mutex.
PassStartupHeld(o) ==
  /\ Runs(o) /\ thread[o] = "unlock"
  /\ thread' = [thread EXCEPT ![o] = "getting"]
  /\ UNCHANGED <<port, main, startup, isRunning, queued, ready, current, inSection,
                 stopped, stimuli, input>>

\* activeObjectThread(): startupMutex is locked, and unlocked.
LockStartup(o) ==
  /\ Runs(o) /\ thread[o] = "lock"
  /\ startup' = {o}
  /\ thread' = [thread EXCEPT ![o] = "unlock"]
  /\ UNCHANGED <<port, main, isRunning, queued, ready, current, inSection, stopped,
                 stimuli, input>>

PassStartup(o) ==
  /\ Runs(o) /\ thread[o] = "unlock"
  /\ startup' = {}
  /\ thread' = [thread EXCEPT ![o] = "getting"]
  /\ UNCHANGED <<port, main, isRunning, queued, ready, current, inSection, stopped,
                 stimuli, input>>

-----------------------------------------------------------------------------
(* The threads of the preemptive core. *)

\* EDF_activeObject_get() and EDF_CORE_WAIT_FOR_EVENT(): an empty queue waits.
Get(o) ==
  /\ Runs(o) /\ thread[o] \in {"getting", "woken"}
  /\ thread' = [thread EXCEPT ![o] = IF queued[o] = <<>> THEN "waiting" ELSE "handling"]
  /\ queued' = [queued EXCEPT ![o] = IF @ = <<>> THEN @ ELSE Tail(@)]
  /\ UNCHANGED <<port, main, startup, isRunning, ready, current, inSection, stopped,
                 stimuli, input>>

\* pthread_cond_wait() may return without a signal.
WakeSpuriously(o) ==
  /\ Preemptive /\ ~Ended /\ thread[o] = "waiting" /\ stimuli < MAX_STIMULI
  /\ stimuli' = stimuli + 1
  /\ thread' = [thread EXCEPT ![o] = "woken"]
  /\ UNCHANGED <<port, main, startup, isRunning, queued, ready, current, inSection,
                 stopped, input>>

\* A handler posts, stops the framework, or returns.
ThreadPost(o, p) ==
  /\ Runs(o) /\ thread[o] = "handling" /\ stimuli < MAX_STIMULI
  /\ stimuli' = stimuli + 1
  /\ Post(p, 0, main)
  /\ UNCHANGED <<port, startup, isRunning, current, inSection, stopped, input>>

ThreadStop(o) == Runs(o) /\ thread[o] = "handling" /\ Stop

ThreadReturn(o) ==
  /\ Runs(o) /\ thread[o] = "handling"
  /\ thread' = [thread EXCEPT ![o] = "getting"]
  /\ UNCHANGED <<port, main, startup, isRunning, queued, ready, current, inSection,
                 stopped, stimuli, input>>

-----------------------------------------------------------------------------
(* The main thread. *)

\* isRunning = true, in the critical section where the loop begins in one.
EnterLoop ==
  /\ MainRuns("entering")
  /\ isRunning' = TRUE
  /\ main' = IF Preemptive THEN "spinning" ELSE "deciding"
  /\ UNCHANGED <<port, thread, startup, queued, ready, current, inSection, stopped,
                 stimuli, input>>

\* The preemptive core waits for EDF_stop(), shuts down and ends with its threads.
LeaveSpin ==
  /\ MainRuns("spinning") /\ ~isRunning
  /\ main' = "shutdown"
  /\ UNCHANGED <<port, thread, startup, isRunning, queued, ready, current, inSection,
                 stopped, stimuli, input>>

\* Mutant: the object served last is never ready any more.
SettledAlways == ready \ {current}

\* "Empty queue?"
Settled ==
  IF main = "settling" /\ queued[current] = <<>> THEN ready \ {current} ELSE ready

\* Where the loop ends: in the critical section, which the fuzzing port exits.
EndLoop ==
  IF Fuzzing
  THEN /\ main' = "segment"
       /\ input' = [input EXCEPT !.offset = @ + SELECTOR + FuzzTable[input.entry].size]
       /\ UNCHANGED inSection
  ELSE /\ main' = "shutdown" /\ inSection' = TRUE
       /\ UNCHANGED input

\* One critical section of the loop: the ready set, the condition, the next object.
Decide ==
  /\ MainRuns("deciding") \/ MainRuns("settling")
  /\ ready' = Settled
  /\ current' = IF isRunning THEN FindMax(ready') ELSE 0
  /\ IF isRunning
     THEN /\ main' = IF ready' = {} THEN "idle" ELSE "getting"
          /\ UNCHANGED <<inSection, input>>
     ELSE EndLoop
  /\ UNCHANGED <<port, thread, startup, isRunning, queued, stopped, stimuli>>

\* EDF_onIdle(); the fuzzing port is done with the segment.
Idle ==
  /\ MainRuns("idle")
  /\ isRunning' = (isRunning /\ ~Fuzzing)
  /\ main' = "deciding"
  /\ UNCHANGED <<port, thread, startup, queued, ready, current, inSection, stopped,
                 stimuli, input>>

\* EDF_activeObject_get(), which asserts that there is an event.
LoopGet ==
  /\ MainRuns("getting")
  /\ main' = IF queued[current] = <<>> THEN "ended" ELSE "handling"
  /\ queued' = [queued EXCEPT ![current] = IF @ = <<>> THEN @ ELSE Tail(@)]
  /\ UNCHANGED <<port, thread, startup, isRunning, ready, current, inSection, stopped,
                 stimuli, input>>

LoopPost(p) ==
  /\ MainRuns("handling") /\ stimuli < MAX_STIMULI
  /\ stimuli' = stimuli + 1
  /\ Post(p, Segment, main)
  /\ UNCHANGED <<port, startup, isRunning, current, inSection, stopped, input>>

LoopStop == MainRuns("handling") /\ Stop

LoopReturn ==
  /\ MainRuns("handling")
  /\ main' = "settling"
  /\ UNCHANGED <<port, thread, startup, isRunning, queued, ready, current, inSection,
                 stopped, stimuli, input>>

\* EDF_onShutdown(), and main() returns: every other thread ends with it.
Shutdown ==
  /\ MainRuns("shutdown")
  /\ main' = "ended"
  /\ UNCHANGED <<port, thread, startup, isRunning, queued, ready, current, inSection,
                 stopped, stimuli, input>>

-----------------------------------------------------------------------------
(* The testcase of the fuzzing port. *)

\* Mutant: the payload is compared with what is left from the selector on.
FitsFromSelector(e) == input.len - input.offset >= FuzzTable[e].size

\* The payload of an entry is in what is left after the selector.
Fits(e) == input.len - (input.offset + SELECTOR) >= FuzzTable[e].size

\* The next segment: a selector, any entry of the table; its event is created.
NextSegment ==
  /\ MainRuns("segment")
  /\ IF input.offset + SELECTOR <= input.len
     THEN \E e \in DOMAIN FuzzTable :
            IF Fits(e)
            THEN /\ main' = "publishing"
                 /\ input' = [input EXCEPT !.entry = e, !.left = FuzzTable[e].to]
            ELSE main' = "shutdown" /\ UNCHANGED input
     ELSE main' = "shutdown" /\ UNCHANGED input
  /\ UNCHANGED <<port, thread, startup, isRunning, queued, ready, current, inSection,
                 stopped, stimuli>>

\* EDF_activeObject_publish(), one subscriber at a time.
Publish ==
  /\ MainRuns("publishing")
  /\ IF input.left = {}
     THEN /\ main' = "entering"
          /\ UNCHANGED <<queued, thread, ready, input>>
     ELSE /\ Post(FindMax(input.left), Segment, main)
          /\ input' = [input EXCEPT !.left = @ \ {FindMax(@)}]
  /\ UNCHANGED <<port, startup, isRunning, current, inSection, stopped, stimuli>>

-----------------------------------------------------------------------------
(* The ticker, signals. *)

\* From EDF_onStartup() on.  What the ticker does once a fatal signal is being
\* handled is left out: no handler returns to a program that could see it.
Listening == main \notin {"starting", "ended"} /\ ~Killed /\ ~Interrupted

TickerPost(o) ==
  /\ Listening /\ stimuli < MAX_STIMULI
  /\ stimuli' = stimuli + 1
  /\ Post(o, 0, main)
  /\ UNCHANGED <<port, startup, isRunning, current, inSection, stopped, input>>

TickerStop == Listening /\ ~stopped /\ Stop

\* sigIntHandler(): EDF_onShutdown(), exit().
SigInt ==
  /\ ~Fuzzing /\ main # "ended"
  /\ main' = "ended"
  /\ UNCHANGED <<port, thread, startup, isRunning, queued, ready, current, inSection,
                 stopped, stimuli, input>>

\* Fatal signals are followed where they come from, a handler that crashes or
\* hangs, and while others are being handled.
Crashing == Fuzzing /\ main = "handling"

ThreadStep(o) ==
  \/ LockStartup(o)
  \/ PassStartup(o)
  \/ Get(o)
  \/ ThreadReturn(o)

MainStep ==
  \/ Run
  \/ EnterLoop
  \/ LeaveSpin
  \/ Decide
  \/ Idle
  \/ LoopGet
  \/ LoopReturn
  \/ Shutdown
  \/ NextSegment
  \/ Publish

CoreNext ==
  \/ MainStep
  \/ \E o \in Object : \/ Start(o)
                       \/ ThreadStep(o)
                       \/ WakeSpuriously(o)
                       \/ ThreadStop(o)
                       \/ TickerPost(o)
                       \/ LoopPost(o)
                       \/ \E p \in Object : ThreadPost(o, p)
  \/ LoopStop
  \/ TickerStop
  \/ SigInt

Next ==
  \/ CoreNext /\ UNCHANGED flushVars
  \/ /\ \/ HandlerStep
        \/ \E s \in Signal : Crashing /\ Deliver(s)
     /\ UNCHANGED coreVars

Spec == Init /\ [][Next]_vars

\* The system runs every thread that is runnable and not kept off the processors
\* by threads above it; handlers return, and a fatal signal's handler runs on.
FairSpec ==
  /\ Spec
  /\ WF_vars(MainStep /\ UNCHANGED flushVars)
  /\ WF_vars(HandlerStep /\ UNCHANGED coreVars)
  /\ \A o \in Object : WF_vars(ThreadStep(o) /\ UNCHANGED flushVars)

-----------------------------------------------------------------------------
(* No notification is lost: no thread sleeps on an event, and the loop's   *)
(* ready set is exactly the objects with events, the one being served      *)
(* apart, so that the loop's assertion on the queue it gets from holds.    *)
NoWakeupIsLost ==
  IF Preemptive
  THEN \A o \in Object : thread[o] = "waiting" => queued[o] = <<>>
  ELSE LET served == IF main \in {"handling", "settling"} THEN {current} ELSE {}
           nonEmpty == {o \in Object : queued[o] # <<>>}
       IN /\ nonEmpty \subseteq ready /\ (Ended \/ ready \subseteq nonEmpty \cup served)
          /\ main = "getting" => queued[current] # <<>>

(* A testcase is taken apart within its length, and the framework is quiet *)
(* between two segments: no event that stems from an earlier segment is    *)
(* still queued, unless the application stopped the loop.                  *)
InputIsExact ==
  Fuzzing =>
    /\ main = "publishing" =>
         input.offset + SELECTOR + FuzzTable[input.entry].size <= input.len
    /\ stopped \/ \A o \in Object : Range(queued[o]) \subseteq {0, Segment}

(* Every event is handled, however threads, ticker and handlers interleave, *)
(* unless the program stops or ends; and EDF_stop() ends the loop it finds  *)
(* running.                                                                 *)
EventsAreHandled ==
  /\ \A o \in Object : queued[o] # <<>> ~> (queued[o] = <<>> \/ stopped \/ Ended)
  /\ Looping /\ ~isRunning ~> ~Looping \/ Ended
=============================================================================
