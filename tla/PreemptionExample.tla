-------------------------- MODULE PreemptionExample --------------------------
(***************************************************************************)
(* The application of the preemption example (app.c, exec_timer.c) on the  *)
(* kernel of PreemptiveKernel: workers that a tick interrupt activates and *)
(* that stay busy for a budget of execution time.  The kernel tells of     *)
(* each context switch (EDF_onContextSwitch), where the clock of the       *)
(* worker that is preempted stops and that of the resumed one goes on;     *)
(* the worker reads and writes the same fields in its handler, where it    *)
(* may be preempted between any two accesses.                              *)
(***************************************************************************)
EXTENDS PreemptiveKernel

CONSTANTS
  Workers,     \* the objects that are workers
  BUDGET,      \* execution_budget_ticks
  MAX_TICKS,   \* bound: ticks that are told apart
  MAX_RUNS     \* bound: activations of the workers

ASSUME WorkersAssumption ==
  /\ Workers \subseteq Object
  /\ \A w \in Workers : pthre[w] = w        \* the default of EDF_activeObject_register()
  /\ BUDGET \in 1..(MAX_TICKS - 1) /\ {MAX_TICKS, MAX_RUNS} \subseteq Nat

VARIABLES
  example,   \* this program is the example; otherwise its objects do anything
  worker     \* the fields of each workerAo_t and where its handler is

exampleVars == <<example, worker>>

\* Times are kept by their age: how long ago a tick was read from TIM2.
Worker(step, active, counting, executed, resume) ==
  [step |-> step,
   active |-> active, counting |-> counting,    \* execution_active, execution_counting
   executed |-> executed, resume |-> resume,    \* executed_ticks, resume_tick
   seen |-> 0, read |-> 0,                      \* the locals of currentExecutedTicks()
   ran |-> 0]                                   \* history: the time it really ran

Resting == Worker("done", FALSE, FALSE, 0, 0)

ExampleInit ==
  /\ Init
  /\ example \in BOOLEAN
  /\ worker = [w \in Workers |-> Resting]

\* execTimer_elapsedTicks() of two ticks, given their ages.
Elapsed(start, end) == (start - end) % 65536
LeastOf(a, b) == IF a < b THEN a ELSE b

\* updateExecutedTicks()
Updated(w) ==
  IF w.counting THEN [w EXCEPT !.executed = LeastOf(@ + w.resume, MAX_TICKS), !.resume = 0]
  ELSE w

\* Mutant: a preempted worker is not charged for the time before the switch.
PausedUncharged(w) == IF w.active THEN [w EXCEPT !.counting = FALSE] ELSE w

\* A worker that is not counting yet is not charged for what it ran (the history
\* writes that off).
Paused(w) ==
  IF w.active
  THEN [Updated(w) EXCEPT !.counting = FALSE, !.ran = IF w.counting THEN @ ELSE 0]
  ELSE w

Resumed(w) == IF w.active THEN [w EXCEPT !.resume = 0, !.counting = TRUE] ELSE w

OnContextSwitch(prev, next) ==
  worker' = [w \in Workers |->
    IF w = prev /\ prev # next THEN Paused(worker[w])
    ELSE IF w = next /\ prev # next THEN Resumed(worker[w])
    ELSE worker[w]]

-----------------------------------------------------------------------------
(* readyState(), one step per access that a preemption can come before. *)

Handles(w, step) ==
  /\ example /\ ThreadRuns
  /\ Top.ao = w /\ Top.pc = "handling" /\ worker[w].step = step

Becomes(w, record) ==
  /\ worker' = [worker EXCEPT ![w] = record]
  /\ UNCHANGED <<vars, example>>

ReadsStart(w) == Handles(w, "take") /\ Becomes(w, Worker("mark", FALSE, worker[w].counting, 0, 0))
MarksActive(w) == Handles(w, "mark") /\ Becomes(w, [worker[w] EXCEPT !.step = "count", !.active = TRUE])
StartsCounting(w) == Handles(w, "count") /\ Becomes(w, [worker[w] EXCEPT !.step = "loop", !.counting = TRUE])

\* currentExecutedTicks(): the order of the last two reads is the compiler's.
ReadsExecuted(w) ==
  Handles(w, "loop") /\ Becomes(w, [worker[w] EXCEPT !.step = "reads", !.seen = worker[w].executed])
ReadsTickFirst(w) ==
  Handles(w, "reads") /\ Becomes(w, [worker[w] EXCEPT !.step = "tickRead", !.read = 0])
ReadsResumeFirst(w) ==
  Handles(w, "reads") /\ Becomes(w, [worker[w] EXCEPT !.step = "resumeRead", !.read = worker[w].resume])

Decides(w, elapsed) ==
  Becomes(w, [worker[w] EXCEPT
    !.step = IF (worker[w].seen + elapsed) % 65536 < BUDGET THEN "loop" ELSE "stop",
    !.seen = 0, !.read = 0])
ComparesBudget(w) ==
  \/ Handles(w, "tickRead") /\ Decides(w, Elapsed(worker[w].resume, worker[w].read))
  \/ Handles(w, "resumeRead") /\ Decides(w, Elapsed(worker[w].read, 0))

StopsCounting(w) ==
  Handles(w, "stop") /\ Becomes(w, [Updated(worker[w]) EXCEPT !.step = "rest", !.counting = FALSE])
Rests(w) == Handles(w, "rest") /\ Becomes(w, Worker("done", FALSE, worker[w].counting, 0, 0))

WorkerStep ==
  \E w \in Workers :
    \/ ReadsStart(w) \/ MarksActive(w) \/ StartsCounting(w)
    \/ ReadsExecuted(w) \/ ReadsTickFirst(w) \/ ReadsResumeFirst(w) \/ ComparesBudget(w)
    \/ StopsCounting(w) \/ Rests(w)

LoopSteps == {"loop", "reads", "tickRead", "resumeRead"}

\* 10 us pass.  What a paused worker's clock shows is read by nobody; one that counts
\* has taken note of its time before MAX_TICKS have passed.
TimePasses ==
  /\ example
  /\ \A w \in Workers : worker[w].active /\ worker[w].counting => worker[w].resume < MAX_TICKS
  /\ worker' = [w \in Workers |->
       LET r == worker[w]
           Aged(t) == LeastOf(t + 1, MAX_TICKS)
       IN [r EXCEPT
            !.resume = IF \/ r.active /\ r.counting
                          \/ r.step = "mark" \/ (r.step = "count" /\ active_priority = w)
                        THEN Aged(@) ELSE @,
            !.read = IF r.step \in {"tickRead", "resumeRead"} THEN Aged(@) ELSE @,
            !.ran = IF r.step \in {"mark", "count"} \cup LoopSteps /\ active_priority = w THEN Aged(@) ELSE @]]
  /\ UNCHANGED <<vars, example>>

-----------------------------------------------------------------------------
(* The kernel, which calls EDF_onContextSwitch() for the objects that run before *)
(* and after each of its decisions. *)

Announced(step) ==
  /\ step
  /\ OnContextSwitch(active_priority, active_priority')
  /\ UNCHANGED example

\* EDF_activeObject_get() and the call of readyState().
Activated ==
  /\ example /\ Get
  /\ worker' = [worker EXCEPT ![Top.ao].step = "take"]
  /\ UNCHANGED example

ExampleThread ==
  \/ ~example /\ Announced(Thread)
  \/ Activated
  \/ example /\ Announced(Run)
  \/ example /\ Top.ao # 0 /\ worker[Top.ao].step = "done" /\ Announced(EndDispatch)
  \/ WorkerStep

\* SysTick_Handler(): time events of the workers expire.
Interrupted ==
  \E o \in Object : (example => o \in Workers /\ posts < MAX_RUNS) /\ IsrPosts(o)

ExampleNext ==
  \/ ExampleThread
  \/ Announced(IsrEnters) \/ Announced(Interrupted)
  \/ Announced(IsrExits) \/ Announced(PendSV)
  \/ TimePasses

allVars == <<vars, exampleVars>>

\* The fairness of the kernel, and time that passes.
ExampleSpec ==
  /\ ExampleInit /\ [][ExampleNext]_allVars
  /\ SF_allVars(ExampleThread) /\ SF_allVars(Announced(PendSV))
  /\ WF_allVars(Announced(IsrExits)) /\ WF_allVars(TimePasses)

-----------------------------------------------------------------------------
(* Properties *)

(* However workers preempt each other, only the one that runs is counting, *)
(* the one that runs in its loop is, and by then no time it ran is lost.   *)
ExecutionIsCharged ==
  \A w \in Workers :
    LET r == worker[w] IN
      /\ r.active /\ r.counting => active_priority = w
      /\ r.step \in LoopSteps /\ active_priority = w => r.active /\ r.counting
      /\ r.step \in LoopSteps =>
           LeastOf(r.executed + (IF r.counting THEN r.resume ELSE 0), MAX_TICKS) >= r.ran

(* "AO_LOW: 500 ms of effective execution time", "counted only while it is *)
(* actually running" (doc/arm_cortex_m_preemption_example.md): a worker    *)
(* stops when it has run for its budget.  Violated: see the README.        *)
BudgetIsUsed == \A w \in Workers : worker[w].step = "stop" => worker[w].ran >= BUDGET

=============================================================================
