# Verification of the STM32WLE5 RF dongle

TLA+ modules of the dongle's firmware and of the event driven framework (EDF) it is
built on, TLC configurations that check them on small instances, and TLAPS proofs of
what matters most. Paths below are relative to `src/`; `PROJECT.json` maps every
definition to its lines.

    tlc -config MCRfManager.cfg MCRfManager      # a model-checking run
    tlapm RfManagerProofs.tla                    # a proof module

## 1. The system

The dongle is a USB-serial stick around one STM32WLE5, a Cortex-M4 with a sub-GHz
radio. A host sends COBS-framed commands over USART2; the firmware configures the radio,
transmits, receives, scans (CAD), and reports. Two *active objects* (state machines with
an event queue and a priority) do the work, on a preemptive kernel with one stack:

    host --USART2--> host command manager --events--> RF manager --SPI--> radio
         <---------- (prio 2)             <--------- (prio 3)    <--irq--

The framework underneath also runs on PCs, where the unit tests, the fuzzer and its
examples use it.

| Component | State | Operations | Interacts with | Modules |
|---|---|---|---|---|
| Event queue (`edf_event_queue.c`) | ring, front slot, head, tail, free counters | post FIFO, post LIFO, get | every active object; interrupts post | `BoundedDeque`, `EventQueue` |
| Events and pools (`edf_event.c`, `edf_pool.c`, `edf_active_object.c`) | reference counts, free list, subscribers, deferred queues | subscribe, allocate, publish (multicast), post, defer, recall, flush, collect | every publisher | `EventLifecycle` |
| Kernel (`core/baremetal/arm_cortex_m`) | ready set, active priority, threshold, lock ceiling, the stack of threads | ready, schedule, activate, lock, PendSV, context-switch callback | interrupts | `PreemptiveKernel` |
| Preemption example (`app.c`, `exec_timer.c`) | an execution clock per worker | pause, resume, read | the kernel's callback | `PreemptionExample` |
| POSIX cores (`core/os/posix_*`) | threads, condition variables, start-up mutex, or one loop with a ready set; the fuzzer's input | start, run, stop, notify, inject, signals | a ticker thread, signals | `PosixCore`, `CoverageFlush` |
| State machine (`edf_hsm.c`) | current state | start, dispatch, transition | the handlers of an object | `HsmTransition` |
| Fuzz example (`fuzz_example.c`) | setup, running sum, count | set, start, step, finish, reset | the fuzzing core | `FuzzExample` |
| Time events (`edf_time_event.c`) | two linked lists of counters | arm, disarm, re-arm, tick | a periodic interrupt or thread | `Countdown`, `TimeEvent` |
| POSIX platform timer (`epf_timer.c`) | timers, ticker thread, clock | arm, disarm, re-arm, ticker | applications on a PC | `PlatformTimer` |
| RF manager (`rf_manager*.c`) | mode, configuration, active operation | eleven events, five radio callbacks | radio interrupt, host command manager | `RfManager` |
| RF manager HAL (`target/rf_manager_hal.c`) | volatile flags, antenna switch, interrupt mask, the radio's registers | init, configure, transmit, receive, scan, stop, diagnostics, interrupt handler | SPI, radio | `RadioHal`, `RfManager` |
| Host command manager (`host_command_manager*.c`, its HAL) | RX and TX FIFO, frame assembly, event queue | USART interrupt, drain loop, requests, responses, reports | host, RF manager | `HostLink`, `HostCommand`, `Configuration` |
| Middleware (`emf_*`) | byte and array FIFO | COBS, CRC, byte order, bit masks, printing | all of the above | `FrameCodec`, `ByteFifo`, `TestSupport` |
| Test support (`eff.h`, `etf.c`, `emf_test_report.c`, stdio) | fakes with histories, suites, a transmit ring | call, test, report, write | the unit tests | `TestSupport` |
| Tools and CLI (`tools`, `sw/cli`) | | | the host | |

`PROJECT.json` lists all of them, those that are not modelled with the reason.

What is hard here:

* **Interleaving.** Interrupts post events, restart the radio from a callback, use its
  bus, and fill or empty FIFOs between any two critical sections of a thread; objects
  preempt one another on one stack, or are threads; signals nest.
* **Ordering.** An operation is stopped in four steps (disable, standby, clear, release)
  while the radio may end it by itself; its completion travels through a queue that
  requests share.
* **Atomicity.** Multicast, recall and collection of a reference-counted event are each
  several critical sections; a radio transaction polls the busy line before it masks the
  interrupt.
* **Limits.** A queue of five for five signals, a TX FIFO of one report, a margin of two
  references per object: an overflow is an assertion, and an assertion stops the dongle
  for good.
* **Numbers.** Length fields of 16 bits, COBS blocks of 254, a timeout of 0xFFFFFF that
  means none, fields that a register cuts off.
* **Liveness.** A byte, an event or an ended reception that nobody is going to handle; a
  busy line that never falls.

What makes each component correct: the *queue* is a bounded deque; an *event* is freed exactly once,
when nobody holds it; the *kernel* runs the highest eligible object (of one byte of the mask) and
never breaks a threshold; the *POSIX cores* lose no wake-up; a *state machine* exits and enters what
lies between source and target; a *tick* counts each time event on its lists once; the *RF manager*
never acts on an operation it has cancelled, and mode, operation, radio and antenna switch agree;
the *HAL* has the bus to itself and the radio's registers are those of the configuration; the *link*
publishes exactly the requests that came through, accepts only what the radio can be programmed
with, answers exactly, and drains.

## 2. Modules

One step is one critical section of the code, one radio command or bus access, or one access
to a volatile field where that is what interleaves. Definitions keep the source's names. A failed
assertion or fatal error sets `failed`, after which nothing happens: the error handler
never returns. A definition headed "Mutant" is a plausible bug in the definition that
follows it; it belongs to no specification, and serves to show that a property can fail.

**`BoundedDeque`, `EventQueue`** (`edf_event_queue.c`). The abstract queue is a sequence
of at most L+1 events; posts at either end, get from the front. The detailed one has the
ring that counts downwards, its indices, `n_free`/`n_free_min`, the entry that bypasses the ring
(`front_e`), and the posts that refuse or assert when full. The two are connected by
`ImplementsDeque`: `q <- Contents`, the front slot followed by the occupied ring.
`QueueIsSound` relates head, tail, count and which slots hold events (`RingConsistent`), by which
the two assertions of get hold, and keeps every access inside the ring (`QueueTypeOK`).

**`EventLifecycle`** (`edf_event.c`, `edf_pool.c`, `edf_active_object.c`). Blocks, their
counts, event and deferred queues, the subscriber list, which objects change in any
dispatch, and for each actor (object or outside publisher) the step it is at:
`BeginPublish`, `PostNext` for each subscriber, `EndMulticast`, `Collect`, `Release`;
`Recall`, `RecallPost`, `RecallRelease`. `PREEMPTS` tells whether the outside
publisher is an interrupt (runs to its end) or a thread of the POSIX cores (interleaves); the
active objects interleave freely in either case.
The free list is a set: its order cannot be observed.

**`PreemptiveKernel`** (`edf_core.c/.h/.S`, Cortex-M). `stack` holds one frame per
preempted thread: the object, its position, the subscribers its multicast has left, the
lock it took and the priorities `EDF_core_activate` restores. Interrupts enter between
steps, post, and pend PendSV. Events are counted only. What to run, the ceiling of a lock and the
next subscriber are what `EMF_bitmask_findMax` returns (**`Bitmask`**, `emf_bitmask.c`): the highest
priority of the *lowest* byte of the mask that is not zero, not of the mask. **`PreemptionExample`** extends it
with the workers of the example: each access of `readyState()` and
`currentExecutedTicks()` to the clock of its worker is a step, each decision of the
kernel calls `EDF_onContextSwitch`, and `TimePasses` may come anywhere. A time is kept by
its age, so that the clock needs no bound. `example` chooses, in the initial state,
between this application and objects that do anything.

**`PosixCore`, `CoverageFlush`** (`core/os/posix_preemptive`, `posix_non_preemptive`,
`posix_non_preemptive_fuzz`). `port` is chosen in the initial state. In the preemptive one
each object has a thread that passes the start-up mutex, waits on its condition variable
(which may wake it for nothing) and handles; `Runs` grants processors by priority,
as SCHED_FIFO does. In the others the main thread is a loop over the ready set,
whose search is that of `Bitmask` too. The fuzzing port cuts its input into
segments, publishes each, and runs the loop until it is idle. A ticker thread posts and
may stop the program at any time. `CoverageFlush` has the handlers of fatal signals as a
stack of frames, each with the signal it blocks and raises again.

**`HsmTransition`, `FuzzExample`** (`edf_hsm.c`, `fuzz_example.c`). The current state, the
path search with its four cases and bounded arrays, exit and entry actions one after the
other, initial transitions. A superstate may handle the event (`source` above the current
state). `FuzzExample` adds the application: its guards, sums and reserved paths, and the
transitions it asks the engine for. Its count is an `uint8_t` that nothing checks, and wraps:
`taken` and `cleared` are the history it is compared with.

**`RfManager`** (`rf_manager.c`, `rf_manager_activities.c`, `target/rf_manager_hal.c`).
The thread dispatches one event at a time; `pc` is its place in the handler: `disable`,
`standby`, `clear`, `release` (the four steps of `rfManagerHal_stop`), `perform`, `arm`,
`command` (the start of an operation). `RadioIrq` is the whole interrupt handler with the
callbacks it makes, including those that restart a reception or scan. The radio is
external: while it is busy it may end what it does and raise flags. A callback posts
`OPERATION_COMPLETE` to the same queue the requests use.

**`RadioHal`** (`target/rf_manager_hal.c`). Each HAL function is a *program*: a sequence
of assignments, commands, register writes, expectations and reads. Two contexts, the
object and the radio interrupt, run programs; each transaction is the poll of the busy
line (`Poll`), `Mask`, the second look (`Check`), chip select (`Select`, `AwaitWake`), `Transfer`,
`Release`, and the window in which the interrupt is unmasked. The radio answers with its busy line, dozes
in a duty-cycle reception, and ends operations. `radio.registers` keeps for each register the
configuration it was written from. A call of the third-party driver counts as one
transaction.

**`HostLink`** (`host_command_manager*.c`, its HAL). The wire, both FIFOs, the transmit interrupt
enable, the frame assembly, the drain loop, publication and responses. The RF manager
outranks this object, so a request is carried out before its publication returns. A
frame is a few bytes and a delimiter; the line may lose or damage any byte, unnoticed, or in a way
that the USART detects (framing, noise, overrun: a `FLAWED` byte), upon which the interrupt handler
calls `EAF_ERROR()` and the program stops (`failed = "line"`). `conditions` says,
for a whole behaviour, whether the host waits for a request to be done, whether the drain loop
outruns the line, and whether the RF manager reports packets.

**`HostCommand`, `Configuration`, `FrameCodec`, `ByteFifo`** (`host_command_manager_activities.c`,
`emf_cobs.c`, `emf_crc.c`, `emf_endian.c`, `emf_byte_fifo.c`, `emf_array_fifo.c`). The same path at the level
of bytes: a frame is decoded, its length and CRC are checked, its command is recognised, a
configuration is read field by field and validated, and answers go back through the
TX FIFO. `Configuration` has the layouts, reader, writer and validation of the four packet types,
and the conditions under which the HAL can program them (`AssertionsHold`, `RateDivisor`,
`ReceiveTimeout`). `FrameCodec` has its radix and block length as constants, so that the same
functions are checked with full blocks of 2 and used with blocks of 254.

**`TestSupport`** (`eff.h`, `etf.c`, `emf_test_report.c`, `emf_print.c`, STM32F103 `stdio.c`): fakes,
suites, the printer and the transmit ring as functions from state to state, each run
over a short string of operations and compared with what it should have done.

**`Countdown`, `TimeEvent`** (`edf_time_event.c`). The abstract tick attends to a set of time
events, each once, and to those that are put on its lists meanwhile; the detailed one walks a linked
list with a pointer to the link it has come to, attaches the list of new time events at its end, and
leaves its critical section after each. `CountsOncePerLinking` is the refinement: what is uncounted
is what hangs beyond that pointer or on the new list. It is once per *linking*, not per call: a
one-shot that expires, or a disarmed one that the walk takes off, and that is armed again before the
call ends, comes to the new list and is counted a second time in that call. **`PlatformTimer`**
(`epf_timer.c`) adds the POSIX ticker and its clock, which share that walk.

**`FrameworkProofs`, `EventLifecycleProofs`, `RfManagerProofs`, `HostLinkProofs`,
`PosixCoreProofs`, `RadioHalProofs`, `PreemptiveKernelProofs`, `HostCommandProofs`** hold the
theorems, each about the module it is named after (`PreemptiveKernelProofs` also about
`PreemptionExample`, `PosixCoreProofs` about `CoverageFlush`, `HostCommandProofs` about
`Configuration`, `FrameCodec` and `ByteFifo`; `FrameworkProofs` about `EventQueue`,
`HsmTransition`, `FuzzExample`, `TimeEvent` and `PlatformTimer`).

## 3. Runs

A run `X` uses `X.cfg`. A passing run checks safety and liveness of its module together.
Several properties are conjunctions of named parts, each with its own comment.

| Run | Question | Bounds, and why they are enough |
|---|---|---|
| `MCEventQueue` | Is the ring a bounded deque, consistent through every wrap? | rings of 0–3 entries, 3 events: both indices wrap, the front slot alone and every fill level occur; the theorems cover all sizes |
| `MCRfManager` | Do radio, state machine, operation and antenna switch agree; is nothing cancelled revived; does no assertion fail; is every operation the radio ends completed or restarted? | every class of configuration the code distinguishes (packet type, RX mode, CAD exit), good and rejected packets, any order of all requests; the queue needs no bound of its own: the RF manager outranks the host's object, so at most one request is waiting |
| `MCRfManager_stale` | *violation*, finding 1 | two configurations suffice |
| `MCHsmTransition` | Do exits and entries nest for every transition; do sum and count of the application match what it collected? | the hierarchy of `test/hsm` (15 states, every pair of source and target, `MAX_DEPTH` 6, as its deepest path needs) and the fuzz example: up to 3 values between two clears, so that one is below, at and beyond each target count, and up to 258 in a collection, so that the count wraps |
| `MCHsmTransition_lca` | *violation*, finding 2 | the test's own transitions |
| `MCEventLifecycle` | Are reference counts exact, is no block used after, or twice, freed, does none leak, is the margin of references enough? | 2 objects and an interrupt, 2 blocks and an immutable event, queues of 1: an event may be queued, deferred, dispatched and published at the same time, and with `MAX_ACTIVE_OBJECT` 2 the margin of 4 references is reached |
| `MCPreemptiveKernel` | Thresholds, lock ceilings, wake-ups, choice of the highest of a byte; is everything dispatched; does each clock count its own worker? | 5 objects, 5 posts: 1 and 2 are a group, 3 preempts both, and 9 and 10 lie in the second byte of the mask. An object over another and interrupts over both, nested multicasts, also to subscribers in two bytes, posts between a decision and PendSV. Workers 2 and 3, so that one preempts the other; budget 2, ages up to 3, 3 runs: time passes before, between and after the two reads of a clock |
| `MCHostLink` | Is framing exact under faults, is no byte or response stranded, does the link drain, does nothing overflow with a host that waits? | 3 frames, a fault (a byte lost, changed, or in error to the USART), a report; FIFOs of 3 and 2, so that both fill; the longest request fills the assembly exactly. `HastyOrWaiting` has behaviours of both kinds of host |
| `MCHostCommand` | Is what comes through what was meant, is damage noticed, is what is accepted programmable, do answers decode to what was set, is the middleware exact? | the real radix 256, blocks of 254 and capacities; a configuration of each packet type with every byte varied over the bounds of its field; packets of 0, 1, 251–253 and 255 bytes; frames too short or with a length that wraps; any one byte of a frame of up to 12 damaged. The middleware: all strings over 0–3 of length 1 to 5 with radix 8 and blocks of 2, several full blocks long |
| `MCRadioHal` | Does each transaction own an awake and idle radio; is the radio told everything; does each transaction end? | 3 requests, 2 indications, every operation: a request that stops another which the radio is ending, followed by one that relies on registers of the first |
| `MCPosixCore` | Is no wake-up lost, is the input injected exactly, is the profile written at most once, is what is posted handled? | the three cores; objects 1 and 9, whose bits lie in different bytes of the ready set; 3 stimuli; an input that ends within a selector, within a payload, and exactly; two fatal signals, each while the other is handled |
| `MCTimeEvent` | Are the lists sound, is none forgotten, does a tick count each once per linking and return, does an armed time event expire? | 3 time events (the fewest with a first, a middle and a last), one-shot and periodic, times of 2 so that counting down, expiring and retiring all occur; the tick of the framework and that of the POSIX ticker |

Symmetry is used over the blocks of `MCEventLifecycle` only, which are compared and never
ordered, in a run with no liveness property.

`CHECK_DEADLOCK FALSE` stands where the modelled system stops: after a failed assertion,
which ends in the error handler (`EventQueue`, `RfManager`, `EventLifecycle`, `HostLink`,
`RadioHal`), after a fatal signal or at the end of the program (`PosixCore`), or when the
bounded number of posts, frames, requests, steps or stimuli is used up and everything has
been handled.

Each property of a passing run is known to be able to fail: `PROJECT.json` names for each a
"Mutant" definition under which TLC finds it violated.

### Fairness

| Module | Assumed | Because |
|---|---|---|
| `RfManager` | WF of the thread and of the radio interrupt | the kernel runs a ready object, the NVIC takes an enabled interrupt. The host and the radio promise nothing |
| `PreemptiveKernel`, `PreemptionExample` | SF of the running thread and of PendSV, WF of the end of an interrupt, WF of time | run-to-completion handlers return and interrupts are short; whatever can run between interrupts again and again does; a clock that is looked at goes on |
| `HostLink` | WF of the receiver and the transmitter, SF of the object | the hardware shifts bytes; interrupts and the RF manager leave time for the object, but may interrupt it any number of times |
| `RadioHal` | WF of the two contexts, of the radio interrupt, and of the radio settling | a context that has the processor goes on; a radio drops its busy line when it has done what it was told (data sheet). That it ends an operation is not assumed |
| `PosixCore` | WF of the main thread, of each object's thread, and of the handlers of signals | the operating system runs what the scheduling policy lets run; that a processor is free is a guard (`Runs`), not an assumption. The ticker and the signals promise nothing |
| `TimeEvent`, `PlatformTimer` | WF of the tick | it is called periodically, and a call goes on. Arming and disarming are not fair |

`TimeGoesOn` states what it needs besides: a client that links time events for ever holds the tick
for ever, and one that re-arms a time event for ever keeps it from expiring. `HostCommand` has no
fairness formula of its own: `RequestsComeThrough` and `DamageIsNoticed` are action properties.

## 4. Findings

Each is a run whose one property is the statement of a document or a comment.

1. **A completion ends the next operation** (`MCRfManager_stale`). An operation ends
   in the radio while a start request is queued; the request starts its operation, and the
   old `OPERATION_COMPLETE` then ends it. A host that stops first is not affected.
2. **Transitions between branches** (`MCHsmTransition_lca`) exit and re-enter the
   superstates source and target share: the search for the common ancestor
   starts at the outer end. The dongle's state machines are flat and do not notice.

Five more configurations reproduce a disagreement when they are run by hand:

    tlc -config MCRfManager_rejected.cfg MCRfManager
    tlc -config MCHostLink_queue.cfg MCHostLink
    tlc -config MCPlatformTimer.cfg MCPlatformTimer
    tlc -config MCPreemptiveKernel_budget.cfg MCPreemptiveKernel
    tlc -config MCPreemptiveKernel_bytes.cfg MCPreemptiveKernel

3. **A rejected packet** leaves a single reception, and the receive phase of a CAD
   operation, active over a radio in standby. Only a request ends either.
4. **The event queue of five** overflows when several short requests
   collect behind a slow one; their answers are queued in one run of the drain loop.
5. **The POSIX ticker** never advances the time it sleeps until.
6. **A worker of the preemption example** may stop before it has run for its budget: when a
   context switch comes between its reads of the time and of the time it resumed at, the
   time elapsed comes out negative and wraps around in 16 bits.
7. **The highest ready object is passed over** when one in a lower byte of the mask is ready.
   `EDF_core_schedule()` selects "the highest-priority one" (`edf_core.h:200-201`) with
   `EMF_bitmask_findMax()`, whose test has it find 1 in {1, 16} (`test_emf_bitmask.c:103-107`), and
   whose header says that a lower bit has the higher priority (`emf_bitmask.h:4-6`); to the kernel 1 is the
   lowest (`edf_active_object.h:122`). With 1 and 9 ready it dispatches 1; an
   object of an upper byte never preempts one of a lower byte, which stays in the ready set while it
   runs; and the lock of a multicast is that of the highest subscriber of the lowest byte, so that one
   of an upper byte may run before the first subscriber has its event. `EDF_MAX_ACTIVE_OBJECT` is 32 by
   default and may be 64. The dongle has two objects, all in one byte, where the properties of the kernel say
   what one expects: highest first, and multicasts that no subscriber interrupts.

Some behaviours came up in modelling and are not disputed by a document, or are
visible in the definitions only:

* RF manager and link: a framing, noise or overrun error on the serial line stops the dongle for
  good (`USART2_IRQHandler`), where a byte damaged unnoticed costs its frame only. A transmit
  request before any configuration leaves the mode at tx with nothing transmitting (the last case of
  `ModeAgreesWithRadio`); the TX FIFO holds one report, so a second one before the first has left
  stops the program (`NothingOverflows` excludes reports). A query of the diagnostics during a
  duty-cycle reception selects, and so wakes, the radio; whether that modifies the active operation
  (`sys/req/sys_interfaces.md:31`) depends on what the radio does next, which the code does not say.
* Events: the margin of two references per object holds for publishers that are objects or
  interrupts (`PREEMPTS`), not for a thread of its own on the POSIX cores. The multicast of the
  preemptive POSIX core is not atomic as that of the Cortex-M is.
* POSIX cores: `EDF_stop` before the loop has set its running flag is lost; the last pass of the
  cooperative loop ends inside the critical section; with one processor and a main thread that
  waits busily no object runs (`CPUS` = 1 violates `EventsAreHandled`).
* Middleware: the printer writes 1.999 as 1.100, as a fraction that rounds up does not
  carry. A platform timer that is de-initialised stays marked as linked.
* Time events: one that expires and is armed again while the tick runs is counted twice in that call
  (`CountsOncePerLinking`), a tick too early.
* Fuzz example: the count of a collection wraps, after 256 values to 0. A setup is accepted in the
  middle of a collection and judges steps already collected by the old gate; the stop flag of the
  step that starts a collection is ignored; a finish does not look at the target count.
* Test support: a suite without tests reports one passed test and tears down what was never
  set up; a new return sequence of a fake does not reset the index of the old one; a write of more
  than the transmit ring holds is an assertion.

## 5. Proofs

Theorems hold for every value of the constants that satisfies the module's assumptions.

**`FrameworkProofs`**: what active objects are made of, and their time events.

*The queue*, of any finite set of lengths and any events: `QueueTypeCorrect`, then
`RingAlwaysConsistent` (neither assertion of get fails), both at once as `QueueStaysSound`, then
`QueueImplementsDeque`: the initial states and every step of the ring map to the deque. Type
correctness does not suffice for the refinement: that a post writes an unoccupied slot, and a get
reads an occupied one, needs `RingConsistent`, by which the occupied slots are the `end - n_free`
ones that follow `tail` around the ring.

*The state machine*, of any hierarchy of states in which none is above itself, no way up is
longer than the arrays that hold it, and initial transitions lead inwards
(`NoCycleAssumption`, `DepthAssumption`, `InitialAssumption`): `MachineStaysExact`, and
`ExampleStaysExact` for the fuzz example, whose handlers take the same transitions with
conditions of their own. The property speaks of the machine at rest; the invariant
`HsmInv` speaks of it half-way through a path: the active states are always those from
some place of the hierarchy upwards, and the actions still to run lead from that place to the
target, each one step up (an exit) or down (an entry). That a computed path does lead
there (`TransitionPathLeads`) is the bulk of the proof, one case per case of
`EDF_hsm_getTransitionPath()`; that the way up exists, is the only one and meets no state twice
follows from the absence of cycles.

*The application*: `RuntimeStaysAccounted`, where no foreign transition leads into the
machine (`ExampleAssumption`), however many values are collected and whatever the counts wrap to: the
bounds of the run are any numbers. The property speaks of an armed
or collecting machine at rest; `AccountInv` also speaks of it on its way there. What
`Total` sums is shown through the function of partial sums, which exists and is the only one
(`SumsExist`, `SumsAgree`).

*Time events*, any of them (an infinite set too), start times and periods:
`TypeCorrect` and `NoneIsForgotten` need little; `ListsStaySound` and `ListsImplementCountdown` have to
know what hangs on a list while pointers change. That is no induction over its length here:
`Reached` is the least set of time events closed under `next`, so that a list is left alone, grows at
the front, loses an element or takes in the new ones by exhibiting a closed set (`ChainIsLeast`).
`SoundLists` puts `ListsAreSound` in these terms; with the types and `ArmedIsLinked` it is inductive
(`ListInv`). Every step then is one of `Countdown` or a stutter: what is still to be counted hangs on the
link the walk has come to, or on the new list (`Uncounted`). `TimersKeepTheirLists` says all
three of the platform's timers, under `PlatformTimerAssumption` (a time converts to a start time and period).

**`RfManagerProofs`**: any configurations and receptions. The three safety properties hold
together, by the inductive invariant `IInv`. None is inductive by itself: that an
interrupt finds no flags of a cancelled operation rests on what it can find at
each place of the handler.
`Stopped`: the active flag is down from `standby` to `arm`. `Cleared`: no flags are
pending from `release` to `command`. `Started`: in `arm` and `command` the recorded
operation is that of the request. `RadioRunsOperation`: the radio is doing what is
recorded as active. `Prepared`: the direction flag and the antenna switch
belong to it. One lemma per action (`HostKeepsIInv`, `StopKeepsIInv`, `PerformKeepsIInv`,
`StartKeepsIInv`, `RadioKeepsIInv`, `RadioIrqKeepsIInv`), then `Inductive`, from which `TypeCorrect`,
`IndicationsStayCurrent`, `CancellationHolds` and `SwitchIsSafe` follow.

On `IInv` rests a second invariant, `MInv`, for `NothingFails` and `ModesAgree`. That the queue
never fills needs a count of completions, of those in the queue and of the one a radio that is busy,
or has a flag pending, still *owes*: `QueueIsShort` says what they add up to, in front of and
behind the one request that may wait. That no callback asserts and the modes agree needs what the
guards of the state machine admitted, kept until the radio is commanded (`OperationAdmitted`,
`RequestAdmitted`), and that a pending indication is the only one (`OneIndication`).

**`HostLinkProofs`**: any set of requests, encodings, capacities and bounds. `LInv` (types, what the
handler holds at each place, the two parts of `NothingIsStranded`) is inductive and gives
`LinkTypeCorrect` and `LinkStrandsNothing`. `LinkFramesExactly` needs `FInv` as well: the bytes
received are those consumed and those in the RX FIFO; the assembly is what lies behind the last
delimiter of the consumed part, as far as it fits; and the requests published are the frames of that
part, each at its rank. A byte consumed ends one frame or none and leaves the earlier ones alone
(`FramesOfAppend`), by an argument about the greatest delimiter below a position. An error the USART
detects stops the link where it is (`failed = "line"`), and so keeps both; `LinkHoldsWhatComes`
leaves it as the only thing that can stop it. The theorem proves `NothingOverflows` under `Sized`:
the longest request fits the RX FIFO with its delimiter (255 bytes to transmit make 264, the
capacity of the program), and the event queue holds three events (the program has five slots; with
two, TLC finds the overflow). Its `OverflowInv` says that only the next byte to be read can begin a
request (`OneFrame`), so that one transmission of the host yields one response whatever is lost or
damaged, also when the rest of an earlier frame is still in the assembly (`Spent`, `OneResponse`),
and which queues each place of the handler meets (`Shapes`). Assumed besides the types: `DELIMITER`
and `JUNK` are no parts of a request.

**`PosixCoreProofs`**: any objects, table of segments, input length, number of processors and
signals. `FlushHasOneWriter`: `HandlersNest` says that each frame has a signal of its own, and
that whoever writes the profile noted the attempt before any frame above it asked.
`WakeupsAreNotLost` and `InputIsTakenApart` share `CoreInv`: the ready set is exact *only up to the
object being served*, whose bit the loop clears later, and a segment's events are gone only
when the loop found nothing ready; `ReadyIsExact` and `QuietBetween` say where in the loop each holds. The
search of the ready set goes through `FindMax`, so that `Min` over bytes is involved
(`MinOfNaturals`). Assumed besides the types: the objects lie in 1 to `EDF_MAX_ACTIVE_OBJECT`.

**`RadioHalProofs`**: any configurations and lengths. `HalInv` has, besides the types,
`InterruptIsKept` (who has masked the interrupt is alone and remembers that it was enabled),
`LineIsTrusted` (the radio sleeps only when the HAL has noted that it may, since the busy line is trusted
otherwise), and `Initialising`, which follows the literal program of `rfManagerHal_init` step by
step: its assertions on mode and errors hold by what its earlier steps did. Every other program is
made of `Ordinary` steps, whatever the object's configuration.
`RadioStaysProgrammed` looks ahead instead: what the radio holds is right because of what the
program in hand has done, and will do. `Programmed` relates a `View` (configuration in force, active flag,
mode and registers) to the rest of both programs. A radio that is not quiet is `Ready`, with all
registers of its configuration; the rest of a program is harmless, or starts an operation with the
length written before (`Acting`), or stops first and then sends (`Sends`) or configures
(`Configures`: each register needed holds its value already or has it coming, with no change of the
packet type behind it). The interrupt handler may start a reception over in the middle of all that, but
only before `rfManagerHal_stop` has cleared the flag (`StopsFirst`, `Halted`), and so before the
registers change. One lemma per kind of step (`HandlerStep`, `CallBackStep`, `StartStep`, `SendStep`,
`ConfigureStep`), and one per request that its program fits the idle object (`RequestFits`).

**`PreemptiveKernelProofs`**: any objects, any thresholds registration accepts
(`ThresholdsAreConsistent`), any depth of the stack. `PreemptionIsOrdered` and `NothingIsMissed` are
not inductive: what `EDF_core_activate` restores when a frame ends comes from that frame, and what
an unlock restores from the publication that locked. `KernelInv` therefore says what each frame
remembers of the one below (`Ordered`), that whom a publication posts to first stays below every
ceiling that can be restored before it ends (`Locked`, `Unlocks`), why an object is ready
(`ReadyIsExact`), and that a decision made in an interrupt stands until PendSV acts on it
(`DecisionStands`). All of it is about what `FindMax` finds (`FindMaxIs`), in any number of bytes.
The lock of a publication is for the subscriber it posts to first (`Lead`); once that one has its
event, which it cannot take, it hides all others the publication addresses from the search (`Begun`,
`Hidden`), so that none of them may run before the end (`MayRun`). From it follow
`PreemptionOrders`, `WhatIsPostedIsSeen` and the action property `HighestIsDispatched`.
`ExampleRunsOnKernel` shows that every step of the preemption example is one of the kernel or leaves
it alone, so that the three hold of `ExampleSpec`, which the run checks. On top of it
`ExecutionIsAlwaysCharged` proves `ExecutionIsCharged`, for any workers, budget and bounds.
`WorkerInv` follows one worker's clock from its activation on: the time it ran is charged, or will
be at the next reading (`Charged`), and a switch turns the second into the first (`PausedIsRight`,
`ResumedIsRight`). A worker that is not done has a frame on the stack that has its event
(`HasFrame`), so that by `Ordered` it is not activated a second time in the middle of its handler.
Assumed: `MAX_ACTIVE_OBJECT` + 1 fits the octet `lock_ceiling`, with which `EDF_init` locks.

**`EventLifecycleProofs`**: any numbers of objects, outside publishers and blocks, any length of
the queues. `RefCountsHolders` is about the cardinality of sets of places; each step
moves one element of one of them, so that its lemmas count what a post, a get and a post
at the front do to the positions of an event (`AppendCounts`, `TailCounts`, `PrependCounts`), and what
a step does to what an actor has in hand (`HandCounts`). The rest of `LifeInv` says why a release
finds nobody else: a block that is about to be published or released is alone (`FreshIsAlone`),
and a free one is in no hands (`FreeIsUnheld`). `LifecycleTypeCorrect`, `BlocksStayAccounted` and
`CountsFollowReferences` follow, with interrupts or threads as the publishers outside.
`CountsStayExact` has the hypothesis `PREEMPTS` (see section 4) and needs a bound that no count by
itself gives: an object has a block in two places at most (`KeptTwice`), since it comes by it once
(`ComesOnce`, `OnePublisher`), defers what it dispatches, and recalls what it deferred earlier;
whoever is about to take one more reference has room for it (`ObjectsWithinLimit`,
`OutsiderWithinLimit`: an interrupt's block is only queued, as no object has run since).

**`HostCommandProofs`**: any frames of bytes that fit in the RX buffer once encoded, any harm the
line does to them, any reports, and any capacities as large as the code's
(`HostCommandAssumption`: a decoded frame is an encoded one less a byte at least, holds the longest
answer, and fits in the TX FIFO once encoded). First the codecs, for data of any length:
`RoundTrip` (what is encoded is decoded to itself, its delimiter is its only zero and its length
within `ENCODED_SIZE`), `UnstuffIsBounded` (decoding anything, damaged or not, yields fewer bytes
than arrived), `SetOfGet` (a configuration read from a payload of any packet type is written back
to the same bytes, the two's complement of the power and the byte order of the sync word included) and
`ValidIsProgrammable` (what `isConfigurationValid` accepts passes the assertions of the HAL,
yields a bit rate divisor of 24 bits and a timeout that is none of the radio's special values).
Then the path. `HostCommandInvariant` says that what arrives are bytes, what is published
is a request with the payload of its command, the configuration kept is the one read from the bytes
kept, and no array was overrun (`BytesKept`); and that the ring of the TX FIFO, from its read index
around its end, carries the answers due, one encoded frame behind the other (`AnswersKept`, whose
`Carries` names the cuts between them), unless one found no room behind another.
`ProgrammableAtAllTimes`, `AnswersStayExact` and `NothingOverrunsEver` follow; and, with
`ArrivesWhole` (what has arrived is the encoding of what was sent, or has been damaged),
`RequestsAlwaysComeThrough`: any decoded bytes pass the length check in 16 bits and the CRC, and
are published, exactly when they are the frame that command and payload would be sent in
(`FrameIsMeant`).

The functions of the codecs recur over positions, and the provers have no induction. Where a proof
needs one, it goes through the set of the positions for which the statement holds: the numbers
outside it have a least element, as the order of the naturals is well-founded, and that is a
contradiction (`LeastNatural`, `EveryNatural`; `GreatestBelow` in `HostLinkProofs`). Of the CRC,
which `FrameCodec` takes sixteen bytes at a time to keep TLC's evaluation shallow, what is proved is
that it is a number of 16 bits, read as it was written.

**Only model-checked.** Liveness, all of it: the prover has no fairness and no `ENABLED`.
`DamageIsNoticed`: that a frame with one byte harmed is noticed is a property of the CRC on
such frames, found out by computing it. `MiddlewareIsSound`, which compares the codecs, byte order
and FIFOs with their definitions on all short strings, and the test support, whose functions are run
over strings of operations.

## 6. Not modelled

* Registration, an assumption of the kernel (`ThresholdsAreConsistent`). The choice among several
  pools by block size: the dongle has one.
* Register-level context switching, stack depth, the FPU context, and the critical sections
  themselves: they are the atomicity of the actions. GPIO traces of the examples.
* The depth of the pools for both managers together (`main.c`): each module takes a sufficient pool
  or, in `EventLifecycle`, one that may be empty.
* `emf_log` and `emf_utils`; of the standard output of the STM32F103 the debug receiver and the set-up
  of the USART.
* POSIX cores: a SIGINT that arrives in the shutdown callback and runs it again, the start-up
  mutex destroyed while a thread still waits for it, what other threads do while a fatal signal is handled.
  De-initialisation of the platform timer.
* The waveform: registers of the radio hold the configuration they were written from, not bits.
  Third-party drivers and hardware are external.
* Host builds of both HALs, which are stubs; the command-line interface and the tools, which
  are sequential or pure I/O.

## 7. Plan

Done, in this order, the most important behaviour first: the event queue with
its proofs; the RF manager with its proofs; the state machine; event lifetimes; the kernel;
the host link; time events and the platform timer; then the radio HAL at the level of bus transactions, the
host commands at the level of bytes with the codecs and FIFOs, the POSIX cores with their
fuzzing input and signals, both examples, and the test support.

Next, to model: `Dongle`, both managers with the pools and queues of `main.c`, for the depth of
the pools and for findings 1 and 4 end to end.
