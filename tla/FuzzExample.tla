---------------------------- MODULE FuzzExample ----------------------------
(***************************************************************************)
(* The application of the fuzzing example (fuzz_example.c): a machine that *)
(* is set up, started, fed with steps and finished, run by the engine of   *)
(* HsmTransition.  Its reserved setups and sequences crash or hang it.     *)
(* Counters that nothing reads are left out, and the ping with them.       *)
(***************************************************************************)
EXTENDS HsmTransition

CONSTANTS
  Setups,          \* bound: the setup events [slot, gate, target]
  Steps,           \* bound: the step events [slot, value, flags]
  MAX_SUMMED,      \* bound: values in a sum
  MAX_COLLECTED    \* bound: values collected from a start, setup or reset on

Flags == {"boost", "stop", "clear"}     \* fuzzExample_stepFlag_t

ExampleStates == {"operational", "standby", "armed", "collecting"}

\* No other machine's transition leads into this one, and no initial transition to its
\* inner states but standby.
ASSUME ExampleAssumption ==
  /\ ExampleStates \subseteq State
  /\ \A arc \in Arcs : arc[2] \notin ExampleStates
  /\ \A s \in DOMAIN InitialOf : InitialOf[s] \notin {"armed", "collecting"}
  /\ MAX_SUMMED \in Nat \ {0} /\ MAX_COLLECTED \in Nat \ {0}
  /\ \A u \in Setups : {u.slot, u.gate, u.target} \subseteq 0..255
  /\ \A p \in Steps : p.value \in 0..255 /\ p.flags \subseteq Flags

VARIABLES
  runtime,    \* fuzzExample_t: the setup, running_sum and collected_count
  taken,      \* history: the values collected and not cleared
  cleared,    \* history: how many were collected before those, and cleared
  gated,      \* history: the collection began with a step that passed the gate
  halted      \* the reserved path that was taken: "no", "crash" or "hang"

exampleVars == <<runtime, taken, cleared, gated, halted>>

DefaultSetup == [slot |-> 16, gate |-> 32, target |-> 2]
Runtime(setup, sum, count) == [setup |-> setup, sum |-> sum, count |-> count]
resetRuntime == Runtime(DefaultSetup, 0, 0)

ExampleInit ==
  /\ HsmInit
  /\ runtime = resetRuntime
  /\ taken = <<>> /\ cleared = 0 /\ gated = FALSE /\ halted = "no"

CRASH_SETUP  == [slot |-> 199, gate |-> 0, target |-> 1]
HANG_SETUP   == [slot |-> 225, gate |-> 0, target |-> 1]
FINISH_CRASH == Runtime([slot |-> 17, gate |-> 17, target |-> 2], 51, 2)
STEP_HANG_VALUE == 254

\* fuzzExample_adjustValue(): the boost saturates.
Adjusted(p) ==
  IF "boost" \notin p.flags THEN p.value
  ELSE IF p.value + 32 > 255 THEN 255 ELSE p.value + 32

Accepts(setup) == setup.slot # 0 /\ setup.gate < 240 /\ setup.target > 0

acceptsSlot(p) == p.slot = runtime.setup.slot
shouldCrashOnSet(setup) == setup = CRASH_SETUP
shouldHangOnSet(setup) == setup = HANG_SETUP

HangsOn(p) ==
  /\ "stop" \notin p.flags /\ "boost" \in p.flags
  /\ runtime.count >= 2 /\ Adjusted(p) = STEP_HANG_VALUE

In(states) == phase = "settled" /\ ~stopped /\ halted = "no" /\ current_state \in states
Handled == UNCHANGED hsmVars
Halt(how) == halted' = how /\ UNCHANGED <<hsmVars, runtime, taken, cleared, gated>>

\* fuzzExample_applySet(), in any of the three states.
Set(setup) ==
  /\ In({"standby", "armed", "collecting"})
  /\ \/ shouldCrashOnSet(setup) /\ Halt("crash")
     \/ shouldHangOnSet(setup) /\ Halt("hang")
     \/ /\ ~shouldCrashOnSet(setup) /\ ~shouldHangOnSet(setup) /\ Accepts(setup)
        /\ runtime' = Runtime(setup, 0, 0)
        /\ taken' = <<>> /\ cleared' = 0 /\ gated' = FALSE
        /\ UNCHANGED halted /\ Handled

\* Mutant: a start keeps what was collected before.
StartOver ==
  /\ In({"standby"})
  /\ Transit("standby", "armed")
  /\ taken' = <<>> /\ cleared' = 0
  /\ UNCHANGED <<runtime, gated, halted>>

\* FUZZ_EXAMPLE_START_SIG
StartCollection ==
  /\ In({"standby"})
  /\ runtime' = Runtime(runtime.setup, 0, 0)
  /\ Transit("standby", "armed")
  /\ taken' = <<>> /\ cleared' = 0
  /\ UNCHANGED <<gated, halted>>

\* A step that the slot and the gate let through: fuzzExample_beginCollecting().
BeginCollecting(p) ==
  /\ In({"armed"}) /\ acceptsSlot(p) /\ Adjusted(p) >= runtime.setup.gate
  /\ runtime' = Runtime(runtime.setup, Adjusted(p), 1)
  /\ Transit("armed", "collecting")
  /\ taken' = <<Adjusted(p)>> /\ cleared' = 0 /\ gated' = TRUE
  /\ UNCHANGED halted

\* The steps after it need the slot only.  The count is an uint8_t that nothing checks.
Collect(p) ==
  /\ In({"collecting"}) /\ acceptsSlot(p)
  /\ \/ HangsOn(p) /\ Halt("hang")
     \/ /\ ~HangsOn(p)
        /\ cleared + Len(taken) < MAX_COLLECTED
        /\ LET clears == "clear" \in p.flags
               kept == IF clears THEN 0 ELSE runtime.sum
           IN /\ clears \/ Len(taken) < MAX_SUMMED
              /\ runtime' = Runtime(runtime.setup, (kept + Adjusted(p)) % 65536,
                                    (runtime.count + 1) % 256)
              /\ taken' = (IF clears THEN <<>> ELSE taken) \o <<Adjusted(p)>>
              /\ cleared' = IF clears THEN cleared + Len(taken) ELSE cleared
        /\ IF "stop" \in p.flags THEN Transit("collecting", "standby") ELSE Handled
        /\ UNCHANGED <<gated, halted>>

\* FUZZ_EXAMPLE_FINISH_SIG
Finish ==
  /\ In({"collecting"})
  /\ \/ runtime = FINISH_CRASH /\ Halt("crash")
     \/ /\ runtime # FINISH_CRASH /\ Transit("collecting", "standby")
        /\ UNCHANGED exampleVars

\* FUZZ_EXAMPLE_RESET_SIG, which the superstate handles.
Reset ==
  /\ In({"standby", "armed", "collecting"})
  /\ runtime' = resetRuntime
  /\ Transit("operational", "standby")
  /\ taken' = <<>> /\ cleared' = 0
  /\ UNCHANGED <<gated, halted>>

ExampleNext ==
  \/ HsmNext /\ UNCHANGED exampleVars
  \/ StartCollection
  \/ Finish
  \/ Reset
  \/ \E setup \in Setups : Set(setup)
  \/ \E p \in Steps : BeginCollecting(p) \/ Collect(p)

ExampleSpec == ExampleInit /\ [][ExampleNext]_<<hsmVars, exampleVars>>

-----------------------------------------------------------------------------
Total(s) ==
  LET sum[i \in 0..Len(s)] == IF i = 0 THEN 0 ELSE sum[i - 1] + s[i] IN sum[Len(s)]

(* Through every order of setups, starts, steps, finishes and resets, with *)
(* the transitions of the engine between them: the sum is that of the      *)
(* values collected since the last start, setup, reset or clear, and the   *)
(* count that of all collected since a start, setup or reset, each in the  *)
(* bits it has; an armed machine has collected nothing; a collection began *)
(* with a step at or above the gate, unless a setup replaced it on the way *)
(* (fuzz_example.c).  The count is not the number of values when they are  *)
(* 256 or more: it wraps, and a machine that has collected may count none. *)
RuntimeIsAccounted ==
  /\ Accepts(runtime.setup)
  /\ runtime.sum = Total(taken) % 65536
  /\ runtime.count = (cleared + Len(taken)) % 256
  /\ current_state = "armed" /\ phase = "settled" => taken = <<>> /\ cleared = 0
  /\ current_state = "collecting" /\ phase = "settled" /\ gated =>
       /\ taken # <<>>
       /\ cleared = 0 => Head(taken) >= runtime.setup.gate
=============================================================================
