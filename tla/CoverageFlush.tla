--------------------------- MODULE CoverageFlush ---------------------------
(***************************************************************************)
(* The fatal signals of the fuzzing port (posix_non_preemptive_fuzz,       *)
(* edf_core.c): a handler writes the coverage profile once, restores the   *)
(* action it replaced and raises the signal again.  A signal is blocked    *)
(* while its own handler runs, and only then: other signals nest.          *)
(***************************************************************************)
EXTENDS Naturals, SequencesExt

CONSTANTS
  Signal,            \* coverageFlushSignals
  PROFILED           \* whether __llvm_profile_write_file is linked in

ASSUME FlushAssumption == PROFILED \in BOOLEAN

VARIABLES
  attempted,    \* llvmCoverageFlushAttempted
  restored,     \* the signals that have their previous, terminating action again
  frames,       \* the handlers on the main thread's stack: signal and position
  pending,      \* the blocked signals that have arrived
  killer        \* the signals that have terminated the process: none or one

flushVars == <<attempted, restored, frames, pending, killer>>

\* installCoverageFlushSignalHandlers()
FlushInit ==
  /\ attempted = FALSE /\ restored = {} /\ frames = <<>>
  /\ pending = {} /\ killer = {}

Interrupted == frames # <<>>
Killed == killer # {}
Frame == Last(frames)
At(pc) == ~Killed /\ Interrupted /\ Frame.pc = pc
Goto(pc) == frames' = Front(frames) \o <<[Frame EXCEPT !.pc = pc]>>
Blocked == {frames[i].sig : i \in DOMAIN frames}

\* The kernel delivers a signal to the process.
Deliver(s) ==
  /\ ~Killed
  /\ \/ /\ s \in Blocked
        /\ pending' = pending \cup {s}
        /\ UNCHANGED <<frames, killer>>
     \/ /\ s \notin Blocked /\ s \notin restored
        /\ frames' = Append(frames, [sig |-> s, pc |-> "test"])
        /\ UNCHANGED <<pending, killer>>
  /\ UNCHANGED <<attempted, restored>>

\* maybeFlushLlvmCoverage(): the test.
TestAttempted ==
  /\ At("test")
  /\ Goto(IF attempted THEN "restore" ELSE "mark")
  /\ UNCHANGED <<attempted, restored, pending, killer>>

\* Mutant: the attempt is noted only when it is over.
MarkAttemptedLate ==
  /\ At("mark")
  /\ Goto(IF PROFILED THEN "write" ELSE "restore")
  /\ UNCHANGED <<attempted, restored, pending, killer>>

\* llvmCoverageFlushAttempted = 1
MarkAttempted ==
  /\ At("mark")
  /\ attempted' = TRUE
  /\ Goto(IF PROFILED THEN "write" ELSE "restore")
  /\ UNCHANGED <<restored, pending, killer>>

\* __llvm_profile_write_file() returns.
WriteProfile ==
  /\ At("write")
  /\ attempted' = TRUE
  /\ Goto("restore")
  /\ UNCHANGED <<restored, pending, killer>>

\* sigaction() with the previous action: every signal handled is in the table.
RestoreAction ==
  /\ At("restore")
  /\ restored' = restored \cup {Frame.sig}
  /\ Goto("raise")
  /\ UNCHANGED <<attempted, pending, killer>>

\* raise(): the signal is blocked, so it waits for the handler to return.
Raise ==
  /\ At("raise")
  /\ pending' = pending \cup {Frame.sig}
  /\ Goto("return")
  /\ UNCHANGED <<attempted, restored, killer>>

\* The handler returns, its signal is unblocked and, if pending, delivered.
ReturnFromHandler ==
  /\ At("return")
  /\ frames' = Front(frames)
  /\ killer' = {Frame.sig} \cap pending \cap restored
  /\ pending' = pending \ {Frame.sig}
  /\ UNCHANGED <<attempted, restored>>

HandlerStep ==
  \/ TestAttempted
  \/ MarkAttempted
  \/ WriteProfile
  \/ RestoreAction
  \/ Raise
  \/ ReturnFromHandler

-----------------------------------------------------------------------------
(* Whatever signals arrive, and however they nest, the profile is written  *)
(* by one handler at most; the process dies of a signal whose original     *)
(* action is back, after a flush was attempted; and no handler returns to  *)
(* the program it interrupted.                                             *)
FlushIsExclusive ==
  /\ \A i, j \in DOMAIN frames :
       frames[i].pc = "write" /\ frames[j].pc = "write" => i = j
  /\ Killed => killer \subseteq restored /\ attempted
  /\ restored # {} => Interrupted \/ Killed
=============================================================================
