---------------------------- MODULE PlatformTimer ----------------------------
(***************************************************************************)
(* The POSIX timers of the platform framework (epf_timer.c): the lists and *)
(* the walk of TimeEvent under a mutex, with times in nanoseconds, a       *)
(* callback for a post, and a ticker thread that sleeps until next_tick.   *)
(***************************************************************************)
EXTENDS TimeEvent

CONSTANTS
  TICK_NS,    \* the nanoseconds of a tick
  Time,       \* the times timers are armed with, in nanoseconds
  MAX_TIME,   \* bound of the clock,
  MAX_TICKS   \* and of the count of ticks, which stops there

VARIABLES
  now,        \* CLOCK_MONOTONIC
  next_tick,  \* the time the ticker sleeps until
  ticks       \* history: how often it has woken

timerVars == <<vars, now, next_tick, ticks>>
clock == <<now, next_tick, ticks>>

NsToTicks(ns) == (ns + TICK_NS - 1) \div TICK_NS

ASSUME PlatformTimerAssumption ==
  /\ TICK_NS \in Nat \ {0} /\ Time \subseteq Nat
  /\ \A time \in Time : NsToTicks(time) \in Period /\ (time > 0 => NsToTicks(time) \in Start)

TimerInit ==
  /\ Init
  /\ now \in 0..(TICK_NS - 1)
  /\ next_tick = (now \div TICK_NS) * TICK_NS
  /\ ticks = 0

TimePasses ==
  /\ now < MAX_TIME
  /\ now' = now + 1
  /\ UNCHANGED <<vars, next_tick, ticks>>

TimerArm(te, start, p) ==
  start > 0 /\ Arm(te, NsToTicks(start), NsToTicks(p)) /\ UNCHANGED clock
TimerDisarm(te) == Disarm(te) /\ UNCHANGED clock
TimerRearm(te, time) ==
  time > 0 /\ Rearm(te, NsToTicks(time)) /\ UNCHANGED clock

\* clock_nanosleep() until the absolute time next_tick returns.
Wakes ==
  /\ next_tick <= now
  /\ TickBegins
  /\ ticks' = IF ticks < MAX_TICKS THEN ticks + 1 ELSE ticks
  /\ UNCHANGED <<now, next_tick>>

\* The rounds of the loop over the timers, the callbacks, and back to sleep.
TickerVisits(te) == Visit(te) /\ UNCHANGED clock
CallsBack == Post /\ UNCHANGED clock
SleepsAgain == TickEnds /\ UNCHANGED clock

TimerNext ==
  \/ TimePasses \/ Wakes \/ CallsBack \/ SleepsAgain
  \/ \E te \in TimeEvent :
       \/ TimerDisarm(te) \/ TickerVisits(te)
       \/ \E time \in Time : TimerRearm(te, time) \/ \E p \in Time : TimerArm(te, time, p)

TimerSpec == TimerInit /\ [][TimerNext]_timerVars

\* Both users of the lists: time events whose tick the application calls, and timers
\* with their ticker.  The ticker thread is scheduled, and the tick is called, for ever.
EitherNext == TimerNext \/ (Next /\ UNCHANGED clock)
EitherSpec ==
  /\ TimerInit /\ [][EitherNext]_timerVars
  /\ WF_timerVars(Tick /\ UNCHANGED clock)

-----------------------------------------------------------------------------
\* The ticker wakes once for each tick of the clock, late perhaps, but never ahead.
TicksKeepTime == ticks <= now \div TICK_NS + 1
=============================================================================
