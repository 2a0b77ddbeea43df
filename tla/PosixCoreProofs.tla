---------------------------- MODULE PosixCoreProofs ----------------------------
(***************************************************************************)
(* For every set of objects, table, port and pattern of signals: the cores *)
(* for POSIX lose no wake-up, the fuzzing port takes its testcase apart    *)
(* exactly, and the coverage profile has one writer.  The ready set is     *)
(* exact only up to the object being served, and a segment's events are    *)
(* gone only once the loop has found nothing ready: the invariant says     *)
(* where in the loop each of the two holds.                                *)
(***************************************************************************)
EXTENDS PosixCore, WellFoundedInduction, SequenceTheorems, TLAPS

Position == {"test", "mark", "write", "restore", "raise", "return"}
Handler == [sig : Signal, pc : Position]

(* The handlers nest: each has a signal of its own, and whoever writes the *)
(* profile has noted the attempt before any handler above it asked.        *)
HandlersNest ==
  /\ attempted \in BOOLEAN
  /\ frames \in Seq(Handler)
  /\ \A i \in DOMAIN frames :
       /\ frames[i].pc \in {"write", "restore", "raise", "return"} => attempted
       /\ frames[i].pc \in {"raise", "return"} => frames[i].sig \in restored
       /\ ~Killed /\ frames[i].pc = "return" => frames[i].sig \in pending
  /\ \A i, j \in DOMAIN frames :
       /\ frames[i].sig = frames[j].sig => i = j
       /\ i < j /\ frames[i].pc = "write" => frames[j].pc \notin {"mark", "write"}

FlushInv == HandlersNest /\ FlushIsExclusive

CoreTypeOK ==
  /\ port \in {"preemptive", "cooperative", "fuzz"}
  /\ main \in {"starting", "entering", "spinning", "segment", "publishing", "deciding",
               "getting", "handling", "settling", "idle", "shutdown", "ended"}
  /\ thread \in [Object -> {"none", "served", "lock", "unlock", "getting", "woken",
                            "handling", "waiting"}]
  /\ queued \in [Object -> Seq(Nat)]
  /\ isRunning \in BOOLEAN /\ inSection \in BOOLEAN /\ stopped \in BOOLEAN
  /\ ready \in SUBSET Object /\ current \in Object \cup {0}
  /\ input \in [len : Nat, offset : Nat, entry : DOMAIN FuzzTable \cup {0},
                left : SUBSET Object]

NonEmpty == {o \in Object : queued[o] # <<>>}
Served == IF main \in {"handling", "settling"} THEN {current} ELSE {}

(* The preemptive core: whoever waits has nothing to wait for. *)
WaitersAreIdle == Preemptive => \A o \in Object : thread[o] = "waiting" => queued[o] = <<>>

(* The loop: the ready set is the objects with events, and the one served. *)
ReadyIsExact ==
  ~Preemptive =>
    /\ NonEmpty \subseteq ready
    /\ main = "ended" \/ ready \subseteq NonEmpty \cup Served
    /\ main \in {"getting", "handling", "settling"} => current \in Object
    /\ main = "getting" => queued[current] # <<>>

Quiet == \A o \in Object : Range(queued[o]) \subseteq {0}

OfSegment == \A o \in Object : Range(queued[o]) \subseteq {0, Segment}

(* The fuzzing port: the payload of its segment is within the testcase. *)
SegmentInBounds ==
  Fuzzing =>
    /\ main = "publishing" =>
         input.offset + SELECTOR + FuzzTable[input.entry].size <= input.len
    /\ main \in {"publishing", "entering"} \/ Looping => input.entry \in DOMAIN FuzzTable

(* Until it is stopped, the loop is only left, and a segment only begun, when the *)
(* framework has found nothing to do.                                             *)
QuietBetween ==
  Fuzzing /\ ~stopped =>
    /\ OfSegment
    /\ main \in {"starting", "segment", "idle"} \/ (main = "deciding" /\ ~isRunning) => Quiet
    /\ main \in {"getting", "handling", "settling"} => isRunning

CoreInv == CoreTypeOK /\ WaitersAreIdle /\ ReadyIsExact /\ SegmentInBounds /\ QuietBetween

-----------------------------------------------------------------------------
(* The fatal signals. *)

(* All but the last of a sequence. *)
LEMMA FrontIs ==
  ASSUME NEW S, NEW s \in Seq(S), s # <<>>
  PROVE  /\ Front(s) \in Seq(S) /\ Len(Front(s)) = Len(s) - 1
         /\ \A i \in 1..(Len(s) - 1) : Front(s)[i] = s[i]
         /\ Len(s) \in Nat \ {0} /\ Last(s) = s[Len(s)] /\ Last(s) \in S
  <1>1. Len(s) \in Nat \ {0} /\ s[Len(s)] \in S
    OBVIOUS
  <1> DEFINE k == Len(s) - 1
  <1>2. k \in Nat /\ k <= Len(s)
    BY <1>1
  <1> HIDE DEF k
  <1>3. /\ SubSeq(s, 1, k) \in Seq(S) /\ Len(SubSeq(s, 1, k)) = k
        /\ \A i \in 1..k : SubSeq(s, 1, k)[i] = s[i]
    BY <1>2
  <1> QED
    BY <1>1, <1>3, Zenon DEF Front, Last, k

(* A handler's step moves the handler on top of the stack, and no other. *)
LEMMA GotoMoves ==
  ASSUME frames \in Seq(Handler), frames # <<>>, NEW p \in Position, Goto(p)
  PROVE  LET n == Len(frames) IN
         /\ frames' \in Seq(Handler) /\ Len(frames') = n /\ n \in Nat \ {0}
         /\ \A i \in 1..(n - 1) : frames'[i] = frames[i]
         /\ frames'[n].sig = frames[n].sig /\ frames'[n].pc = p /\ Frame = frames[n]
  <1> DEFINE n == Len(frames)
             h == [Frame EXCEPT !.pc = p]
  <1>1. /\ Front(frames) \in Seq(Handler) /\ Len(Front(frames)) = n - 1
        /\ \A i \in 1..(n - 1) : Front(frames)[i] = frames[i]
        /\ n \in Nat \ {0} /\ Frame = frames[n] /\ Frame \in Handler
    BY FrontIs DEF Frame
  <1>2. h \in Handler /\ h.sig = Frame.sig /\ h.pc = p
    BY <1>1 DEF Handler
  <1> HIDE DEF h, n
  <1>3. /\ <<h>> \in Seq(Handler) /\ Len(<<h>>) = 1 /\ <<h>>[1] = h
    BY <1>2
  <1>4. /\ Front(frames) \o <<h>> \in Seq(Handler)
        /\ Len(Front(frames) \o <<h>>) = n
        /\ \A i \in 1..(n - 1) : (Front(frames) \o <<h>>)[i] = frames[i]
        /\ (Front(frames) \o <<h>>)[n] = h
    BY <1>1, <1>3, ConcatProperties
  <1>5. frames' = Front(frames) \o <<h>>
    BY DEF Goto, h
  <1> QED
    BY <1>1, <1>2, <1>4, <1>5 DEF n

(* A step of the handler on top that keeps to what the position promises. *)
LEMMA MoveKeepsNest ==
  ASSUME HandlersNest, ~Killed, frames # <<>>, NEW p \in Position, Goto(p), killer' = killer,
         attempted' \in BOOLEAN, attempted => attempted',
         restored \subseteq restored', pending \subseteq pending',
         p \in {"write", "restore", "raise", "return"} => attempted',
         p \in {"raise", "return"} => Frame.sig \in restored',
         p = "return" => Frame.sig \in pending',
         p = "mark" => ~attempted,
         p = "write" => Frame.pc \in {"mark", "write"}
  PROVE  HandlersNest'
  <1> DEFINE n == Len(frames)
  <1>1. /\ frames' \in Seq(Handler) /\ Len(frames') = n /\ n \in Nat \ {0}
        /\ \A i \in 1..(n - 1) : frames'[i] = frames[i]
        /\ frames'[n].sig = frames[n].sig /\ frames'[n].pc = p /\ Frame = frames[n]
    BY GotoMoves DEF HandlersNest
  <1>2. frames \in Seq(Handler) /\ \A i \in 1..n : frames[i] \in Handler
    BY DEF HandlersNest
  <1> HIDE DEF n
  <1>3. DOMAIN frames' = 1..n /\ DOMAIN frames = 1..n /\ 1..n = 1..(n - 1) \cup {n}
    BY <1>1, <1>2 DEF n
  <1>4. \A i \in 1..n : frames'[i].sig = frames[i].sig
    BY <1>1, <1>3
  <1>5. ASSUME NEW i \in 1..n
        PROVE  /\ frames'[i].pc \in {"write", "restore", "raise", "return"} => attempted'
               /\ frames'[i].pc \in {"raise", "return"} => frames'[i].sig \in restored'
               /\ ~Killed' /\ frames'[i].pc = "return" => frames'[i].sig \in pending'
    <2>1. CASE i = n
      BY <1>1, <2>1
    <2>2. CASE i \in 1..(n - 1)
      BY <1>1, <1>3, <2>2 DEF HandlersNest
    <2> QED
      BY <1>3, <2>1, <2>2
  <1>6. \A i, j \in 1..n : frames'[i].sig = frames'[j].sig => i = j
    BY <1>3, <1>4 DEF HandlersNest
  <1>7. ASSUME NEW i \in 1..n, NEW j \in 1..n, i < j, frames'[i].pc = "write"
        PROVE  frames'[j].pc \notin {"mark", "write"}
    <2>1. i \in 1..(n - 1) /\ frames[i].pc = "write" /\ attempted
      <3>1. i \in 1..(n - 1)
        BY <1>1, <1>7
      <3> QED
        BY <1>1, <1>3, <1>7, <3>1 DEF HandlersNest
    <2>2. frames[j].pc \notin {"mark", "write"}
      BY <1>3, <1>7, <2>1 DEF HandlersNest
    <2>3. CASE j = n
      BY <1>1, <2>1, <2>2, <2>3
    <2>4. CASE j \in 1..(n - 1)
      BY <1>1, <2>2, <2>4
    <2> QED
      BY <1>3, <2>3, <2>4
  <1> QED
    BY <1>1, <1>3, <1>5, <1>6, <1>7 DEF HandlersNest

(* Two handlers that write the profile at a time would be one above the other. *)
LEMMA NestExcludes ==
  ASSUME NEW f \in Seq(Handler),
         \A i, j \in DOMAIN f : i < j /\ f[i].pc = "write" => f[j].pc \notin {"mark", "write"}
  PROVE  \A i, j \in DOMAIN f : f[i].pc = "write" /\ f[j].pc = "write" => i = j
  <1> SUFFICES ASSUME NEW i \in DOMAIN f, NEW j \in DOMAIN f,
                      f[i].pc = "write", f[j].pc = "write", i # j
               PROVE  FALSE
    OBVIOUS
  <1>1. i \in Nat /\ j \in Nat
    OBVIOUS
  <1>2. ~(i < j) /\ ~(j < i)
    OBVIOUS
  <1> QED
    BY <1>1, <1>2

(* The invariant, once the handlers nest and the process has not been killed wrongly. *)
LEMMA FlushInvFromNest ==
  ASSUME HandlersNest, Killed => killer \subseteq restored /\ attempted,
         restored # {} => Interrupted \/ Killed
  PROVE  FlushInv
  <1>1. frames \in Seq(Handler)
        /\ \A i, j \in DOMAIN frames :
             i < j /\ frames[i].pc = "write" => frames[j].pc \notin {"mark", "write"}
    BY DEF HandlersNest
  <1>2. \A i, j \in DOMAIN frames :
          frames[i].pc = "write" /\ frames[j].pc = "write" => i = j
    BY <1>1, NestExcludes
  <1> QED
    BY <1>2 DEF FlushInv, FlushIsExclusive

LEMMA InitFlushInv == FlushInit => FlushInv
  <1> SUFFICES ASSUME FlushInit PROVE FlushInv
    OBVIOUS
  <1>1. frames \in Seq(Handler) /\ DOMAIN frames = {}
    BY DEF FlushInit
  <1>2. HandlersNest
    BY <1>1 DEF HandlersNest, FlushInit
  <1> QED
    BY <1>2, FlushInvFromNest DEF FlushInit, Killed, Interrupted

LEMMA DeliverKeepsFlushInv ==
  ASSUME FlushInv, NEW s \in Signal, Deliver(s)
  PROVE  FlushInv'
  <1> USE DEF FlushInv
  <1>1. CASE s \in Blocked /\ pending' = pending \cup {s} /\ UNCHANGED <<frames, killer>>
    BY <1>1 DEF Deliver, HandlersNest, FlushIsExclusive, Killed, Interrupted
  <1>2. CASE /\ s \notin Blocked /\ s \notin restored
             /\ frames' = Append(frames, [sig |-> s, pc |-> "test"])
             /\ UNCHANGED <<pending, killer>>
    <2> DEFINE n == Len(frames)
               h == [sig |-> s, pc |-> "test"]
    <2>1. /\ frames \in Seq(Handler) /\ h \in Handler /\ h.sig = s /\ h.pc = "test"
          /\ UNCHANGED <<attempted, restored>> /\ ~Killed
      BY DEF Deliver, HandlersNest, Handler, Position
    <2> HIDE DEF h
    <2>2. /\ frames' \in Seq(Handler) /\ Len(frames') = n + 1 /\ n \in Nat
          /\ \A i \in 1..n : frames'[i] = frames[i]
          /\ frames'[n + 1] = h
      BY <1>2, <2>1 DEF h
    <2>3. \A i \in 1..n : frames[i].sig # s
      BY <1>2, <2>1 DEF Blocked
    <2>4. DOMAIN frames = 1..n /\ DOMAIN frames' = 1..(n + 1)
      BY <2>1, <2>2
    <2> HIDE DEF n
    <2>5. HandlersNest'
      <3>1. ASSUME NEW i \in 1..(n + 1)
            PROVE  /\ frames'[i].pc \in {"write", "restore", "raise", "return"} => attempted'
                   /\ frames'[i].pc \in {"raise", "return"} => frames'[i].sig \in restored'
                   /\ ~Killed' /\ frames'[i].pc = "return" => frames'[i].sig \in pending'
        <4>1. CASE i = n + 1
          BY <2>1, <2>2, <4>1
        <4>2. CASE i \in 1..n
          BY <1>2, <2>1, <2>2, <2>4, <4>2 DEF HandlersNest
        <4> QED
          BY <2>2, <4>1, <4>2
      <3>2. ASSUME NEW i \in 1..(n + 1), NEW j \in 1..(n + 1)
            PROVE  /\ frames'[i].sig = frames'[j].sig => i = j
                   /\ i < j /\ frames'[i].pc = "write" => frames'[j].pc \notin {"mark", "write"}
        <4>1. CASE i \in 1..n /\ j \in 1..n
          BY <2>2, <2>4, <4>1 DEF HandlersNest
        <4>2. CASE i = n + 1 \/ j = n + 1
          BY <2>1, <2>2, <2>3, <4>2
        <4> QED
          BY <2>2, <4>1, <4>2
      <3> QED
        BY <2>1, <2>2, <2>4, <3>1, <3>2 DEF HandlersNest
    <2>6. Interrupted'
      BY <2>2 DEF Interrupted
    <2>7. \A i, j \in DOMAIN frames' :
            frames'[i].pc = "write" /\ frames'[j].pc = "write" => i = j
      BY <2>2, <2>5, NestExcludes DEF HandlersNest
    <2>8. killer' = {}
      BY <1>2, <2>1 DEF Killed
    <2>9. FlushIsExclusive'
      BY <2>6, <2>7, <2>8 DEF FlushIsExclusive, Killed
    <2> QED
      BY <2>5, <2>9
  <1> QED
    BY <1>1, <1>2 DEF Deliver

LEMMA StepKeepsFlushInv ==
  ASSUME FlushInv, HandlerStep
  PROVE  FlushInv'
  <1> USE DEF FlushInv
  <1>1. frames # <<>> /\ ~Killed /\ Frame = frames[Len(frames)] /\ Len(frames) \in DOMAIN frames
    <2>1. \E p \in Position : At(p)
      BY DEF HandlerStep, TestAttempted, MarkAttempted, WriteProfile, RestoreAction, Raise,
             ReturnFromHandler, Position
    <2>2. frames # <<>> /\ ~Killed
      BY <2>1 DEF At, Interrupted
    <2>3. frames \in Seq(Handler)
      BY DEF HandlersNest
    <2>4. Len(frames) \in Nat \ {0} /\ Frame = frames[Len(frames)]
      BY <2>2, <2>3, FrontIs DEF Frame
    <2>5. Len(frames) \in DOMAIN frames
      BY <2>3, <2>4
    <2> QED
      BY <2>2, <2>4, <2>5
  <1>2. /\ attempted \in BOOLEAN
        /\ Frame.pc \in {"write", "restore", "raise", "return"} => attempted
        /\ Frame.pc \in {"raise", "return"} => Frame.sig \in restored
        /\ Frame.pc = "return" => Frame.sig \in pending
    BY <1>1 DEF HandlersNest
  <1>3. killer = {}
    BY <1>1 DEF Killed
  <1>4. ASSUME NEW p \in Position, Goto(p), HandlersNest', killer' = killer
        PROVE  FlushInv'
    <2>1. frames' # <<>> /\ frames' \in Seq(Handler)
      BY <1>1, <1>4, GotoMoves DEF HandlersNest
    <2>2. \A i, j \in DOMAIN frames' :
            frames'[i].pc = "write" /\ frames'[j].pc = "write" => i = j
      BY <1>4, <2>1, NestExcludes DEF HandlersNest
    <2> QED
      BY <1>3, <1>4, <2>1, <2>2 DEF FlushIsExclusive, Killed, Interrupted
  <1>5. CASE TestAttempted
    <2> DEFINE p == IF attempted THEN "restore" ELSE "mark"
    <2>1. Goto(p) /\ p \in Position /\ UNCHANGED <<attempted, restored, pending, killer>>
      BY <1>5 DEF TestAttempted, Position
    <2>2. HandlersNest'
      BY <1>1, <1>2, <2>1, MoveKeepsNest
    <2> QED
      BY <1>4, <2>1, <2>2
  <1>6. CASE MarkAttempted
    <2> DEFINE p == IF PROFILED THEN "write" ELSE "restore"
    <2>1. /\ Goto(p) /\ p \in Position /\ UNCHANGED <<restored, pending, killer>>
          /\ Frame.pc = "mark" /\ attempted' = TRUE /\ p \in {"write", "restore"}
      BY <1>6 DEF MarkAttempted, Position, At
    <2>2. HandlersNest'
      BY <1>1, <1>2, <2>1, MoveKeepsNest
    <2> QED
      BY <1>4, <2>1, <2>2
  <1>7. CASE WriteProfile
    <2>1. /\ Goto("restore") /\ "restore" \in Position
          /\ UNCHANGED <<restored, pending, killer>> /\ attempted' = TRUE
      BY <1>7 DEF WriteProfile, Position
    <2>2. HandlersNest'
      BY <1>1, <1>2, <2>1, MoveKeepsNest
    <2> QED
      BY <1>4, <2>1, <2>2
  <1>8. CASE RestoreAction
    <2>1. /\ Goto("raise") /\ "raise" \in Position /\ Frame.pc = "restore"
          /\ UNCHANGED <<attempted, pending, killer>>
          /\ restored' = restored \cup {Frame.sig}
      BY <1>8 DEF RestoreAction, Position, At
    <2>2. HandlersNest'
      BY <1>1, <1>2, <2>1, MoveKeepsNest
    <2> QED
      BY <1>4, <2>1, <2>2
  <1>9. CASE Raise
    <2>1. /\ Goto("return") /\ "return" \in Position /\ Frame.pc = "raise"
          /\ UNCHANGED <<attempted, restored, killer>>
          /\ pending' = pending \cup {Frame.sig}
      BY <1>9 DEF Raise, Position, At
    <2>2. HandlersNest'
      BY <1>1, <1>2, <2>1, MoveKeepsNest
    <2> QED
      BY <1>4, <2>1, <2>2
  <1>10. CASE ReturnFromHandler
    <2> DEFINE n == Len(frames)
    <2>1. /\ frames' = Front(frames) /\ Frame.pc = "return"
          /\ killer' = {Frame.sig} \cap pending \cap restored
          /\ UNCHANGED <<attempted, restored>>
      BY <1>10 DEF ReturnFromHandler, At
    <2>2. killer' = {Frame.sig} /\ Frame.sig \in restored /\ attempted
      BY <1>2, <2>1
    <2>3. /\ frames' \in Seq(Handler) /\ Len(frames') = n - 1
          /\ \A i \in 1..(n - 1) : frames'[i] = frames[i]
          /\ n \in Nat \ {0} /\ frames \in Seq(Handler)
      BY <1>1, <2>1, FrontIs DEF HandlersNest
    <2>4. DOMAIN frames' = 1..(n - 1) /\ DOMAIN frames = 1..n /\ 1..(n - 1) \subseteq 1..n
      BY <2>3
    <2> HIDE DEF n
    <2>5. HandlersNest'
      <3>1. \A i \in 1..(n - 1) :
              /\ frames'[i].pc \in {"write", "restore", "raise", "return"} => attempted'
              /\ frames'[i].pc \in {"raise", "return"} => frames'[i].sig \in restored'
        BY <2>1, <2>3, <2>4 DEF HandlersNest
      <3>2. \A i, j \in 1..(n - 1) :
              /\ frames'[i].sig = frames'[j].sig => i = j
              /\ i < j /\ frames'[i].pc = "write" => frames'[j].pc \notin {"mark", "write"}
        BY <2>3, <2>4 DEF HandlersNest
      <3>3. Killed' /\ attempted' \in BOOLEAN
        BY <1>2, <2>1, <2>2 DEF Killed
      <3> QED
        BY <2>3, <2>4, <3>1, <3>2, <3>3 DEF HandlersNest
    <2>6. \A i, j \in DOMAIN frames' :
            frames'[i].pc = "write" /\ frames'[j].pc = "write" => i = j
      BY <2>3, <2>5, NestExcludes DEF HandlersNest
    <2> QED
      BY <2>1, <2>2, <2>5, <2>6 DEF FlushIsExclusive, Killed
  <1> QED
    BY <1>5, <1>6, <1>7, <1>8, <1>9, <1>10 DEF HandlerStep

LEMMA FlushInductive == Spec => []FlushInv
  <1>1. Init => FlushInv
    BY InitFlushInv DEF Init
  <1>2. FlushInv /\ [Next]_vars => FlushInv'
    <2> SUFFICES ASSUME FlushInv, [Next]_vars PROVE FlushInv'
      OBVIOUS
    <2>1. CASE UNCHANGED flushVars
      BY <2>1 DEF flushVars, FlushInv, HandlersNest, FlushIsExclusive, Killed, Interrupted
    <2>2. CASE HandlerStep
      BY <2>2, StepKeepsFlushInv
    <2>3. ASSUME NEW s \in Signal, Deliver(s) PROVE FlushInv'
      BY <2>3, DeliverKeepsFlushInv
    <2> QED
      BY <2>1, <2>2, <2>3, Zenon DEF Next, vars
  <1> QED
    BY <1>1, <1>2, PTL DEF Spec

(* However fatal signals nest in the fuzzing port, the profile is written by one handler *)
(* at most, and the process dies of a signal whose action is back, after the attempt.    *)
THEOREM FlushHasOneWriter == Spec => []FlushIsExclusive
  <1>1. FlushInv => FlushIsExclusive
    BY DEF FlushInv
  <1> QED
    BY <1>1, FlushInductive, PTL

-----------------------------------------------------------------------------
(* The helpers. *)

(* A nonempty set of natural numbers has a least element: the order is      *)
(* well-founded.                                                            *)
LEMMA LeastNatural ==
  ASSUME NEW T \in SUBSET Nat, T # {}
  PROVE  \E x \in T : \A y \in T : x <= y
  <1> DEFINE Less == OpToRel(<, Nat)
  <1>1. IsWellFoundedOn(Less, Nat)
    BY NatLessThanWellFounded
  <1>2. \A x, y \in Nat : <<y, x>> \in Less <=> y < x
    BY DEF OpToRel
  <1> HIDE DEF Less
  <1>3. PICK x \in T : \A y \in T : ~(<<y, x>> \in Less)
    BY <1>1, WFMin
  <1>4. ASSUME NEW y \in T PROVE x <= y
    <2>1. x \in Nat /\ y \in Nat
      OBVIOUS
    <2>2. ~(y < x)
      BY <1>2, <1>3, <2>1
    <2> QED
      BY <2>1, <2>2
  <1> QED
    BY <1>4

(* Min returns that element.                                                *)
LEMMA MinOfNaturals ==
  ASSUME NEW S \in SUBSET Nat, S # {}
  PROVE  Min(S) \in S /\ \A y \in S : Min(S) <= y
  BY LeastNatural, Zenon DEF Min

(* A nonempty set of natural numbers that has a bound has a greatest        *)
(* element, which Max returns.                                              *)
LEMMA GreatestBelow ==
  ASSUME NEW n \in Nat, NEW S \in SUBSET (0..n), S # {}
  PROVE  Max(S) \in S /\ \A y \in S : y <= Max(S)
  <1> DEFINE T == {n - x : x \in S}
  <1>1. T \in SUBSET Nat /\ T # {}
    OBVIOUS
  <1>2. PICK t \in T : \A y \in T : t <= y
    BY <1>1, LeastNatural
  <1>3. \E x \in S : \A y \in S : x >= y
    <2>1. PICK x \in S : t = n - x
      OBVIOUS
    <2>2. \A y \in S : n - x <= n - y
      BY <1>2, <2>1
    <2> QED
      BY <2>2
  <1>4. Max(S) \in S /\ \A y \in S : Max(S) >= y
    BY <1>3, Zenon DEF Max
  <1> QED
    BY <1>4

(* The bitmask search returns an object of the set. *)
LEMMA FindMaxIn ==
  ASSUME NEW S \in SUBSET Object
  PROVE  /\ S # {} => FindMax(S) \in S
         /\ FindMax(S) \in Object \cup {0}
  <1>1. Object \in SUBSET Nat /\ Object \in SUBSET (0..EDF_MAX_ACTIVE_OBJECT)
        /\ EDF_MAX_ACTIVE_OBJECT \in Nat
    BY PosixAssumption
  <1>2. CASE S = {}
    BY <1>2 DEF FindMax
  <1>3. CASE S # {}
    <2> DEFINE B == {Byte(p) : p \in S}
               T == {o \in S : Byte(o) = Min(B)}
    <2>1. \A o \in Nat \ {0} : Byte(o) \in Nat
      BY DEF Byte
    <2>2. \A o \in S : o \in Nat \ {0}
      BY PosixAssumption
    <2>3. B \in SUBSET Nat /\ B # {}
      BY <1>3, <2>1, <2>2
    <2>4. Min(B) \in B
      BY <2>3, MinOfNaturals
    <2>5. T \in SUBSET (0..EDF_MAX_ACTIVE_OBJECT) /\ T # {}
      BY <1>1, <2>4
    <2>6. Max(T) \in T
      BY <1>1, <2>5, GreatestBelow
    <2>7. FindMax(S) = Max(T)
      BY <1>3 DEF FindMax
    <2> QED
      BY <2>6, <2>7
  <1> QED
    BY <1>2, <1>3

(* What is in a queue: an event more, or the oldest less. *)
LEMMA RangeOfAppend ==
  ASSUME NEW s \in Seq(Nat), NEW e \in Nat
  PROVE  /\ Append(s, e) \in Seq(Nat) /\ Append(s, e) # <<>>
         /\ Range(Append(s, e)) = Range(s) \cup {e}
  <1>1. /\ Append(s, e) \in Seq(Nat) /\ Len(Append(s, e)) = Len(s) + 1 /\ Len(s) \in Nat
        /\ \A i \in 1..Len(s) : Append(s, e)[i] = s[i]
        /\ Append(s, e)[Len(s) + 1] = e
    OBVIOUS
  <1>2. /\ DOMAIN s = 1..Len(s) /\ DOMAIN Append(s, e) = 1..(Len(s) + 1)
        /\ 1..(Len(s) + 1) = 1..Len(s) \cup {Len(s) + 1}
    BY <1>1
  <1>3. Append(s, e) # <<>>
    BY <1>1
  <1> DEFINE t == Append(s, e)
  <1> HIDE DEF t
  <1>4. /\ \A i \in 1..Len(s) : t[i] = s[i]
        /\ t[Len(s) + 1] = e /\ DOMAIN s = 1..Len(s)
        /\ DOMAIN t = 1..Len(s) \cup {Len(s) + 1}
    BY <1>1, <1>2 DEF t
  <1>5. Range(t) = Range(s) \cup {e}
    BY <1>4 DEF Range
  <1> QED
    BY <1>1, <1>3, <1>5 DEF t

LEMMA RangeOfTail ==
  ASSUME NEW s \in Seq(Nat), s # <<>>
  PROVE  Tail(s) \in Seq(Nat) /\ Range(Tail(s)) \subseteq Range(s)
  <1>1. /\ Tail(s) \in Seq(Nat) /\ Len(Tail(s)) = Len(s) - 1 /\ Len(s) \in Nat
        /\ \A i \in 1..(Len(s) - 1) : Tail(s)[i] = s[i + 1] /\ i + 1 \in 1..Len(s)
    OBVIOUS
  <1>2. DOMAIN s = 1..Len(s) /\ DOMAIN Tail(s) = 1..(Len(s) - 1)
    BY <1>1
  <1> QED
    BY <1>1, <1>2, Zenon DEF Range

-----------------------------------------------------------------------------
(* The events: posts and what the objects take. *)

(* A post keeps the notifications and the segments right, whoever makes it, if *)
(* it stems from the segment being served only while there is one.             *)
LEMMA PostKeepsCoreInv ==
  ASSUME CoreInv, NEW o \in Object, NEW e \in Nat, Post(o, e, main), main # "ended",
         e = 0 \/ (e = Segment /\ main \in {"publishing", "handling"}),
         UNCHANGED <<port, isRunning, current, inSection, stopped>>,
         input' \in [len : Nat, offset : Nat, entry : DOMAIN FuzzTable \cup {0},
                     left : SUBSET Object],
         UNCHANGED <<input.len, input.offset, input.entry>>
  PROVE  CoreInv'
  <1> USE DEF CoreInv
  <1>1. CASE main' = "ended" /\ UNCHANGED <<queued, thread, ready>>
    <2>1. CoreTypeOK'
      BY <1>1 DEF CoreTypeOK
    <2>2. WaitersAreIdle' /\ ReadyIsExact'
      BY <1>1 DEF WaitersAreIdle, ReadyIsExact, Preemptive, NonEmpty
    <2>3. SegmentInBounds'
      BY <1>1 DEF SegmentInBounds, Fuzzing, Looping
    <2>4. QuietBetween'
      BY <1>1 DEF QuietBetween, Fuzzing, OfSegment, Quiet, Segment
    <2> QED
      BY <2>1, <2>2, <2>3, <2>4
  <1>2. CASE /\ main' = main
             /\ queued' = [queued EXCEPT ![o] = Append(@, e)]
             /\ IF queued[o] = <<>> THEN Notify(o) ELSE UNCHANGED <<thread, ready>>
    <2>1. /\ queued[o] \in Seq(Nat) /\ queued'[o] = Append(queued[o], e)
          /\ \A p \in Object \ {o} : queued'[p] = queued[p]
      BY <1>2 DEF CoreTypeOK
    <2>2. /\ queued'[o] # <<>> /\ queued'[o] \in Seq(Nat)
          /\ Range(queued'[o]) = Range(queued[o]) \cup {e}
      BY <2>1, RangeOfAppend
    <2>3. CoreTypeOK'
      <3>1. queued' \in [Object -> Seq(Nat)]
        BY <1>2, <2>1, <2>2 DEF CoreTypeOK
      <3>2. thread' \in [Object -> {"none", "served", "lock", "unlock", "getting", "woken",
                                    "handling", "waiting"}]
        BY <1>2 DEF CoreTypeOK, Notify
      <3>3. ready' \in SUBSET Object
        BY <1>2 DEF CoreTypeOK, Notify
      <3> QED
        BY <1>2, <3>1, <3>2, <3>3 DEF CoreTypeOK
    <2>4. WaitersAreIdle'
      <3> SUFFICES ASSUME Preemptive', NEW p \in Object, thread'[p] = "waiting"
                   PROVE  queued'[p] = <<>>
        BY DEF WaitersAreIdle
      <3>1. Preemptive
        BY DEF Preemptive
      <3>2. thread[p] = "waiting" /\ p # o
        <4>1. CASE queued[o] = <<>>
          BY <1>2, <3>1, <4>1 DEF Notify, CoreTypeOK
        <4>2. CASE queued[o] # <<>>
          BY <1>2, <3>1, <4>2 DEF WaitersAreIdle
        <4> QED
          BY <4>1, <4>2
      <3> QED
        BY <2>1, <3>1, <3>2 DEF WaitersAreIdle
    <2>5. ReadyIsExact'
      <3> SUFFICES ASSUME ~Preemptive PROVE ReadyIsExact'
        BY DEF ReadyIsExact, Preemptive
      <3>1. NonEmpty' = NonEmpty \cup {o}
        BY <2>1, <2>2 DEF NonEmpty
      <3>2. ready' = ready \cup {o}
        <4>1. CASE queued[o] = <<>>
          BY <1>2, <4>1 DEF Notify
        <4>2. CASE queued[o] # <<>>
          BY <1>2, <4>2 DEF ReadyIsExact, NonEmpty
        <4> QED
          BY <4>1, <4>2
      <3>3. main = "getting" => queued'[current] # <<>>
        BY <2>1, <2>2 DEF ReadyIsExact
      <3> QED
        BY <1>2, <3>1, <3>2, <3>3 DEF ReadyIsExact, Served, Preemptive
    <2>6. SegmentInBounds'
      BY <1>2 DEF SegmentInBounds, Fuzzing, Looping
    <2>7. QuietBetween'
      <3> SUFFICES ASSUME Fuzzing, ~stopped PROVE QuietBetween'
        BY DEF QuietBetween, Fuzzing
      <3>1. Segment' = Segment
        BY DEF Segment
      <3>2. OfSegment'
        BY <2>1, <2>2, <3>1 DEF QuietBetween, OfSegment
      <3>3. Quiet /\ e = 0 => Quiet'
        BY <2>1, <2>2 DEF Quiet
      <3> QED
        BY <1>2, <3>2, <3>3 DEF QuietBetween
    <2> QED
      BY <2>3, <2>4, <2>5, <2>6, <2>7
  <1> QED
    BY <1>1, <1>2 DEF Post

(* Taking an event off a queue, if there is one. *)
LEMMA TakenType ==
  ASSUME CoreTypeOK, NEW o \in Object \cup {0},
         queued' = [queued EXCEPT ![o] = IF @ = <<>> THEN @ ELSE Tail(@)]
  PROVE  /\ queued' \in [Object -> Seq(Nat)]
         /\ \A p \in Object : /\ p # o => queued'[p] = queued[p]
                              /\ queued[p] = <<>> => queued'[p] = <<>>
                              /\ Range(queued'[p]) \subseteq Range(queued[p])
  <1>1. ASSUME NEW p \in Object
        PROVE  /\ queued'[p] \in Seq(Nat)
               /\ p # o => queued'[p] = queued[p]
               /\ queued[p] = <<>> => queued'[p] = <<>>
               /\ Range(queued'[p]) \subseteq Range(queued[p])
    <2>1. queued[p] \in Seq(Nat)
      BY DEF CoreTypeOK
    <2>2. CASE p # o \/ queued[p] = <<>>
      <3>1. queued'[p] = queued[p]
        BY <2>2 DEF CoreTypeOK
      <3> QED
        BY <2>1, <2>2, <3>1
    <2>3. CASE p = o /\ queued[p] # <<>>
      <3>1. queued'[p] = Tail(queued[p])
        BY <2>3 DEF CoreTypeOK
      <3> QED
        BY <2>1, <2>3, <3>1, RangeOfTail
    <2> QED
      BY <2>2, <2>3
  <1>2. DOMAIN queued' = Object
    BY DEF CoreTypeOK
  <1>3. queued' = [p \in Object |-> queued'[p]]
    BY DEF CoreTypeOK
  <1> QED
    BY <1>1, <1>3

(* The object the loop serves takes an event: there is one. *)
LEMMA LoopGetKeepsCoreInv ==
  ASSUME CoreInv, LoopGet
  PROVE  CoreInv'
  <1> USE DEF CoreInv
  <1>1. /\ main = "getting" /\ main' = IF queued[current] = <<>> THEN "ended" ELSE "handling"
        /\ queued' = [queued EXCEPT ![current] = IF @ = <<>> THEN @ ELSE Tail(@)]
        /\ UNCHANGED <<port, thread, startup, isRunning, ready, current, inSection, stopped,
                       stimuli, input>>
    BY DEF LoopGet, MainRuns
  <1>2. /\ queued' \in [Object -> Seq(Nat)]
        /\ \A p \in Object : /\ p # current => queued'[p] = queued[p]
                             /\ queued[p] = <<>> => queued'[p] = <<>>
                             /\ Range(queued'[p]) \subseteq Range(queued[p])
    BY <1>1, TakenType DEF CoreTypeOK
  <1>3. CoreTypeOK'
    BY <1>1, <1>2 DEF CoreTypeOK
  <1>4. WaitersAreIdle'
    BY <1>1, <1>2 DEF WaitersAreIdle, Preemptive
  <1>5. ReadyIsExact'
    <2> SUFFICES ASSUME ~Preemptive PROVE ReadyIsExact'
      BY <1>1 DEF ReadyIsExact, Preemptive
    <2>1. current \in Object /\ main' = "handling"
      BY <1>1 DEF ReadyIsExact
    <2>2. NonEmpty' \subseteq NonEmpty /\ NonEmpty \subseteq NonEmpty' \cup {current}
      BY <1>2 DEF NonEmpty
    <2>3. ready' = ready /\ Served' = {current} /\ Served = {} /\ current' = current
      BY <1>1, <2>1 DEF Served
    <2> QED
      BY <1>1, <2>1, <2>2, <2>3 DEF ReadyIsExact
  <1>6. SegmentInBounds'
    BY <1>1 DEF SegmentInBounds, Fuzzing, Looping
  <1>7. QuietBetween'
    BY <1>1, <1>2 DEF QuietBetween, Fuzzing, OfSegment, Segment
  <1> QED
    BY <1>3, <1>4, <1>5, <1>6, <1>7

(* An object's thread takes an event, or waits because there is none. *)
LEMMA GetKeepsCoreInv ==
  ASSUME CoreInv, NEW o \in Object, Get(o)
  PROVE  CoreInv'
  <1> USE DEF CoreInv
  <1>1. /\ Preemptive
        /\ thread' = [thread EXCEPT ![o] = IF queued[o] = <<>> THEN "waiting" ELSE "handling"]
        /\ queued' = [queued EXCEPT ![o] = IF @ = <<>> THEN @ ELSE Tail(@)]
        /\ UNCHANGED <<port, main, startup, isRunning, ready, current, inSection, stopped,
                       stimuli, input>>
    BY DEF Get, Runs
  <1>2. /\ queued' \in [Object -> Seq(Nat)]
        /\ \A p \in Object : /\ p # o => queued'[p] = queued[p]
                             /\ queued[p] = <<>> => queued'[p] = <<>>
                             /\ Range(queued'[p]) \subseteq Range(queued[p])
    BY <1>1, TakenType
  <1>3. CoreTypeOK'
    BY <1>1, <1>2 DEF CoreTypeOK
  <1>4. WaitersAreIdle'
    <2> SUFFICES ASSUME NEW p \in Object, thread'[p] = "waiting" PROVE queued'[p] = <<>>
      BY DEF WaitersAreIdle
    <2>1. CASE p = o
      BY <1>1, <1>2, <2>1 DEF CoreTypeOK
    <2>2. CASE p # o
      BY <1>1, <1>2, <2>2 DEF CoreTypeOK, WaitersAreIdle
    <2> QED
      BY <2>1, <2>2
  <1>5. Preemptive' /\ ~Fuzzing'
    BY <1>1 DEF Preemptive, Fuzzing
  <1> QED
    BY <1>3, <1>4, <1>5 DEF ReadyIsExact, SegmentInBounds, QuietBetween

-----------------------------------------------------------------------------
(* The threads: what only moves a thread. *)

LEMMA MoveKeepsCoreInv ==
  ASSUME CoreInv, NEW o \in Object, NEW pc \in {"served", "lock", "unlock", "getting",
                                                "woken", "handling"},
         thread' = [thread EXCEPT ![o] = pc],
         UNCHANGED <<port, main, isRunning, queued, ready, current, inSection, stopped, input>>
  PROVE  CoreInv'
  <1> USE DEF CoreInv
  <1>1. CoreTypeOK'
    BY DEF CoreTypeOK
  <1>2. WaitersAreIdle'
    <2> SUFFICES ASSUME Preemptive, NEW p \in Object, thread'[p] = "waiting"
                 PROVE  queued[p] = <<>>
      BY DEF WaitersAreIdle, Preemptive
    <2>1. thread[p] = "waiting"
      BY DEF CoreTypeOK
    <2> QED
      BY <2>1 DEF WaitersAreIdle
  <1>3. ReadyIsExact'
    BY DEF ReadyIsExact, Preemptive, NonEmpty, Served
  <1>4. SegmentInBounds' /\ QuietBetween'
    BY DEF SegmentInBounds, QuietBetween, Fuzzing, Looping, OfSegment, Quiet, Segment
  <1> QED
    BY <1>1, <1>2, <1>3, <1>4

LEMMA ThreadKeepsCoreInv ==
  ASSUME CoreInv, NEW o \in Object,
         \/ Start(o) \/ LockStartup(o) \/ PassStartup(o) \/ WakeSpuriously(o)
         \/ ThreadReturn(o)
  PROVE  CoreInv'
  <1>1. /\ \E pc \in {"served", "lock", "unlock", "getting", "woken", "handling"} :
             thread' = [thread EXCEPT ![o] = pc]
        /\ UNCHANGED <<port, main, isRunning, queued, ready, current, inSection, stopped,
                       input>>
    BY DEF Start, StartThread, StartServed, LockStartup, PassStartup, WakeSpuriously,
           ThreadReturn
  <1> QED
    BY <1>1, MoveKeepsCoreInv

-----------------------------------------------------------------------------
(* The main thread. *)

(* EDF_stop() only takes from what is promised. *)
LEMMA StopKeepsCoreInv ==
  ASSUME CoreInv, Stop
  PROVE  CoreInv'
  BY DEF CoreInv, Stop, CoreTypeOK, WaitersAreIdle, ReadyIsExact, Preemptive, NonEmpty, Served,
         SegmentInBounds, QuietBetween, Fuzzing, Looping

(* Moves of the main thread that leave the objects and their events alone. *)
LEMMA MainKeepsCoreInv ==
  ASSUME CoreInv,
         \/ Run \/ EnterLoop \/ LeaveSpin \/ Idle \/ LoopReturn \/ Shutdown \/ SigInt
         \/ NextSegment
  PROVE  CoreInv'
  <1> USE DEF CoreInv
  <1>1. UNCHANGED <<port, thread, queued, ready, current, inSection, stopped>>
    BY DEF Run, EnterLoop, LeaveSpin, Idle, LoopReturn, Shutdown, SigInt, NextSegment
  <1>2. main' \in {"starting", "entering", "spinning", "segment", "publishing", "deciding",
                   "getting", "handling", "settling", "idle", "shutdown", "ended"}
        /\ isRunning' \in BOOLEAN
    BY DEF Run, EnterLoop, LeaveSpin, Idle, LoopReturn, Shutdown, SigInt, NextSegment,
           CoreTypeOK
  <1>3. input' \in [len : Nat, offset : Nat, entry : DOMAIN FuzzTable \cup {0},
                    left : SUBSET Object] /\ input'.offset = input.offset
    <2>1. CASE input' = input
      BY <2>1 DEF CoreTypeOK
    <2>2. CASE \E len \in FUZZ_LENGTHS : input' = [input EXCEPT !.len = len]
      BY <2>2, PosixAssumption DEF CoreTypeOK
    <2>3. CASE \E e \in DOMAIN FuzzTable :
                 input' = [input EXCEPT !.entry = e, !.left = FuzzTable[e].to]
      <3>1. PICK e \in DOMAIN FuzzTable :
              input' = [input EXCEPT !.entry = e, !.left = FuzzTable[e].to]
        BY <2>3
      <3>2. FuzzTable[e].to \in SUBSET Object
        BY PosixAssumption DEF Range
      <3> QED
        BY <3>1, <3>2 DEF CoreTypeOK
    <2>4. CASE NextSegment
      BY <2>1, <2>3, <2>4 DEF NextSegment
    <2>5. CASE Run
      BY <2>1, <2>2, <2>5 DEF Run
    <2>6. CASE EnterLoop \/ LeaveSpin \/ Idle \/ LoopReturn \/ Shutdown \/ SigInt
      BY <2>1, <2>6 DEF EnterLoop, LeaveSpin, Idle, LoopReturn, Shutdown, SigInt
    <2> QED
      BY <2>4, <2>5, <2>6
  <1>4. CoreTypeOK'
    BY <1>1, <1>2, <1>3 DEF CoreTypeOK
  <1>5. WaitersAreIdle'
    BY <1>1 DEF WaitersAreIdle, Preemptive
  <1>6. main' # "getting" /\ (Served' = Served \/ main' = "ended")
        /\ (main = "ended" => main' = "ended")
        /\ (main' \in {"handling", "settling"} => main = "handling")
    <2>1. CASE main' = "ended"
      BY <2>1
    <2>2. CASE main' # "ended"
      BY <1>1, <2>2 DEF Run, EnterLoop, LeaveSpin, Idle, LoopReturn, Shutdown, SigInt,
                        NextSegment, MainRuns, Served
    <2> QED
      BY <2>1, <2>2
  <1>7. ReadyIsExact'
    BY <1>1, <1>6 DEF ReadyIsExact, Preemptive, NonEmpty
  <1>8. SegmentInBounds'
    <2> SUFFICES ASSUME Fuzzing PROVE SegmentInBounds'
      BY <1>1 DEF SegmentInBounds, Fuzzing
    <2>1. CASE NextSegment
      <3>1. CASE main' = "shutdown"
        BY <3>1 DEF SegmentInBounds, Looping
      <3>2. CASE main' # "shutdown"
        <4>1. PICK e \in DOMAIN FuzzTable :
                Fits(e) /\ main' = "publishing"
                /\ input' = [input EXCEPT !.entry = e, !.left = FuzzTable[e].to]
          BY <2>1, <3>2 DEF NextSegment
        <4>2. /\ input'.entry = e /\ input'.len = input.len /\ input'.offset = input.offset
              /\ input.len \in Nat /\ input.offset \in Nat
          BY <4>1 DEF CoreTypeOK
        <4>3. FuzzTable[e].size \in Nat /\ SELECTOR \in Nat
          BY PosixAssumption DEF Range
        <4>4. input.offset + SELECTOR + FuzzTable[e].size <= input.len
          BY <4>1, <4>2, <4>3 DEF Fits
        <4> QED
          BY <4>1, <4>2, <4>4 DEF SegmentInBounds
      <3> QED
        BY <3>1, <3>2
    <2>2. CASE ~NextSegment
      <3>1. main' # "publishing"
            /\ (main' = "entering" \/ Looping' => main = "entering" \/ Looping)
        BY <2>2 DEF Run, EnterLoop, LeaveSpin, Idle, LoopReturn, Shutdown, SigInt, MainRuns,
                    Looping, Preemptive, Fuzzing
      <3>2. main = "entering" \/ Looping => input'.entry = input.entry
        BY <2>2 DEF Run, EnterLoop, LeaveSpin, Idle, LoopReturn, Shutdown, SigInt, MainRuns,
                    Looping
      <3> QED
        BY <3>1, <3>2 DEF SegmentInBounds
    <2> QED
      BY <2>1, <2>2
  <1>9. QuietBetween'
    <2> SUFFICES ASSUME Fuzzing, ~stopped PROVE QuietBetween'
      BY <1>1 DEF QuietBetween, Fuzzing
    <2>1. OfSegment' /\ (Quiet => Quiet')
      BY <1>1, <1>3 DEF QuietBetween, OfSegment, Quiet, Segment
    <2>2. main' \in {"starting", "segment", "idle"} \/ (main' = "deciding" /\ ~isRunning')
          => main \in {"starting", "segment", "idle"}
      BY DEF Run, EnterLoop, LeaveSpin, Idle, LoopReturn, Shutdown, SigInt, NextSegment,
             MainRuns
    <2>3. main' \in {"getting", "handling", "settling"} => main = "handling" /\ isRunning'
      BY <1>6 DEF Run, EnterLoop, LeaveSpin, Idle, LoopReturn, Shutdown, SigInt, NextSegment,
                  MainRuns, QuietBetween
    <2> QED
      BY <2>1, <2>2, <2>3 DEF QuietBetween
  <1> QED
    BY <1>4, <1>5, <1>7, <1>8, <1>9

(* The loop decides: the ready set is exact, and whoever is next has an event. *)
LEMMA DecideKeepsCoreInv ==
  ASSUME CoreInv, Decide
  PROVE  CoreInv'
  <1> USE DEF CoreInv
  <1>1. /\ main \in {"deciding", "settling"}
        /\ ready' = Settled
        /\ current' = IF isRunning THEN FindMax(ready') ELSE 0
        /\ IF isRunning
           THEN /\ main' = IF ready' = {} THEN "idle" ELSE "getting"
                /\ UNCHANGED <<inSection, input>>
           ELSE EndLoop
        /\ UNCHANGED <<port, thread, isRunning, queued, stopped>>
    BY DEF Decide, MainRuns
  <1>2. ready' \in SUBSET Object /\ ready' \subseteq ready
    BY <1>1 DEF Settled, CoreTypeOK
  <1>3. /\ current' \in Object \cup {0}
        /\ isRunning /\ ready' # {} => current' \in ready'
    BY <1>1, <1>2, FindMaxIn
  <1>4. CASE isRunning
    <2>1. /\ main' = IF ready' = {} THEN "idle" ELSE "getting"
          /\ UNCHANGED <<inSection, input>>
      BY <1>1, <1>4
    <2>2. CoreTypeOK'
      BY <1>1, <1>2, <1>3, <2>1 DEF CoreTypeOK
    <2>3. WaitersAreIdle'
      BY <1>1 DEF WaitersAreIdle, Preemptive
    <2>4. ~Preemptive => NonEmpty' = ready'
      <3> SUFFICES ASSUME ~Preemptive PROVE NonEmpty = ready'
        BY <1>1 DEF NonEmpty
      <3>1. NonEmpty \subseteq ready /\ ready \subseteq NonEmpty \cup Served
        BY <1>1 DEF ReadyIsExact
      <3>2. CASE main = "deciding"
        BY <1>1, <3>1, <3>2 DEF Settled, Served
      <3>3. CASE main = "settling"
        <4>1. current \in Object /\ Served = {current}
          BY <1>1, <3>3 DEF ReadyIsExact, Served
        <4> QED
          BY <1>1, <3>1, <3>3, <4>1 DEF Settled, NonEmpty
      <3> QED
        BY <1>1, <3>2, <3>3
    <2>5. ReadyIsExact'
      <3>1. main' = "getting" => ready' # {} /\ current' \in ready'
        BY <1>3, <1>4, <2>1
      <3>2. main' \in {"idle", "getting"}
        BY <2>1
      <3>3. ~Preemptive /\ main' = "getting" => current' \in Object /\ queued'[current'] # <<>>
        BY <1>2, <2>4, <3>1 DEF NonEmpty
      <3> QED
        BY <1>1, <2>4, <3>2, <3>3 DEF ReadyIsExact, Preemptive
    <2>6. SegmentInBounds'
      BY <1>1, <2>1 DEF SegmentInBounds, Fuzzing, Looping
    <2>7. QuietBetween'
      <3> SUFFICES ASSUME Fuzzing, ~stopped PROVE QuietBetween'
        BY <1>1 DEF QuietBetween, Fuzzing
      <3>1. OfSegment'
        BY <1>1, <2>1 DEF QuietBetween, OfSegment, Segment
      <3>2. main' = "idle" => Quiet'
        <4> SUFFICES ASSUME main' = "idle", NEW o \in Object
                     PROVE  Range(queued'[o]) \subseteq {0}
          BY DEF Quiet
        <4>1. ready' = {} /\ ~Preemptive
          BY <2>1 DEF Preemptive, Fuzzing
        <4>2. queued'[o] = <<>>
          BY <2>4, <4>1 DEF NonEmpty
        <4>3. DOMAIN <<>> = {}
          OBVIOUS
        <4> QED
          BY <4>2, <4>3, Zenon DEF Range
      <3>3. main' \in {"idle", "getting"} /\ isRunning'
        BY <1>1, <1>4, <2>1
      <3> QED
        BY <3>1, <3>2, <3>3 DEF QuietBetween
    <2> QED
      BY <2>2, <2>3, <2>5, <2>6, <2>7
  <1>5. CASE ~isRunning
    <2>1. EndLoop /\ main' \in {"segment", "shutdown"}
      BY <1>1, <1>5 DEF EndLoop
    <2>2. input' \in [len : Nat, offset : Nat, entry : DOMAIN FuzzTable \cup {0},
                      left : SUBSET Object] /\ inSection' \in BOOLEAN
      <3>1. CASE Fuzzing
        <4>1. input.entry \in DOMAIN FuzzTable
          BY <1>1, <3>1 DEF SegmentInBounds, Looping
        <4>2. FuzzTable[input.entry].size \in Nat /\ SELECTOR \in Nat
          BY <4>1, PosixAssumption DEF Range
        <4> DEFINE after == input.offset + SELECTOR + FuzzTable[input.entry].size
        <4>3. after \in Nat
          BY <4>2 DEF CoreTypeOK
        <4>4. input' = [input EXCEPT !.offset = after] /\ inSection' = inSection
          BY <2>1, <3>1 DEF EndLoop, CoreTypeOK
        <4> HIDE DEF after
        <4> QED
          BY <4>3, <4>4 DEF CoreTypeOK
      <3>2. CASE ~Fuzzing
        BY <2>1, <3>2 DEF EndLoop, CoreTypeOK
      <3> QED
        BY <3>1, <3>2
    <2>3. CoreTypeOK'
      BY <1>1, <1>2, <1>3, <2>1, <2>2 DEF CoreTypeOK
    <2>4. WaitersAreIdle'
      BY <1>1 DEF WaitersAreIdle, Preemptive
    <2>5. ReadyIsExact'
      <3> SUFFICES ASSUME ~Preemptive PROVE ReadyIsExact'
        BY <1>1 DEF ReadyIsExact, Preemptive
      <3>1. NonEmpty \subseteq ready /\ ready \subseteq NonEmpty \cup Served
        BY <1>1 DEF ReadyIsExact
      <3>2. NonEmpty = ready'
        <4>1. CASE main = "deciding"
          BY <1>1, <3>1, <4>1 DEF Settled, Served
        <4>2. CASE main = "settling"
          <5>1. current \in Object /\ Served = {current}
            BY <1>1, <4>2 DEF ReadyIsExact, Served
          <5> QED
            BY <1>1, <3>1, <4>2, <5>1 DEF Settled, NonEmpty
        <4> QED
          BY <1>1, <4>1, <4>2
      <3>3. NonEmpty' = NonEmpty
        BY <1>1 DEF NonEmpty
      <3> QED
        BY <2>1, <3>2, <3>3 DEF ReadyIsExact
    <2>6. SegmentInBounds'
      BY <2>1 DEF SegmentInBounds, Looping
    <2>7. QuietBetween'
      <3> SUFFICES ASSUME Fuzzing, ~stopped PROVE QuietBetween'
        BY <1>1 DEF QuietBetween, Fuzzing
      <3>1. Quiet'
        BY <1>1, <1>5 DEF QuietBetween, Quiet
      <3>2. OfSegment'
        BY <3>1 DEF Quiet, OfSegment
      <3> QED
        BY <2>1, <3>1, <3>2 DEF QuietBetween
    <2> QED
      BY <2>3, <2>4, <2>5, <2>6, <2>7
  <1> QED
    BY <1>4, <1>5

(* A publication of the testcase's event, and its end. *)
LEMMA PublishKeepsCoreInv ==
  ASSUME CoreInv, Publish
  PROVE  CoreInv'
  <1> USE DEF CoreInv
  <1>1. /\ main = "publishing"
        /\ UNCHANGED <<port, isRunning, current, inSection, stopped>>
    BY DEF Publish, MainRuns
  <1>2. CASE input.left = {}
    <2>1. main' = "entering" /\ UNCHANGED <<queued, thread, ready, input>>
      BY <1>2 DEF Publish
    <2>2. CoreTypeOK'
      BY <1>1, <2>1 DEF CoreTypeOK
    <2>3. WaitersAreIdle' /\ ReadyIsExact'
      BY <1>1, <2>1 DEF WaitersAreIdle, ReadyIsExact, Preemptive, NonEmpty, Served
    <2>4. SegmentInBounds' /\ QuietBetween'
      BY <1>1, <2>1 DEF SegmentInBounds, QuietBetween, Fuzzing, Looping, OfSegment, Segment
    <2> QED
      BY <2>2, <2>3, <2>4
  <1>3. CASE input.left # {}
    <2>1. /\ Post(FindMax(input.left), Segment, main)
          /\ input' = [input EXCEPT !.left = @ \ {FindMax(@)}]
      BY <1>3 DEF Publish
    <2>2. input.left \in SUBSET Object /\ FindMax(input.left) \in Object
      BY <1>3, FindMaxIn DEF CoreTypeOK
    <2>3. Segment \in Nat
      BY DEF Segment, CoreTypeOK
    <2>4. /\ input' \in [len : Nat, offset : Nat, entry : DOMAIN FuzzTable \cup {0},
                         left : SUBSET Object]
          /\ UNCHANGED <<input.len, input.offset, input.entry>>
      BY <2>1 DEF CoreTypeOK
    <2> HIDE DEF CoreInv
    <2> QED
      BY <1>1, <2>1, <2>2, <2>3, <2>4, PostKeepsCoreInv
  <1> QED
    BY <1>2, <1>3

(* The posts of the ticker, the threads' handlers and the loop's. *)
LEMMA StimulusKeepsCoreInv ==
  ASSUME CoreInv, NEW o \in Object, NEW p \in Object,
         TickerPost(o) \/ LoopPost(o) \/ ThreadPost(o, p)
  PROVE  CoreInv'
  <1>1. input \in [len : Nat, offset : Nat, entry : DOMAIN FuzzTable \cup {0},
                   left : SUBSET Object] /\ Segment \in Nat
    BY DEF CoreInv, CoreTypeOK, Segment
  <1>2. CASE TickerPost(o)
    <2>1. /\ Post(o, 0, main) /\ main # "ended"
          /\ UNCHANGED <<port, isRunning, current, inSection, stopped, input>>
      BY <1>2 DEF TickerPost, Listening
    <2> QED
      BY <1>1, <2>1, PostKeepsCoreInv
  <1>3. CASE LoopPost(o)
    <2>1. /\ Post(o, Segment, main) /\ main = "handling"
          /\ UNCHANGED <<port, isRunning, current, inSection, stopped, input>>
      BY <1>3 DEF LoopPost, MainRuns
    <2> QED
      BY <1>1, <2>1, PostKeepsCoreInv
  <1>4. CASE ThreadPost(o, p)
    <2>1. /\ Post(p, 0, main) /\ main # "ended"
          /\ UNCHANGED <<port, isRunning, current, inSection, stopped, input>>
      BY <1>4 DEF ThreadPost, Runs, Ended
    <2> QED
      BY <1>1, <2>1, PostKeepsCoreInv
  <1> QED
    BY <1>2, <1>3, <1>4

-----------------------------------------------------------------------------
(* The theorems. *)

LEMMA InitCoreInv == CoreInit => CoreInv
  <1> SUFFICES ASSUME CoreInit PROVE CoreInv
    OBVIOUS
  <1> USE DEF CoreInit
  <1>1. CoreTypeOK
    <2>1. port \in {"preemptive", "cooperative", "fuzz"}
      BY PosixAssumption
    <2>2. <<>> \in Seq(Nat)
      OBVIOUS
    <2>3. queued \in [Object -> Seq(Nat)]
      BY <2>2
    <2> QED
      BY <2>1, <2>3 DEF CoreTypeOK
  <1>2. WaitersAreIdle
    BY DEF WaitersAreIdle
  <1>3. ReadyIsExact
    BY DEF ReadyIsExact, NonEmpty
  <1>4. SegmentInBounds
    BY DEF SegmentInBounds, Looping
  <1>5. \A o \in Object : Range(queued[o]) = {}
    <2>1. DOMAIN <<>> = {}
      OBVIOUS
    <2>2. \A o \in Object : queued[o] = <<>>
      OBVIOUS
    <2> QED
      BY <2>1, <2>2, Zenon DEF Range
  <1>6. QuietBetween
    BY <1>5 DEF QuietBetween, OfSegment, Quiet
  <1> QED
    BY <1>1, <1>2, <1>3, <1>4, <1>6 DEF CoreInv

LEMMA CoreInductive == Spec => []CoreInv
  <1>1. Init => CoreInv
    BY InitCoreInv DEF Init
  <1>2. CoreInv /\ [Next]_vars => CoreInv'
    <2> SUFFICES ASSUME CoreInv, [Next]_vars PROVE CoreInv'
      OBVIOUS
    <2>1. CASE UNCHANGED coreVars
      BY <2>1 DEF coreVars, CoreInv, CoreTypeOK, WaitersAreIdle, ReadyIsExact, Preemptive,
                  NonEmpty, Served, SegmentInBounds, QuietBetween, Fuzzing, Looping, OfSegment,
                  Quiet, Segment
    <2>2. CASE MainStep
      BY <2>2, MainKeepsCoreInv, DecideKeepsCoreInv, LoopGetKeepsCoreInv,
         PublishKeepsCoreInv, Zenon DEF MainStep
    <2>3. ASSUME NEW o \in Object,
                 \/ Start(o) \/ ThreadStep(o) \/ WakeSpuriously(o) \/ ThreadStop(o)
                 \/ TickerPost(o) \/ LoopPost(o) \/ \E p \in Object : ThreadPost(o, p)
          PROVE  CoreInv'
      BY <2>3, ThreadKeepsCoreInv, GetKeepsCoreInv, StopKeepsCoreInv, StimulusKeepsCoreInv,
         Zenon DEF ThreadStep, ThreadStop
    <2>4. CASE LoopStop \/ TickerStop
      BY <2>4, StopKeepsCoreInv, Zenon DEF LoopStop, TickerStop
    <2>5. CASE SigInt
      BY <2>5, MainKeepsCoreInv
    <2> QED
      BY <2>1, <2>2, <2>3, <2>4, <2>5, Zenon DEF Next, CoreNext, vars
  <1> QED
    BY <1>1, <1>2, PTL DEF Spec

(* No notification is lost, whatever interleaves: no thread of the preemptive core   *)
(* sleeps on an event, and the loop's ready set is exactly the objects with events,  *)
(* the one being served apart.                                                       *)
THEOREM WakeupsAreNotLost == Spec => []NoWakeupIsLost
  <1>1. CoreInv => NoWakeupIsLost
    BY DEF CoreInv, NoWakeupIsLost, WaitersAreIdle, ReadyIsExact, NonEmpty, Served, Ended
  <1> QED
    BY <1>1, CoreInductive, PTL

(* A testcase is taken apart within its length, and a segment leaves no event to the *)
(* next, unless the application stopped the loop.                                    *)
THEOREM InputIsTakenApart == Spec => []InputIsExact
  <1>1. CoreInv => InputIsExact
    BY DEF CoreInv, InputIsExact, SegmentInBounds, QuietBetween, OfSegment
  <1> QED
    BY <1>1, CoreInductive, PTL

=============================================================================
