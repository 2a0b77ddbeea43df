----------------------- MODULE PreemptiveKernelProofs -----------------------
(***************************************************************************)
(* For every set of objects and every thresholds that registration         *)
(* accepts, in as many bytes of the mask as they lie, and however deep the *)
(* preemptions: the thresholds and locks order what is on the stack, and   *)
(* what the bitmask search finds decides which wake-ups wait and which     *)
(* object is chosen.  The invariant says what each frame of the stack      *)
(* remembers of the one below it, whom a lock holds back for as long as it *)
(* may be restored, what holds back those whom it overlooks, and why an    *)
(* object is ready.  The last part is about the example's workers, on the  *)
(* kernel's invariant.                                                     *)
(***************************************************************************)
EXTENDS PreemptionExample, WellFoundedInduction, SequenceTheorems, FiniteSetTheorems, TLAPS

\* The threshold of what a thread runs; the idle thread has none.
Threshold(o) == IF o = 0 THEN 0 ELSE pthre[o]
Raised(st, i) == st[i].sched_status # NOT_LOCKED

KernelTypeOK ==
  /\ ready_set \in SUBSET Object
  /\ next_priority \in Object \cup {0}
  /\ lock_ceiling \in 0..(MAX_ACTIVE_OBJECT + 1)
  /\ queued \in [Object -> Nat]
  /\ stack \in Seq(FrameType) /\ Len(stack) >= 1
  /\ running \in BOOLEAN /\ isr \in BOOLEAN /\ pendsv \in BOOLEAN
  /\ posts \in Nat

(* A frame runs over the thresholds of all below it, and knows what to     *)
(* restore; only a publication holds a lock.                               *)
Ordered(st) ==
  /\ \A i \in 1..Len(st) : st[i].ao = 0 <=> i = 1
  /\ \A i, j \in 1..Len(st) : i < j => Threshold(st[i].ao) < st[j].ao
  /\ \A i \in 2..Len(st) :
       st[i].prio_in = st[i - 1].ao /\ st[i].pthre_in = Threshold(st[i - 1].ao)
  /\ \A i \in 1..Len(st) : Raised(st, i) => st[i].pc = "multicast"
  /\ st[1].pc # "get"

\* Whom a publication posts to first, and whether it has.
Lead(frame) == FindMax(frame.addressed)
Begun(frame) == frame.pc = "multicast" /\ frame.subs # frame.addressed

(* Whom a publication posts to first stays below the ceiling until it is   *)
(* done, also below every ceiling that is restored meanwhile.              *)
Locked(st, ceiling) ==
  /\ \A i \in 1..Len(st) : st[i].pc = "multicast" =>
       /\ st[i].subs \subseteq st[i].addressed
       /\ Lead(st[i]) <= ceiling
       /\ \A j \in 1..Len(st) : i < j =>
            Lead(st[i]) < st[j].ao /\ (Raised(st, j) => Lead(st[i]) <= st[j].sched_status)
  /\ \A i \in 1..Len(st) : Raised(st, i) => st[i].sched_status < ceiling
  /\ \A i, j \in 1..Len(st) : i < j /\ Raised(st, i) /\ Raised(st, j) =>
       st[i].sched_status < st[j].sched_status

(* Once the first has its event, which it cannot take, it hides all others *)
(* that the publication addresses.                                         *)
Hidden(st, q) ==
  \A i \in 1..Len(st) : Begun(st[i]) =>
    /\ q[Lead(st[i])] > 0
    /\ \A j \in 1..Len(st) : i < j => st[j].ao \notin st[i].addressed

\* The ceiling without any publication: everything before EDF_run(), then nothing.
Base == IF running THEN 0 ELSE MAX_ACTIVE_OBJECT + 1

\* The outermost publication that raised the ceiling will restore that.
Unlocks(st, ceiling, base) ==
  /\ base # 0 => /\ ceiling = MAX_ACTIVE_OBJECT + 1 /\ Len(st) = 1
                 /\ \A i \in 1..Len(st) : ~Raised(st, i)
  /\ base = 0 => \/ ceiling = 0
                 \/ \E i \in 1..Len(st) : Raised(st, i) /\ st[i].sched_status = 0

(* An object is ready when it has events, and only then or when it runs.   *)
ReadyIsExact(st, ready, q) ==
  /\ \A o \in Object : q[o] > 0 => o \in ready
  /\ \A i \in 1..Len(st) : st[i].pc = "get" => q[st[i].ao] > 0
  /\ \A o \in ready : q[o] > 0 \/ \E i \in 1..Len(st) : st[i].ao = o

(* Who may run on top of a stack: over the threshold and the lock, and not *)
(* in the middle of a publication to it.                                   *)
MayRun(o, st, ready, t, ceiling) ==
  /\ o \in ready /\ o > t /\ o > ceiling
  /\ \A i \in 1..Len(st) : Begun(st[i]) => o \notin st[i].addressed

(* What runs is the top of the stack.  A decision of an interrupt stands   *)
(* until PendSV acts on it, unless a later interrupt decides again: it may *)
(* have made an object ready that hides all and may not run itself.        *)
DecisionStands ==
  /\ active_priority = Top.ao /\ active_preemption_threshold = Threshold(Top.ao)
  /\ ThreadRuns => Schedule(ready_set, lock_ceiling) = 0
  /\ pendsv => MayRun(next_priority, stack, ready_set, active_preemption_threshold, lock_ceiling)
  /\ pendsv /\ ~isr => Schedule(ready_set, lock_ceiling) \in {0, next_priority}

Sound(st, ready, ceiling, base, q) ==
  /\ st \in Seq(FrameType) /\ Len(st) >= 1
  /\ Ordered(st) /\ Locked(st, ceiling) /\ Unlocks(st, ceiling, base)
  /\ ReadyIsExact(st, ready, q) /\ Hidden(st, q)

KernelInv ==
  /\ KernelTypeOK
  /\ Sound(stack, ready_set, lock_ceiling, Base, queued)
  /\ DecisionStands

-----------------------------------------------------------------------------
(* The objects, the frames and the decisions. *)

LEMMA ObjectsAre ==
  /\ MAX_ACTIVE_OBJECT \in Nat /\ MAX_ACTIVE_OBJECT < 255 /\ Object \subseteq Nat
  /\ \A o \in Object : /\ o \in 1..MAX_ACTIVE_OBJECT /\ pthre[o] \in 1..MAX_ACTIVE_OBJECT
                       /\ o <= pthre[o] /\ Threshold(o) = pthre[o] /\ o # 0
  /\ Threshold(0) = 0
  BY KernelAssumption DEF Threshold, ThresholdsAreConsistent

LEMMA ThresholdIs ==
  ASSUME NEW o \in Object \cup {0}
  PROVE  Threshold(o) \in 0..MAX_ACTIVE_OBJECT /\ o <= Threshold(o) /\ o \in Nat
  BY ObjectsAre

LEMMA FrameIs ==
  ASSUME NEW o \in Object \cup {0}, NEW p \in Object \cup {0}, NEW t \in 0..MAX_ACTIVE_OBJECT
  PROVE  /\ Frame(o, "get", p, t) \in FrameType
         /\ Frame(o, "get", p, t).ao = o /\ Frame(o, "get", p, t).pc = "get"
         /\ Frame(o, "get", p, t).prio_in = p /\ Frame(o, "get", p, t).pthre_in = t
         /\ Frame(o, "get", p, t).sched_status = NOT_LOCKED
  BY DEF Frame, FrameType

(* A nonempty set of natural numbers that has a bound has a greatest        *)
(* element, which Max returns: the order of the distances from the bound is *)
(* well-founded.                                                            *)
LEMMA GreatestBelow ==
  ASSUME NEW n \in Nat, NEW S \in SUBSET (0..n), S # {}
  PROVE  Max(S) \in S /\ \A y \in S : y <= Max(S)
  <1> DEFINE T == {n - x : x \in S}
  <1>1. T \in SUBSET Nat /\ T # {}
    <2>1. \A x \in S : n - x \in Nat
      OBVIOUS
    <2>2. PICK x \in S : TRUE
      OBVIOUS
    <2>3. n - x \in T
      BY <2>2
    <2> QED
      BY <2>1, <2>3
  <1> DEFINE Less == OpToRel(<, Nat)
  <1>2. IsWellFoundedOn(Less, Nat)
    BY NatLessThanWellFounded
  <1>3. \A x, y \in Nat : <<y, x>> \in Less <=> y < x
    BY DEF OpToRel
  <1> HIDE DEF Less
  <1>4. PICK t \in T : \A y \in T : ~(<<y, t>> \in Less)
    <2> HIDE DEF T
    <2> QED
      BY <1>1, <1>2, WFMin
  <1>5. PICK x \in S : t = n - x
    OBVIOUS
  <1>6. \A y \in S : x >= y
    <2> TAKE y \in S
    <2>1. n - y \in T /\ n - y \in Nat /\ n - x \in Nat
      OBVIOUS
    <2>2. ~(n - y < n - x)
      BY <1>3, <1>4, <1>5, <2>1
    <2> QED
      BY <2>2
  <1>7. Max(S) \in S /\ \A y \in S : Max(S) >= y
    BY <1>6, Zenon DEF Max
  <1> QED
    BY <1>7

LEMMA LeastOfNaturals ==
  ASSUME NEW S \in SUBSET Nat, S # {}
  PROVE  Min(S) \in S /\ \A y \in S : Min(S) <= y
  <1> DEFINE Less == OpToRel(<, Nat)
  <1>1. IsWellFoundedOn(Less, Nat)
    BY NatLessThanWellFounded
  <1>2. \A x, y \in Nat : <<y, x>> \in Less <=> y < x
    BY DEF OpToRel
  <1> HIDE DEF Less
  <1>3. PICK x \in S : \A y \in S : ~(<<y, x>> \in Less)
    BY <1>1, WFMin
  <1>4. \A y \in S : x <= y
    <2> TAKE y \in S
    <2>1. ~(y < x) /\ x \in Nat /\ y \in Nat
      BY <1>2, <1>3
    <2> QED
      BY <2>1
  <1> QED
    BY <1>4, Zenon DEF Min

LEMMA BytesAre ==
  \A o, p \in Object : Byte(o) \in Nat /\ (o <= p => Byte(o) <= Byte(p))
  BY ObjectsAre, SMT DEF Byte

(* The bitmask search returns the greatest of those in the lowest byte; whatever is         *)
(* greater lies in a higher one.                                                            *)
LEMMA FindMaxIs ==
  ASSUME NEW S \in SUBSET Object, S # {}
  PROVE  /\ FindMax(S) \in S /\ FindMax(S) \in Object /\ FindMax(S) \in Nat
         /\ \A o \in S : Byte(FindMax(S)) <= Byte(o)
         /\ \A o \in S : o > FindMax(S) => Byte(FindMax(S)) < Byte(o)
  <1> DEFINE B == {Byte(p) : p \in S}
             T == {o \in S : Byte(o) = Min(B)}
  <1>1. B \in SUBSET Nat /\ B # {}
    BY BytesAre
  <1>2. Min(B) \in B /\ \A b \in B : Min(B) <= b
    BY <1>1, LeastOfNaturals
  <1>3. T # {} /\ T \in SUBSET (0..MAX_ACTIVE_OBJECT) /\ MAX_ACTIVE_OBJECT \in Nat
    <2>1. \A o \in S : o \in 0..MAX_ACTIVE_OBJECT
      BY ObjectsAre
    <2>2. T \in SUBSET (0..MAX_ACTIVE_OBJECT)
      BY <2>1, Zenon
    <2>3. T # {}
      BY <1>2, Zenon
    <2> QED
      BY <2>2, <2>3, ObjectsAre
  <1>4. Max(T) \in T /\ \A y \in T : y <= Max(T)
    BY <1>3, GreatestBelow
  <1>5. FindMax(S) = Max(T)
    BY Zenon DEF FindMax
  <1>6. /\ FindMax(S) \in S /\ Byte(FindMax(S)) = Min(B)
        /\ \A o \in S : Byte(o) = Min(B) => o <= FindMax(S)
    BY <1>4, <1>5
  <1>7. \A o \in S : Min(B) <= Byte(o)
    BY <1>2
  <1> DEFINE m == FindMax(S)
             b == Min(B)
  <1>8. m \in S /\ Byte(m) = b /\ \A o \in S : b <= Byte(o) /\ (Byte(o) = b => o <= m)
    BY <1>6, <1>7
  <1> HIDE DEF m, b
  <1>9. \A o \in S : o \in Nat /\ Byte(o) \in Nat
    BY ObjectsAre, BytesAre
  <1>10. \A o \in S : o > m => Byte(m) < Byte(o)
    BY <1>8, <1>9
  <1> QED
    BY <1>8, <1>9, <1>10 DEF m

LEMMA FoundIs ==
  ASSUME NEW S \in SUBSET Object
  PROVE  FindMax(S) \in Object \cup {0} /\ FindMax(S) \in Nat
  <1>1. FindMax({}) = 0
    BY DEF FindMax
  <1> QED
    BY <1>1, FindMaxIs

(* What may run over a threshold and a lock. *)
LEMMA EligibleIs ==
  ASSUME NEW ready \in SUBSET Object, NEW t \in Nat, NEW c \in Nat
  PROVE  /\ Eligible(ready, t, c) \in Object \cup {0}
         /\ Eligible(ready, t, c) = 0 <=> FindMax(ready) <= t \/ FindMax(ready) <= c
         /\ Eligible(ready, t, c) # 0 =>
              /\ Eligible(ready, t, c) = FindMax(ready) /\ Eligible(ready, t, c) \in ready
              /\ Eligible(ready, t, c) > t /\ Eligible(ready, t, c) > c
  <1> DEFINE m == FindMax(ready)
  <1>1. m \in Nat /\ m \in Object \cup {0} /\ (ready = {} => m = 0) /\ (ready # {} => m \in ready /\ m # 0)
    <2>1. ready = {} => m = 0
      BY DEF FindMax
    <2>2. ready # {} => m \in ready /\ m # 0
      BY FindMaxIs, ObjectsAre
    <2> QED
      BY <2>1, <2>2, FoundIs
  <1>2. Eligible(ready, t, c) = IF m <= t \/ m <= c THEN 0 ELSE m
    BY DEF Eligible
  <1> HIDE DEF m
  <1>3. CASE m <= t \/ m <= c
    BY <1>1, <1>2, <1>3 DEF m
  <1>4. CASE ~(m <= t \/ m <= c)
    <2>1. m > t /\ m > c /\ m # 0 /\ m \in ready
      BY <1>1, <1>4
    <2> QED
      BY <1>1, <1>2, <1>4, <2>1 DEF m
  <1> QED
    BY <1>3, <1>4

(* The first whom a publication posts to; whom it addresses besides and is greater lies in  *)
(* a higher byte.                                                                           *)
LEMMA LeadIs ==
  ASSUME NEW frame \in FrameType
  PROVE  /\ Lead(frame) \in Nat
         /\ Begun(frame) /\ frame.subs \subseteq frame.addressed => Lead(frame) \in Object
         /\ \A o \in frame.addressed : o > Lead(frame) =>
              Byte(Lead(frame)) < Byte(o) /\ Lead(frame) \in frame.addressed
  <1>1. frame.addressed \in SUBSET Object
    BY DEF FrameType
  <1>2. frame.subs \subseteq frame.addressed /\ frame.subs # frame.addressed => frame.addressed # {}
    OBVIOUS
  <1> DEFINE A == frame.addressed
  <1>3. A \in SUBSET Object
    BY <1>1
  <1> HIDE DEF A
  <1>4. FindMax(A) \in Nat /\ (A # {} => FindMax(A) \in Object)
    BY <1>3, FoundIs, FindMaxIs
  <1>5. \A o \in A : o > FindMax(A) => Byte(FindMax(A)) < Byte(o) /\ FindMax(A) \in A
    BY <1>3, FindMaxIs
  <1> QED
    BY <1>2, <1>4, <1>5 DEF Lead, Begun, A

(* The stack with another frame on it, without its last, and with its last changed. *)
LEMMA PushIs ==
  ASSUME NEW T, NEW st \in Seq(T), NEW f \in T
  PROVE  /\ Append(st, f) \in Seq(T) /\ Len(Append(st, f)) = Len(st) + 1
         /\ \A i \in 1..Len(st) : Append(st, f)[i] = st[i]
         /\ Append(st, f)[Len(st) + 1] = f
  OBVIOUS

LEMMA ChangeIs ==
  ASSUME NEW T, NEW st \in Seq(T), Len(st) >= 1, NEW f \in T
  PROVE  /\ [st EXCEPT ![Len(st)] = f] \in Seq(T)
         /\ Len([st EXCEPT ![Len(st)] = f]) = Len(st)
         /\ [st EXCEPT ![Len(st)] = f][Len(st)] = f
         /\ \A i \in 1..Len(st) : i # Len(st) => [st EXCEPT ![Len(st)] = f][i] = st[i]
  OBVIOUS

LEMMA PopIs ==
  ASSUME NEW T, NEW st \in Seq(T), Len(st) >= 1
  PROVE  /\ Front(st) \in Seq(T) /\ Len(Front(st)) = Len(st) - 1
         /\ \A i \in 1..(Len(st) - 1) : Front(st)[i] = st[i]
         /\ \A f \in T : Append(Front(st), f) = [st EXCEPT ![Len(st)] = f]
  <1> DEFINE n == Len(st)
  <1>1. n \in Nat /\ n >= 1 /\ Front(st) = SubSeq(st, 1, n - 1)
    BY DEF Front
  <1>2. \A i \in 1..(n - 1) : st[i] \in T
    OBVIOUS
  <1> HIDE DEF n
  <1>3. /\ SubSeq(st, 1, n - 1) \in Seq(T)
        /\ Len(SubSeq(st, 1, n - 1)) = n - 1
        /\ \A i \in 1..(n - 1) : SubSeq(st, 1, n - 1)[i] = st[i]
    BY <1>1, <1>2, SubSeqProperties
  <1>4. \A f \in T : Append(Front(st), f) = [st EXCEPT ![n] = f]
    <2> TAKE f \in T
    <2> DEFINE a == Append(Front(st), f)
               b == [st EXCEPT ![n] = f]
    <2>1. Front(st) \in Seq(T)
      BY <1>1, <1>3
    <2>2. /\ a \in Seq(T) /\ Len(a) = n /\ a[n] = f
          /\ \A i \in 1..(n - 1) : a[i] = st[i]
      BY <1>1, <1>3, <2>1, PushIs
    <2>3. b \in Seq(T) /\ Len(b) = n /\ b[n] = f /\ \A i \in 1..n : i # n => b[i] = st[i]
      BY <1>1, ChangeIs DEF n
    <2> HIDE DEF a, b
    <2>4. \A i \in 1..n : a[i] = b[i]
      BY <1>1, <2>2, <2>3
    <2> QED
      BY <2>2, <2>3, <2>4, SeqEqual DEF a, b
  <1> QED
    BY <1>1, <1>3, <1>4 DEF n

(* What a stack that is sound allows to go on top of it. *)
LEMMA FieldsAre ==
  ASSUME NEW st \in Seq(FrameType), NEW i \in 1..Len(st)
  PROVE  /\ st[i].ao \in Object \cup {0} /\ st[i].pc \in {"get", "handling", "multicast"}
         /\ st[i].addressed \in SUBSET Object /\ st[i].subs \in SUBSET Object
         /\ st[i].sched_status \in 0..(MAX_ACTIVE_OBJECT + 1) \cup {NOT_LOCKED}
         /\ st[i].prio_in \in Object \cup {0} /\ st[i].pthre_in \in 0..MAX_ACTIVE_OBJECT
         /\ st[i] \in FrameType
  <1>1. st[i] \in FrameType
    OBVIOUS
  <1> QED
    BY <1>1 DEF FrameType

LEMMA PrioritiesAre ==
  ASSUME NEW st \in Seq(FrameType)
  PROVE  \A i \in 1..Len(st) :
           /\ st[i].ao \in Object \cup {0} /\ st[i].ao \in Nat
           /\ Threshold(st[i].ao) \in Nat /\ Threshold(st[i].ao) \in 0..MAX_ACTIVE_OBJECT
           /\ st[i].ao <= Threshold(st[i].ao)
  <1> TAKE i \in 1..Len(st)
  <1>1. st[i].ao \in Object \cup {0}
    BY FieldsAre
  <1>2. Threshold(st[i].ao) \in 0..MAX_ACTIVE_OBJECT /\ st[i].ao <= Threshold(st[i].ao)
        /\ st[i].ao \in Nat
    BY <1>1, ThresholdIs, Zenon
  <1> QED
    BY <1>1, <1>2, ObjectsAre

LEMMA Pushes ==
  ASSUME NEW st, NEW ready \in SUBSET Object, NEW ceiling \in Nat, NEW base,
         NEW q \in [Object -> Nat],
         Sound(st, ready, ceiling, base, q),
         NEW o, MayRun(o, st, ready, Threshold(st[Len(st)].ao), ceiling),
         NEW last, last = st[Len(st)].ao,
         NEW f, f = Frame(o, "get", last, Threshold(last))
  PROVE  Sound(Append(st, f), ready, ceiling, base, q)
  <1> DEFINE new == Append(st, f)
             n == Len(st)
  <1>0. /\ o \in ready /\ o > Threshold(st[Len(st)].ao) /\ o > ceiling
        /\ \A i \in 1..Len(st) : Begun(st[i]) => o \notin st[i].addressed
    BY DEF MayRun
  <1>1. st \in Seq(FrameType) /\ n \in Nat /\ n >= 1 /\ n \in 1..n /\ o \in Object /\ o \in Nat
    BY <1>0, ObjectsAre DEF Sound
  <1>2. last \in Object \cup {0} /\ Threshold(last) \in 0..MAX_ACTIVE_OBJECT
    BY <1>1, FieldsAre, ThresholdIs
  <1>3. /\ f \in FrameType /\ f.ao = o /\ f.pc = "get" /\ f.prio_in = last
        /\ f.pthre_in = Threshold(last) /\ f.sched_status = NOT_LOCKED
    BY <1>1, <1>2, FrameIs
  <1>4. /\ new \in Seq(FrameType) /\ Len(new) = n + 1 /\ new[n + 1] = f
        /\ \A i \in 1..n : new[i] = st[i]
    BY <1>1, <1>3, PushIs
  <1> HIDE DEF new, n
  <1>5. \A i \in 1..(n + 1) : i = n + 1 \/ i \in 1..n
    BY <1>1
  <1>6. \A i \in 1..n : Threshold(st[i].ao) < o
    <2> TAKE i \in 1..n
    <2>1. CASE i = n
      BY <1>0, <2>1 DEF n
    <2>2. CASE i # n
      <3>1. i < n /\ n \in 1..n
        BY <1>1, <2>2
      <3>2. Threshold(st[i].ao) < st[n].ao
        BY <3>1 DEF Sound, Ordered, n
      <3>3. st[n].ao <= Threshold(st[n].ao) /\ st[n].ao \in Nat /\ Threshold(st[n].ao) \in Nat
        BY <1>1, PrioritiesAre DEF n
      <3>4. Threshold(st[i].ao) \in Nat
        BY <1>1, PrioritiesAre DEF n
      <3>5. Threshold(st[n].ao) < o
        BY <1>0 DEF n
      <3> QED
        BY <1>1, <3>2, <3>3, <3>4, <3>5
    <2> QED
      BY <2>1, <2>2
  <1>7. Ordered(new)
    <2>1. \A i \in 1..Len(new) : new[i].ao = 0 <=> i = 1
      <3>1. \A i \in 1..n : st[i].ao = 0 <=> i = 1
        BY DEF Sound, Ordered, n
      <3>2. o # 0
        BY <1>1, ObjectsAre
      <3> QED
        BY <1>1, <1>3, <1>4, <1>5, <3>1, <3>2
    <2>2. \A i, j \in 1..Len(new) : i < j => Threshold(new[i].ao) < new[j].ao
      <3>1. \A i, j \in 1..n : i < j => Threshold(st[i].ao) < st[j].ao
        BY DEF Sound, Ordered, n
      <3>2. \A i, j \in 1..(n + 1) : i < j => i \in 1..n
        BY <1>1
      <3> QED
        BY <1>3, <1>4, <1>5, <1>6, <3>1, <3>2
    <2>3. \A i \in 2..Len(new) : /\ new[i].prio_in = new[i - 1].ao
                                 /\ new[i].pthre_in = Threshold(new[i - 1].ao)
      <3>1. \A i \in 2..n : /\ st[i].prio_in = st[i - 1].ao
                            /\ st[i].pthre_in = Threshold(st[i - 1].ao)
        BY DEF Sound, Ordered, n
      <3>2. /\ \A i \in 2..(n + 1) : i = n + 1 \/ i \in 2..n
            /\ \A i \in 2..n : i \in 1..n /\ i - 1 \in 1..n
            /\ (n + 1) - 1 = n /\ n \in 1..n
        BY <1>1
      <3>3. last = st[n].ao
        BY DEF n
      <3> QED
        BY <1>3, <1>4, <3>1, <3>2, <3>3
    <2>4. \A i \in 1..Len(new) : Raised(new, i) => new[i].pc = "multicast"
      <3>1. \A i \in 1..n : Raised(st, i) => st[i].pc = "multicast"
        BY DEF Sound, Ordered, n
      <3> QED
        BY <1>3, <1>4, <1>5, <3>1 DEF Raised
    <2>5. new[1].pc # "get"
      <3>1. st[1].pc # "get" /\ 1 \in 1..n
        BY <1>1 DEF Sound, Ordered, n
      <3> QED
        BY <1>4, <3>1
    <2> QED
      BY <2>1, <2>2, <2>3, <2>4, <2>5 DEF Ordered
  <1>8. Locked(new, ceiling)
    <2>0. Locked(st, ceiling) /\ n = Len(st)
      BY DEF Sound, n
    <2>1. ASSUME NEW i \in 1..(n + 1), new[i].pc = "multicast"
          PROVE  /\ new[i].subs \subseteq new[i].addressed
                 /\ Lead(new[i]) <= ceiling
                 /\ \A j \in 1..(n + 1) : i < j =>
                      Lead(new[i]) < new[j].ao /\ (Raised(new, j) => Lead(new[i]) <= new[j].sched_status)
      <3>1. i \in 1..n /\ new[i] = st[i]
        BY <1>3, <1>4, <1>5, <2>1
      <3>2. /\ st[i].subs \subseteq st[i].addressed
            /\ Lead(st[i]) <= ceiling
            /\ \A j \in 1..n : i < j =>
                 Lead(st[i]) < st[j].ao /\ (Raised(st, j) => Lead(st[i]) <= st[j].sched_status)
        BY <2>0, <2>1, <3>1 DEF Locked
      <3>3. Lead(st[i]) \in Nat
        <4>1. st[i] \in FrameType
          BY <1>1, <3>1, FieldsAre DEF n
        <4> QED
          BY <4>1, LeadIs
      <3>4. Lead(st[i]) < o
        BY <1>0, <1>1, <3>2, <3>3
      <3> QED
        BY <1>3, <1>4, <1>5, <3>1, <3>2, <3>4 DEF Raised
    <2>2. \A i \in 1..(n + 1) : Raised(new, i) => i \in 1..n /\ Raised(st, i) /\ new[i] = st[i]
      BY <1>3, <1>4, <1>5 DEF Raised
    <2>3. \A i \in 1..n : Raised(st, i) => st[i].sched_status < ceiling
      BY <2>0 DEF Locked
    <2>4. \A i, j \in 1..n : i < j /\ Raised(st, i) /\ Raised(st, j) =>
            st[i].sched_status < st[j].sched_status
      BY <2>0 DEF Locked
    <2> QED
      BY <1>4, <2>1, <2>2, <2>3, <2>4 DEF Locked
  <1>9. Unlocks(new, ceiling, base)
    <2>1. base = 0
      <3>1. base # 0 => ceiling = MAX_ACTIVE_OBJECT + 1
        BY DEF Sound, Unlocks
      <3>2. o <= MAX_ACTIVE_OBJECT
        BY <1>1, ObjectsAre
      <3> QED
        BY <1>0, <1>1, <3>1, <3>2, ObjectsAre
    <2>2. \/ ceiling = 0
          \/ \E i \in 1..n : Raised(st, i) /\ st[i].sched_status = 0
      BY <2>1 DEF Sound, Unlocks, n
    <2>3. \A i \in 1..n : i \in 1..(n + 1)
      BY <1>1
    <2> QED
      BY <1>4, <2>1, <2>2, <2>3 DEF Unlocks, Raised
  <1>10. ReadyIsExact(new, ready, q)
    <2>1. ReadyIsExact(st, ready, q) /\ n = Len(st)
      BY DEF Sound, n
    <2>2. q[o] > 0
      <3>1. q[o] > 0 \/ \E i \in 1..n : st[i].ao = o
        BY <1>0, <2>1 DEF ReadyIsExact
      <3>2. \A i \in 1..n : st[i].ao # o
        <4> TAKE i \in 1..n
        <4>1. st[i].ao <= Threshold(st[i].ao) /\ st[i].ao \in Nat /\ Threshold(st[i].ao) \in Nat
          BY <1>1, PrioritiesAre DEF n
        <4> QED
          BY <1>1, <1>6, <4>1
      <3> QED
        BY <3>1, <3>2
    <2>3. \A i \in 1..n : i \in 1..(n + 1)
      BY <1>1
    <2>4. \A i \in 1..(n + 1) : new[i].pc = "get" => q[new[i].ao] > 0
      BY <1>3, <1>4, <1>5, <2>1, <2>2 DEF ReadyIsExact
    <2>5. \A p \in ready : q[p] > 0 \/ \E i \in 1..(n + 1) : new[i].ao = p
      BY <1>4, <2>1, <2>3 DEF ReadyIsExact
    <2> QED
      BY <1>4, <2>1, <2>4, <2>5 DEF ReadyIsExact
  <1>11. Hidden(new, q)
    <2>1. Hidden(st, q) /\ n = Len(st)
      BY DEF Sound, n
    <2>2. \A i \in 1..(n + 1) : Begun(new[i]) => i \in 1..n /\ new[i] = st[i] /\ Begun(st[i])
      BY <1>3, <1>4, <1>5 DEF Begun
    <2>3. \A i \in 1..n : Begun(st[i]) =>
            /\ q[Lead(st[i])] > 0
            /\ \A j \in 1..n : i < j => st[j].ao \notin st[i].addressed
      BY <2>1 DEF Hidden
    <2>4. \A i \in 1..n : Begun(st[i]) => o \notin st[i].addressed
      BY <1>0, <2>1
    <2> QED
      BY <1>3, <1>4, <1>5, <2>2, <2>3, <2>4 DEF Hidden
  <1> QED
    BY <1>1, <1>4, <1>7, <1>8, <1>9, <1>10, <1>11 DEF Sound, new

(* What is eligible may run: whom it overtakes in the middle of a publication would hide it. *)
LEMMA DecisionIs ==
  ASSUME NEW st, NEW ready \in SUBSET Object, NEW ceiling \in Nat, NEW base,
         NEW q \in [Object -> Nat], Sound(st, ready, ceiling, base, q), NEW t \in Nat,
         NEW o, o = Eligible(ready, t, ceiling), o # 0
  PROVE  MayRun(o, st, ready, t, ceiling)
  <1>1. Eligible(ready, t, ceiling) # 0 =>
          /\ Eligible(ready, t, ceiling) = FindMax(ready) /\ Eligible(ready, t, ceiling) \in ready
          /\ Eligible(ready, t, ceiling) > t /\ Eligible(ready, t, ceiling) > ceiling
    BY EligibleIs, Zenon
  <1>2. o = FindMax(ready) /\ o \in ready /\ o > t /\ o > ceiling
    BY <1>1, Zenon
  <1>3. o \in Object /\ o \in Nat /\ \A p \in ready : Byte(o) <= Byte(p)
    <2>1. \A p \in ready : Byte(FindMax(ready)) <= Byte(p)
      BY <1>2, FindMaxIs
    <2> QED
      BY <1>2, <2>1, ObjectsAre
  <1>4. ASSUME NEW i \in 1..Len(st), Begun(st[i]), o \in st[i].addressed
        PROVE  FALSE
    <2>1. st[i] \in FrameType /\ st[i].pc = "multicast" /\ st[i].subs \subseteq st[i].addressed
          /\ Lead(st[i]) <= ceiling /\ q[Lead(st[i])] > 0
      BY <1>4, FieldsAre DEF Sound, Locked, Hidden, Begun
    <2>2. Lead(st[i]) \in Object /\ Lead(st[i]) \in Nat
      BY <1>4, <2>1, LeadIs
    <2>3. Byte(Lead(st[i])) < Byte(o)
      <3>1. o > Lead(st[i])
        BY <1>2, <1>3, <2>1, <2>2
      <3> QED
        BY <1>4, <2>1, <3>1, LeadIs
    <2>4. Lead(st[i]) \in ready
      BY <2>1, <2>2 DEF Sound, ReadyIsExact
    <2>5. Byte(o) \in Nat /\ Byte(Lead(st[i])) \in Nat /\ Byte(o) <= Byte(Lead(st[i]))
      BY <1>3, <2>2, <2>4, BytesAre
    <2> QED
      BY <2>3, <2>5
  <1> QED
    BY <1>2, <1>4 DEF MayRun

\* The choice that HighestIsChosen allows.
IsChoice(o, ready) ==
  o \in ready /\ \A p \in ready : p > o => \E r \in ready : Byte(r) < Byte(p)

(* Once it runs nothing is eligible, also when a decision stands although something hides   *)
(* it by now; and it is the right choice.                                                   *)
LEMMA ChoiceIs ==
  ASSUME NEW ready \in SUBSET Object, NEW t \in Nat, NEW ceiling \in Nat,
         NEW o \in ready, o > t, o > ceiling, Eligible(ready, t, ceiling) \in {0, o}
  PROVE  Eligible(ready, Threshold(o), ceiling) = 0 /\ IsChoice(o, ready)
  <1> DEFINE m == FindMax(ready)
  <1>1. /\ m \in ready /\ m \in Nat /\ \A p \in ready : Byte(m) <= Byte(p)
        /\ \A p \in ready : p > m => Byte(m) < Byte(p)
    BY FindMaxIs
  <1>2. /\ Eligible(ready, t, ceiling) = 0 => m <= t \/ m <= ceiling
        /\ Eligible(ready, t, ceiling) # 0 => Eligible(ready, t, ceiling) = m
    BY EligibleIs
  <1>3. o \in Object /\ o \in Nat /\ Threshold(o) \in Nat /\ o <= Threshold(o) /\ o # 0
    BY ObjectsAre
  <1>4. Eligible(ready, Threshold(o), ceiling) = 0 <=> m <= Threshold(o) \/ m <= ceiling
    <2> DEFINE u == Threshold(o)
    <2>1. u \in Nat
      BY <1>3
    <2> HIDE DEF u
    <2>2. Eligible(ready, u, ceiling) = 0 <=> m <= u \/ m <= ceiling
      BY <2>1, EligibleIs
    <2> QED
      BY <2>2 DEF u
  <1> HIDE DEF m
  <1>5. m <= o
    BY <1>1, <1>2, <1>3
  <1>6. m <= Threshold(o)
    BY <1>1, <1>3, <1>5
  <1>7. ASSUME NEW p \in ready, p > o PROVE Byte(m) < Byte(p)
    <2>1. p \in Nat
      BY ObjectsAre
    <2>2. p > m
      BY <1>1, <1>3, <1>5, <1>7, <2>1
    <2> QED
      BY <1>1, <2>2
  <1> QED
    BY <1>1, <1>4, <1>6, <1>7 DEF IsChoice

(* A decision acted on: the object that may run runs on top.                                *)
LEMMA Scheduled ==
  ASSUME NEW st, NEW ready \in SUBSET Object, NEW ceiling \in Nat, NEW base,
         NEW q \in [Object -> Nat], Sound(st, ready, ceiling, base, q),
         NEW last, last = st[Len(st)].ao,
         NEW o, MayRun(o, st, ready, Threshold(last), ceiling),
         NEW new, new = Append(st, Frame(o, "get", last, Threshold(last)))
  PROVE  Sound(new, ready, ceiling, base, q)
  <1> DEFINE f == Frame(o, "get", last, Threshold(last))
  <1>1. new = Append(st, f) /\ MayRun(o, st, ready, Threshold(st[Len(st)].ao), ceiling)
    OBVIOUS
  <1>2. f = Frame(o, "get", last, Threshold(last))
    OBVIOUS
  <1> HIDE DEF f
  <1>3. Sound(Append(st, f), ready, ceiling, base, q)
    BY <1>1, <1>2, Pushes
  <1> QED
    BY <1>1, <1>3

(* ... and is the last on the stack. *)
LEMMA ScheduledIsTop ==
  ASSUME NEW st \in Seq(FrameType), Len(st) >= 1, NEW last, last = st[Len(st)].ao,
         NEW o \in Object, NEW new, new = Append(st, Frame(o, "get", last, Threshold(last)))
  PROVE  Len(new) = Len(st) + 1 /\ new[Len(new)].ao = o /\ new[Len(new)].pc = "get"
  <1>1. Len(st) \in 1..Len(st)
    OBVIOUS
  <1>2. last \in Object \cup {0} /\ Threshold(last) \in 0..MAX_ACTIVE_OBJECT
    BY <1>1, PrioritiesAre
  <1> DEFINE f == Frame(o, "get", last, Threshold(last))
  <1>3. f \in FrameType /\ f.ao = o /\ f.pc = "get"
    BY <1>2 DEF Frame, FrameType
  <1>4. new = Append(st, f)
    OBVIOUS
  <1> HIDE DEF f
  <1> QED
    BY <1>3, <1>4, PushIs

(* What a frame lets the ceiling be: whom it posts to first is at most that high, and the   *)
(* ceiling it will restore is lower.                                                        *)
Allows(frame, c) ==
  /\ frame.pc = "multicast" => Lead(frame) <= c
  /\ frame.sched_status # NOT_LOCKED => frame.sched_status < c

LEMMA LockedAllows ==
  ASSUME NEW st \in Seq(FrameType), NEW ceiling \in Nat, Ordered(st), Locked(st, ceiling)
  PROVE  /\ \A i \in 1..Len(st) : Allows(st[i], ceiling)
         /\ \A i, j \in 1..Len(st) : i < j /\ Raised(st, j) => Allows(st[i], st[j].sched_status)
         /\ \A i \in 1..Len(st) : Raised(st, i) =>
              st[i].sched_status < ceiling /\ st[i].sched_status \in Nat
  <1>1. \A i \in 1..Len(st) : Allows(st[i], ceiling)
    BY DEF Locked, Allows, Raised
  <1>2. \A i, j \in 1..Len(st) : i < j /\ Raised(st, j) => Allows(st[i], st[j].sched_status)
    BY DEF Locked, Allows, Raised
  <1>3. \A i \in 1..Len(st) : Raised(st, i) => st[i].sched_status \in Nat
    BY FieldsAre DEF Raised
  <1> QED
    BY <1>1, <1>2, <1>3 DEF Locked

LEMMA AllowsMore ==
  ASSUME NEW frame \in FrameType, NEW c \in Nat, NEW d \in Nat, c <= d, Allows(frame, c)
  PROVE  Allows(frame, d)
  <1>1. Lead(frame) \in Nat
    BY LeadIs
  <1>2. frame.sched_status \in Nat
    <2>1. frame.sched_status \in 0..(MAX_ACTIVE_OBJECT + 1) \cup {NOT_LOCKED}
      BY DEF FrameType
    <2>2. \A x \in 0..(MAX_ACTIVE_OBJECT + 1) \cup {NOT_LOCKED} : x \in Nat
      BY ObjectsAre DEF NOT_LOCKED
    <2> QED
      BY <2>1, <2>2
  <1> QED
    BY <1>1, <1>2 DEF Allows

(* What the thread that runs may change about itself, and about the ceiling.                *)
MayBecome(st, n, f, d) ==
  /\ f.ao = st[n].ao /\ f.prio_in = st[n].prio_in /\ f.pthre_in = st[n].pthre_in
  /\ f.pc # "get"
  /\ f.sched_status # NOT_LOCKED => f.pc = "multicast"
  /\ f.pc = "multicast" => f.subs \subseteq f.addressed
  /\ Allows(f, d)
  /\ \A i \in 1..n : i # n => Allows(st[i], d)
  /\ f.sched_status # NOT_LOCKED => \A i \in 1..n : i # n => Allows(st[i], f.sched_status)

LEMMA ChangesTop ==
  ASSUME NEW st, NEW ready \in SUBSET Object, NEW ceiling \in Nat, NEW base,
         NEW q \in [Object -> Nat], Sound(st, ready, ceiling, base, q),
         NEW n, n = Len(st), NEW f \in FrameType, NEW d \in Nat, MayBecome(st, n, f, d),
         NEW new, new = [st EXCEPT ![n] = f], Unlocks(new, d, base),
         Begun(f) => q[Lead(f)] > 0
  PROVE  Sound(new, ready, d, base, q)
  <1>0. /\ f.ao = st[n].ao /\ f.prio_in = st[n].prio_in /\ f.pthre_in = st[n].pthre_in
        /\ f.pc # "get"
        /\ f.sched_status # NOT_LOCKED => f.pc = "multicast"
        /\ f.pc = "multicast" => f.subs \subseteq f.addressed
        /\ Allows(f, d)
        /\ \A i \in 1..n : i # n => Allows(st[i], d)
        /\ f.sched_status # NOT_LOCKED => \A i \in 1..n : i # n => Allows(st[i], f.sched_status)
    BY DEF MayBecome
  <1>1. st \in Seq(FrameType) /\ n \in Nat /\ n >= 1 /\ n \in 1..n
    BY DEF Sound
  <1>2. /\ new \in Seq(FrameType) /\ Len(new) = n /\ new[n] = f
        /\ \A i \in 1..n : i # n => new[i] = st[i]
    BY <1>1, ChangeIs
  <1>3. Ordered(st) /\ Locked(st, ceiling) /\ ReadyIsExact(st, ready, q)
    BY DEF Sound
  <1>4. /\ \A i \in 1..n : new[i].ao = st[i].ao /\ new[i].prio_in = st[i].prio_in
        /\ \A i \in 1..n : new[i].pthre_in = st[i].pthre_in
    BY <1>0, <1>2
  <1>5. Ordered(new)
    <2>1. \A i \in 1..n : new[i].ao = 0 <=> i = 1
      BY <1>3, <1>4 DEF Ordered
    <2>2. \A i, j \in 1..n : i < j => Threshold(new[i].ao) < new[j].ao
      BY <1>3, <1>4 DEF Ordered
    <2>3. \A i \in 2..n : /\ new[i].prio_in = new[i - 1].ao
                          /\ new[i].pthre_in = Threshold(new[i - 1].ao)
      <3>1. \A i \in 2..n : i \in 1..n /\ i - 1 \in 1..n
        BY <1>1
      <3> QED
        BY <1>3, <1>4, <3>1 DEF Ordered
    <2>4. \A i \in 1..n : Raised(new, i) => new[i].pc = "multicast"
      BY <1>0, <1>2, <1>3 DEF Ordered, Raised
    <2>5. new[1].pc # "get"
      <3>1. 1 \in 1..n
        BY <1>1
      <3> QED
        BY <1>0, <1>2, <1>3, <3>1 DEF Ordered
    <2> QED
      BY <1>2, <2>1, <2>2, <2>3, <2>4, <2>5 DEF Ordered
  <1>6. Locked(new, d)
    <2>1. \A i \in 1..n : Allows(new[i], d)
      BY <1>0, <1>2
    <2>2. \A i, j \in 1..n : i < j /\ Raised(new, j) => Allows(new[i], new[j].sched_status)
      <3> TAKE i, j \in 1..n
      <3> SUFFICES ASSUME i < j, Raised(new, j) PROVE Allows(new[i], new[j].sched_status)
        OBVIOUS
      <3>1. i # n /\ new[i] = st[i]
        BY <1>1, <1>2
      <3>2. CASE j = n
        BY <1>0, <1>2, <3>1, <3>2 DEF Raised
      <3>3. CASE j # n
        BY <1>1, <1>2, <1>3, <3>1, <3>3, LockedAllows DEF Raised
      <3> QED
        BY <3>2, <3>3
    <2>3. \A i \in 1..n : new[i].pc = "multicast" => new[i].subs \subseteq new[i].addressed
      BY <1>0, <1>2, <1>3 DEF Locked
    <2>4. \A i, j \in 1..n : i < j /\ new[i].pc = "multicast" => Lead(new[i]) < new[j].ao
      <3> TAKE i, j \in 1..n
      <3> SUFFICES ASSUME i < j, new[i].pc = "multicast" PROVE Lead(new[i]) < new[j].ao
        OBVIOUS
      <3>1. i # n /\ new[i] = st[i]
        BY <1>1, <1>2
      <3> QED
        BY <1>3, <1>4, <3>1 DEF Locked
    <2> QED
      BY <1>2, <2>1, <2>2, <2>3, <2>4 DEF Locked, Allows, Raised
  <1>7. ReadyIsExact(new, ready, q)
    <2>1. \A i \in 1..n : new[i].pc = "get" => st[i].pc = "get"
      BY <1>0, <1>2
    <2> QED
      BY <1>2, <1>3, <1>4, <2>1 DEF ReadyIsExact
  <1>8. Hidden(new, q)
    <2> SUFFICES ASSUME NEW i \in 1..n, Begun(new[i])
                 PROVE  /\ q[Lead(new[i])] > 0
                        /\ \A j \in 1..n : i < j => new[j].ao \notin new[i].addressed
      BY <1>2 DEF Hidden
    <2>1. CASE i = n
      BY <1>1, <1>2, <2>1
    <2>2. CASE i # n
      BY <1>2, <1>4, <2>2 DEF Sound, Hidden
    <2> QED
      BY <2>1, <2>2
  <1> QED
    BY <1>2, <1>5, <1>6, <1>7, <1>8 DEF Sound

(* What is below the frame of an object, and that the frame knows it.                       *)
LEMMA PopsTo ==
  ASSUME NEW st \in Seq(FrameType), Len(st) >= 1, Ordered(st),
         NEW n, n = Len(st), st[n].ao # 0
  PROVE  /\ n - 1 >= 1 /\ Len(Front(st)) = n - 1
         /\ st[n].prio_in = Front(st)[n - 1].ao
         /\ st[n].pthre_in = Threshold(Front(st)[n - 1].ao)
  <1>1. n \in Nat /\ n >= 1 /\ n \in 1..n
    OBVIOUS
  <1>2. n # 1
    BY <1>1 DEF Ordered
  <1>3. n - 1 >= 1 /\ n \in 2..n /\ n - 1 \in 1..(n - 1)
    BY <1>1, <1>2
  <1>4. st[n].prio_in = st[n - 1].ao /\ st[n].pthre_in = Threshold(st[n - 1].ao)
    BY <1>3 DEF Ordered
  <1>5. Len(Front(st)) = n - 1 /\ Front(st)[n - 1] = st[n - 1]
    BY <1>3, PopIs
  <1> QED
    BY <1>3, <1>4, <1>5

(* An object is done with its event: its frame goes, and its readiness with its last event. *)
LEMMA Pops ==
  ASSUME NEW st, NEW ready \in SUBSET Object, NEW ceiling \in Nat, NEW base,
         NEW q \in [Object -> Nat], Sound(st, ready, ceiling, base, q),
         NEW n, n = Len(st), st[n].pc = "handling", st[n].ao # 0,
         NEW left, left = IF q[st[n].ao] = 0 THEN ready \ {st[n].ao} ELSE ready
  PROVE  Sound(Front(st), left, ceiling, base, q)
  <1>1. st \in Seq(FrameType) /\ n \in Nat /\ n >= 1 /\ n \in 1..n
    BY DEF Sound
  <1>2. Ordered(st) /\ Locked(st, ceiling) /\ Unlocks(st, ceiling, base)
        /\ ReadyIsExact(st, ready, q)
    BY DEF Sound
  <1>3. n > 1
    BY <1>1, <1>2 DEF Ordered
  <1> DEFINE m == n - 1
             new == Front(st)
  <1>4. m \in Nat /\ m >= 1 /\ (\A i \in 1..m : i \in 1..n /\ i # n /\ i < n) /\ m = n - 1
        /\ \A i \in 1..n : i = n \/ i \in 1..m
    BY <1>1, <1>3
  <1>5. new \in Seq(FrameType) /\ Len(new) = m /\ \A i \in 1..m : new[i] = st[i]
    BY <1>1, PopIs
  <1> HIDE DEF m, new
  <1>7. ~Raised(st, n)
    BY <1>1, <1>2 DEF Ordered
  <1>8. Ordered(new)
    <2>1. \A i \in 1..m : new[i].ao = 0 <=> i = 1
      BY <1>2, <1>4, <1>5 DEF Ordered
    <2>2. \A i, j \in 1..m : i < j => Threshold(new[i].ao) < new[j].ao
      BY <1>2, <1>4, <1>5 DEF Ordered
    <2>3. \A i \in 2..m : /\ new[i].prio_in = new[i - 1].ao
                          /\ new[i].pthre_in = Threshold(new[i - 1].ao)
      <3>1. \A i \in 2..m : i \in 1..m /\ i - 1 \in 1..m /\ i \in 2..n
        <4>1. m \in Nat /\ n \in Nat /\ m = n - 1
          BY <1>1, <1>4
        <4> QED
          BY <4>1
      <3>2. \A i \in 2..n : /\ st[i].prio_in = st[i - 1].ao
                            /\ st[i].pthre_in = Threshold(st[i - 1].ao)
        BY <1>2 DEF Ordered
      <3> QED
        BY <1>5, <3>1, <3>2
    <2>4. \A i \in 1..m : Raised(new, i) => new[i].pc = "multicast"
      BY <1>2, <1>4, <1>5 DEF Ordered, Raised
    <2>5. new[1].pc # "get"
      <3>1. 1 \in 1..m
        BY <1>4
      <3> QED
        BY <1>2, <1>5, <3>1 DEF Ordered
    <2> QED
      BY <1>5, <2>1, <2>2, <2>3, <2>4, <2>5 DEF Ordered
  <1>9. Locked(new, ceiling)
    BY <1>2, <1>4, <1>5 DEF Locked, Raised
  <1>10. Unlocks(new, ceiling, base)
    <2>1. base = 0
      BY <1>2, <1>3 DEF Unlocks
    <2>2. \/ ceiling = 0
          \/ \E i \in 1..m : Raised(new, i) /\ new[i].sched_status = 0
      BY <1>2, <1>4, <1>5, <1>7, <2>1 DEF Unlocks, Raised
    <2> QED
      BY <1>5, <2>1, <2>2 DEF Unlocks
  <1>11. ReadyIsExact(new, left, q)
    <2>1. st[n].ao \in Object
      BY <1>1, FieldsAre
    <2>2. \A o \in Object : q[o] > 0 => o \in left
      BY <1>2, <2>1 DEF ReadyIsExact
    <2>3. \A i \in 1..m : new[i].pc = "get" => q[new[i].ao] > 0
      BY <1>2, <1>4, <1>5 DEF ReadyIsExact
    <2>4. ASSUME NEW o \in left PROVE q[o] > 0 \/ \E i \in 1..m : new[i].ao = o
      <3>1. o \in ready /\ o \in Object
        OBVIOUS
      <3>2. CASE o = st[n].ao
        <4>1. q[o] # 0 /\ q[o] \in Nat
          BY <3>1, <3>2
        <4> QED
          BY <4>1
      <3>3. CASE o # st[n].ao
        <4>1. q[o] > 0 \/ \E i \in 1..n : st[i].ao = o
          BY <1>2, <3>1 DEF ReadyIsExact
        <4>2. \A i \in 1..n : st[i].ao = o => i \in 1..m /\ new[i].ao = o
          BY <1>4, <1>5, <3>3
        <4> QED
          BY <4>1, <4>2
      <3> QED
        BY <3>2, <3>3
    <2> QED
      BY <1>5, <2>2, <2>3, <2>4 DEF ReadyIsExact
  <1>12. Hidden(new, q)
    <2>1. Hidden(st, q)
      BY DEF Sound
    <2> QED
      BY <1>4, <1>5, <2>1 DEF Hidden
  <1> QED
    BY <1>4, <1>5, <1>8, <1>9, <1>10, <1>11, <1>12 DEF Sound, m, new

-----------------------------------------------------------------------------
(* The invariant, one action at a time. *)

(* Acting on a decision, in a thread or in PendSV. *)
LEMMA Activates ==
  ASSUME NEW threads, NEW ready \in SUBSET Object, NEW ceiling \in Nat,
         NEW base, NEW q \in [Object -> Nat],
         Sound(threads, ready, ceiling, base, q),
         active_priority = threads[Len(threads)].ao,
         active_preemption_threshold = Threshold(active_priority),
         NEW o, MayRun(o, threads, ready, active_preemption_threshold, ceiling),
         Schedule(ready, ceiling) \in {0, o}, Activate(o, threads)
  PROVE  /\ Sound(stack', ready, ceiling, base, q)
         /\ active_priority' = Top'.ao /\ active_preemption_threshold' = Threshold(Top'.ao)
         /\ Schedule(ready, ceiling)' = 0
         /\ next_priority' = 0
         /\ IsChoice(Top'.ao, ready)
  <1> DEFINE last == active_priority
             t == active_preemption_threshold
  <1>1. stack' = Append(threads, Frame(o, "get", last, Threshold(last)))
    BY DEF Activate, Threshold
  <1>2. last = threads[Len(threads)].ao /\ t = Threshold(last)
    OBVIOUS
  <1>3. threads \in Seq(FrameType) /\ Len(threads) >= 1 /\ Len(threads) \in 1..Len(threads)
    BY DEF Sound
  <1>4. t \in Nat
    <2>1. Threshold(threads[Len(threads)].ao) \in Nat
      BY <1>3, PrioritiesAre
    <2> QED
      BY <2>1
  <1>5. /\ MayRun(o, threads, ready, t, ceiling) /\ o \in ready /\ o > t /\ o > ceiling
        /\ Eligible(ready, t, ceiling) \in {0, o}
    BY DEF MayRun, Schedule
  <1> HIDE DEF last, t
  <1>6. Eligible(ready, Threshold(o), ceiling) = 0 /\ IsChoice(o, ready) /\ o \in Object
    BY <1>4, <1>5, ChoiceIs
  <1>7. Sound(stack', ready, ceiling, base, q)
    <2>1. MayRun(o, threads, ready, Threshold(last), ceiling)
      BY <1>2, <1>5
    <2> QED
      BY <1>1, <1>2, <2>1, Scheduled
  <1>8. stack'[Len(stack')].ao = o
    <2>1. o \in Object /\ last = threads[Len(threads)].ao
      BY <1>2, <1>6
    <2> QED
      BY <1>1, <1>3, <2>1, ScheduledIsTop
  <1>9. Threshold(o) = pthre[o]
    BY <1>6, ObjectsAre
  <1>10. active_priority' = o /\ active_preemption_threshold' = pthre[o] /\ next_priority' = 0
    BY DEF Activate
  <1>11. Schedule(ready, ceiling)' = 0
    BY <1>6, <1>9, <1>10 DEF Schedule
  <1> QED
    BY <1>6, <1>7, <1>8, <1>9, <1>10, <1>11 DEF Top, Depth

(* What the invariant says of the thread that runs. *)
LEMMA TopIs ==
  ASSUME KernelInv
  PROVE  /\ stack \in Seq(FrameType) /\ Depth \in Nat /\ Depth >= 1 /\ Depth \in 1..Depth
         /\ Depth = Len(stack)
         /\ Top = stack[Depth] /\ Top \in FrameType
         /\ Top.ao \in Object \cup {0} /\ Threshold(Top.ao) \in Nat
         /\ ready_set \in SUBSET Object /\ lock_ceiling \in Nat /\ queued \in [Object -> Nat]
         /\ running \in BOOLEAN
         /\ Sound(stack, ready_set, lock_ceiling, Base, queued)
         /\ ThreadRuns => Schedule(ready_set, lock_ceiling) = 0
         /\ active_priority = Top.ao /\ active_preemption_threshold = Threshold(Top.ao)
  <1>1. stack \in Seq(FrameType) /\ Len(stack) \in Nat /\ Len(stack) >= 1
    BY DEF KernelInv, KernelTypeOK
  <1>2. Depth \in 1..Len(stack)
    BY <1>1 DEF Depth
  <1>3. Top \in FrameType
    BY <1>1, <1>2, FieldsAre DEF Top, Depth
  <1>4. Top.ao \in Object \cup {0} /\ Threshold(Top.ao) \in Nat
    BY <1>1, <1>2, PrioritiesAre DEF Top, Depth
  <1>5. lock_ceiling \in Nat
    BY ObjectsAre DEF KernelInv, KernelTypeOK
  <1> QED
    BY <1>1, <1>2, <1>3, <1>4, <1>5 DEF KernelInv, KernelTypeOK, DecisionStands, Top, Depth

(* A thread that goes on with threads on the stack, unless there is something to activate. *)
LEMMA GoesOn ==
  ASSUME KernelInv, ThreadRuns,
         NEW threads, NEW ready \in SUBSET Object, NEW ceiling \in 0..(MAX_ACTIVE_OBJECT + 1),
         NEW base, NEW q \in [Object -> Nat],
         Sound(threads, ready, ceiling, base, q),
         threads[Len(threads)].ao = Top.ao,
         ScheduleAndActivate(ready, ceiling, threads),
         ready_set' = ready, lock_ceiling' = ceiling, base = Base', running' \in BOOLEAN, queued' = q,
         isr' = isr, pendsv' = pendsv, posts' \in Nat
  PROVE  KernelInv' /\ (stack' = threads \/ IsChoice(Top'.ao, ready_set'))
  <1>1. active_priority = Top.ao /\ active_preemption_threshold = Threshold(active_priority)
    BY DEF KernelInv, DecisionStands
  <1>2. ceiling \in Nat
    BY ObjectsAre
  <1>3. /\ Sound(stack', ready, ceiling, base, q)
        /\ active_priority' = Top'.ao /\ active_preemption_threshold' = Threshold(Top'.ao)
        /\ Schedule(ready, ceiling)' = 0
        /\ next_priority' \in Object \cup {0}
        /\ stack' = threads \/ IsChoice(Top'.ao, ready)
    <2>1. CASE Schedule(ready, ceiling) # 0
      <3> DEFINE o == Schedule(ready, ceiling)
                 t == active_preemption_threshold
      <3>1. Activate(o, threads) /\ o = Eligible(ready, t, ceiling) /\ o # 0
        BY <2>1 DEF ScheduleAndActivate, Schedule
      <3>2. t \in Nat /\ t = active_preemption_threshold /\ Schedule(ready, ceiling) \in {0, o}
        <4>1. active_preemption_threshold \in Nat
          BY TopIs
        <4> QED
          BY <4>1
      <3> HIDE DEF o, t
      <3>3. MayRun(o, threads, ready, t, ceiling)
        BY <1>2, <3>1, <3>2, DecisionIs
      <3>4. MayRun(o, threads, ready, active_preemption_threshold, ceiling)
        BY <3>2, <3>3
      <3>5. /\ Sound(stack', ready, ceiling, base, q)
            /\ active_priority' = Top'.ao /\ active_preemption_threshold' = Threshold(Top'.ao)
            /\ Schedule(ready, ceiling)' = 0 /\ next_priority' = 0
            /\ IsChoice(Top'.ao, ready)
        BY <1>1, <1>2, <3>1, <3>2, <3>4, Activates
      <3> QED
        BY <3>5
    <2>2. CASE Schedule(ready, ceiling) = 0
      <3>1. /\ stack' = threads
            /\ UNCHANGED <<active_priority, active_preemption_threshold, next_priority>>
        BY <2>2 DEF ScheduleAndActivate
      <3>2. Schedule(ready, ceiling)' = 0
        BY <2>2, <3>1 DEF Schedule
      <3>3. Top' = threads[Len(threads)]
        BY <3>1 DEF Top, Depth
      <3>4. next_priority' \in Object \cup {0}
        BY <3>1 DEF KernelInv, KernelTypeOK
      <3> QED
        BY <1>1, <3>1, <3>2, <3>3, <3>4
    <2> QED
      BY <2>1, <2>2
  <1>4. KernelTypeOK'
    <2>1. stack' \in Seq(FrameType) /\ Len(stack') >= 1
      BY <1>3 DEF Sound
    <2>2. isr \in BOOLEAN /\ pendsv \in BOOLEAN
      BY DEF KernelInv, KernelTypeOK
    <2> QED
      BY <1>3, <2>1, <2>2 DEF KernelTypeOK
  <1>5. Sound(stack, ready_set, lock_ceiling, Base, queued)'
    BY <1>3 DEF Sound, Ordered, Locked, Unlocks, ReadyIsExact, Hidden, Raised, Lead, Begun
  <1>6. DecisionStands'
    <2>1. Schedule(ready_set, lock_ceiling)' = 0
      BY <1>3 DEF Schedule
    <2>2. pendsv' = FALSE
      BY DEF ThreadRuns, KernelInv, KernelTypeOK
    <2> QED
      BY <1>3, <2>1, <2>2 DEF DecisionStands
  <1> QED
    BY <1>3, <1>4, <1>5, <1>6 DEF KernelInv

(* An event more in a queue, and its object ready. *)
LEMMA Posted ==
  ASSUME NEW st, NEW ready \in SUBSET Object, NEW ceiling \in Nat, NEW base,
         NEW q \in [Object -> Nat], Sound(st, ready, ceiling, base, q), NEW o \in Object,
         NEW r, r = [q EXCEPT ![o] = @ + 1], NEW more, more = ready \cup {o}
  PROVE  Sound(st, more, ceiling, base, r)
  <1>1. r \in [Object -> Nat] /\ r[o] = q[o] + 1 /\ \A p \in Object : p # o => r[p] = q[p]
    OBVIOUS
  <1>2. \A p \in Object : q[p] > 0 => r[p] > 0
    BY <1>1
  <1>3. r[o] > 0
    BY <1>1
  <1>4. ReadyIsExact(st, ready, q) /\ st \in Seq(FrameType)
    BY DEF Sound
  <1>6. ReadyIsExact(st, more, r)
    <2>1. \A p \in Object : r[p] > 0 => p \in more
      BY <1>1, <1>4 DEF ReadyIsExact
    <2>2. \A i \in 1..Len(st) : st[i].pc = "get" => r[st[i].ao] > 0
      <3> TAKE i \in 1..Len(st)
      <3> SUFFICES ASSUME st[i].pc = "get" PROVE r[st[i].ao] > 0
        OBVIOUS
      <3>1. q[st[i].ao] > 0
        BY <1>4 DEF ReadyIsExact
      <3>2. st[i].ao # 0
        <4>1. st[1].pc # "get" /\ (st[i].ao = 0 <=> i = 1)
          BY DEF Sound, Ordered
        <4> QED
          BY <4>1
      <3>3. st[i].ao \in Object
        BY <1>4, <3>2, FieldsAre
      <3> QED
        BY <1>2, <3>1, <3>3
    <2>3. \A p \in more : r[p] > 0 \/ \E i \in 1..Len(st) : st[i].ao = p
      BY <1>2, <1>3, <1>4 DEF ReadyIsExact
    <2> QED
      BY <2>1, <2>2, <2>3 DEF ReadyIsExact
  <1>7. Hidden(st, r)
    <2> SUFFICES ASSUME NEW i \in 1..Len(st), Begun(st[i])
                 PROVE  r[Lead(st[i])] > 0
      BY DEF Sound, Hidden
    <2>1. st[i] \in FrameType /\ st[i].subs \subseteq st[i].addressed /\ q[Lead(st[i])] > 0
      BY <1>4, FieldsAre DEF Sound, Locked, Hidden, Begun
    <2>2. Lead(st[i]) \in Object
      BY <2>1, LeadIs
    <2> QED
      BY <1>2, <2>1, <2>2
  <1> QED
    BY <1>6, <1>7 DEF Sound

(* A post by the thread that runs, once the queue and the ready set have it. *)
LEMMA Posts ==
  ASSUME KernelInv, ThreadRuns, NEW o \in Object, NEW threads,
         Sound(threads, ready_set \cup {o}, lock_ceiling, Base, [queued EXCEPT ![o] = @ + 1]),
         threads[Len(threads)].ao = Top.ao, PostFrom(o, threads), posts' \in Nat
  PROVE  KernelInv' /\ (stack' = threads \/ IsChoice(Top'.ao, ready_set'))
  <1> DEFINE ready == ready_set \cup {o}
             q == [queued EXCEPT ![o] = @ + 1]
  <1>0. /\ ready_set \in SUBSET Object /\ lock_ceiling \in Nat /\ queued \in [Object -> Nat]
        /\ running \in BOOLEAN /\ Schedule(ready_set, lock_ceiling) = 0
    BY TopIs
  <1>1. /\ q \in [Object -> Nat] /\ ready \in SUBSET Object
        /\ Sound(threads, ready, lock_ceiling, Base, q)
        /\ queued[o] # 0 => ready = ready_set
    <2>1. ready \in SUBSET Object /\ q \in [Object -> Nat] /\ queued[o] \in Nat
      BY <1>0
    <2>2. queued[o] > 0 => o \in ready_set
      BY TopIs DEF Sound, ReadyIsExact
    <2>3. queued[o] # 0 => ready = ready_set
      BY <2>1, <2>2
    <2> QED
      BY <2>1, <2>3, Zenon
  <1>2. /\ queued' = q /\ UNCHANGED <<lock_ceiling, running, isr, pendsv>>
        /\ ready_set' = ready /\ ScheduleAndActivate(ready, lock_ceiling, threads)
    <2>1. CASE queued[o] = 0
      BY <2>1 DEF PostFrom, Notify
    <2>2. CASE queued[o] # 0
      <3>1. /\ stack' = threads
            /\ UNCHANGED <<ready_set, active_priority, next_priority,
                           active_preemption_threshold>>
        BY <2>2 DEF PostFrom
      <3>2. ScheduleAndActivate(ready_set, lock_ceiling, threads)
        BY <1>0, <3>1 DEF ScheduleAndActivate
      <3> QED
        BY <1>1, <2>2, <3>1, <3>2 DEF PostFrom
    <2> QED
      BY <2>1, <2>2
  <1>3. lock_ceiling \in 0..(MAX_ACTIVE_OBJECT + 1)
    BY DEF KernelInv, KernelTypeOK
  <1>4. Base' = Base
    BY <1>2 DEF Base
  <1> HIDE DEF ready, q
  <1> QED
    BY <1>0, <1>1, <1>2, <1>3, <1>4, GoesOn

(* A higher ceiling makes nothing eligible. *)
LEMMA NothingOverMore ==
  ASSUME NEW ready \in SUBSET Object, NEW t \in Nat, NEW c \in Nat, NEW d \in Nat, c <= d,
         Eligible(ready, t, c) = 0
  PROVE  Eligible(ready, t, d) = 0
  <1>1. FindMax(ready) <= t \/ FindMax(ready) <= c
    BY EligibleIs
  <1>2. FindMax(ready) \in Nat
    BY FoundIs
  <1>3. FindMax(ready) <= t \/ FindMax(ready) <= d
    BY <1>1, <1>2
  <1> QED
    BY <1>3, EligibleIs

\* HighestIsChosen, of one step.
Chosen == Dispatches => IsChoice(Top'.ao, ready_set')

LEMMA PostKeeps ==
  ASSUME KernelInv, NEW o \in Object, Post(o)
  PROVE  KernelInv' /\ Chosen
  <1>1. ThreadRuns /\ PostFrom(o, stack) /\ posts' \in Nat
    BY DEF Post, KernelInv, KernelTypeOK
  <1> DEFINE q == [queued EXCEPT ![o] = @ + 1]
             more == ready_set \cup {o}
  <1>2. /\ Sound(stack, ready_set, lock_ceiling, Base, queued)
        /\ stack[Len(stack)].ao = Top.ao /\ lock_ceiling \in Nat
        /\ ready_set \in SUBSET Object /\ queued \in [Object -> Nat]
    BY TopIs
  <1>3. q = [queued EXCEPT ![o] = @ + 1] /\ more = ready_set \cup {o}
    OBVIOUS
  <1> HIDE DEF q, more
  <1>4. Sound(stack, more, lock_ceiling, Base, q)
    BY <1>2, <1>3, Posted
  <1>5. Sound(stack, ready_set \cup {o}, lock_ceiling, Base, [queued EXCEPT ![o] = @ + 1])
    BY <1>3, <1>4
  <1>6. KernelInv' /\ (stack' = stack \/ IsChoice(Top'.ao, ready_set'))
    BY <1>1, <1>2, <1>5, Posts
  <1> QED
    BY <1>6 DEF Chosen, Dispatches

(* The same of the stack as it is, also with an event that it is about to post. *)
LEMMA TopChanges ==
  ASSUME KernelInv, NEW f \in FrameType, NEW d \in Nat, MayBecome(stack, Depth, f, d),
         NEW ready \in SUBSET Object, NEW q \in [Object -> Nat],
         Sound(stack, ready, lock_ceiling, Base, q), Begun(f) => q[Lead(f)] > 0,
         NEW new, new = SetTop(f), Unlocks(new, d, Base)
  PROVE  Sound(new, ready, d, Base, q) /\ new[Len(new)] = f
  <1> DEFINE n == Len(stack)
  <1>1. n = Depth /\ new = [stack EXCEPT ![n] = f]
    BY DEF Depth, SetTop
  <1>2. lock_ceiling \in Nat /\ stack \in Seq(FrameType) /\ n >= 1
    BY TopIs
  <1>3. n = Len(stack)
    OBVIOUS
  <1>4. new[Len(new)] = f
    BY <1>1, <1>2, ChangeIs
  <1> HIDE DEF n
  <1>5. Sound(new, ready, d, Base, q)
    BY <1>1, <1>2, <1>3, ChangesTop
  <1> QED
    BY <1>4, <1>5

(* The frames below the one that runs, and what they allow. *)
LEMMA BelowIs ==
  ASSUME KernelInv
  PROVE  /\ \A i \in 1..Depth : Allows(stack[i], lock_ceiling)
         /\ \A i \in 1..Depth : i # Depth /\ Raised(stack, Depth) =>
              Allows(stack[i], stack[Depth].sched_status)
         /\ Raised(stack, Depth) =>
              stack[Depth].sched_status < lock_ceiling /\ stack[Depth].sched_status \in Nat
         /\ \A i \in 1..Depth : Raised(stack, i) => stack[i].pc = "multicast"
         /\ Unlocks(stack, lock_ceiling, Base)
         /\ \A i \in 1..Depth : stack[i] \in FrameType
  <1> DEFINE n == Len(stack)
  <1>1. /\ Ordered(stack) /\ Locked(stack, lock_ceiling) /\ Unlocks(stack, lock_ceiling, Base)
        /\ stack \in Seq(FrameType) /\ lock_ceiling \in Nat /\ n \in Nat /\ n >= 1
    BY TopIs DEF Sound
  <1>2. n = Depth /\ n = Len(stack)
    BY DEF Depth
  <1> HIDE DEF n
  <1>3. n \in 1..n /\ \A i \in 1..n : i # n => i < n
    BY <1>1
  <1>4. /\ \A i \in 1..n : Allows(stack[i], lock_ceiling)
        /\ \A i, j \in 1..n : i < j /\ Raised(stack, j) => Allows(stack[i], stack[j].sched_status)
        /\ \A i \in 1..n : Raised(stack, i) =>
             stack[i].sched_status < lock_ceiling /\ stack[i].sched_status \in Nat
    BY <1>1, <1>2, LockedAllows
  <1>5. \A i \in 1..n : i # n /\ Raised(stack, n) => Allows(stack[i], stack[n].sched_status)
    BY <1>3, <1>4
  <1>6. \A i \in 1..n : Raised(stack, i) => stack[i].pc = "multicast"
    BY <1>1, <1>2 DEF Ordered
  <1>7. \A i \in 1..n : stack[i] \in FrameType
    BY <1>1, <1>2
  <1> QED
    BY <1>1, <1>2, <1>3, <1>4, <1>5, <1>6, <1>7

(* The stack when the running thread has changed. *)
LEMMA SetTopIs ==
  ASSUME KernelInv, NEW f \in FrameType, NEW new, new = SetTop(f)
  PROVE  /\ new \in Seq(FrameType) /\ Len(new) = Depth /\ new[Depth] = f
         /\ \A i \in 1..Depth : i # Depth => new[i] = stack[i]
  BY TopIs, ChangeIs DEF SetTop

LEMMA PublishPostsKeeps ==
  ASSUME KernelInv, PublishPosts
  PROVE  KernelInv' /\ Chosen
  <1> DEFINE o == FindMax(Top.subs)
             f == [Top EXCEPT !.subs = @ \ {o}]
             new == SetTop(f)
  <1>1. ThreadRuns /\ Top.pc = "multicast" /\ Top.subs # {} /\ PostFrom(o, new) /\ posts' = posts
    BY DEF PublishPosts
  <1>2. Top \in FrameType /\ Top = stack[Depth] /\ lock_ceiling \in Nat /\ Depth \in 1..Depth
    BY TopIs
  <1>3. Top.subs \in SUBSET Object
    BY <1>2 DEF FrameType
  <1>4. o \in Object
    BY <1>1, <1>3, FindMaxIs
  <1>5. /\ f \in FrameType /\ f.ao = Top.ao /\ f.prio_in = Top.prio_in /\ f.pthre_in = Top.pthre_in
        /\ f.pc = "multicast" /\ f.sched_status = Top.sched_status
        /\ f.addressed = Top.addressed /\ f.subs \subseteq Top.subs
    BY <1>1, <1>2 DEF FrameType
  <1>6. Top.subs \subseteq Top.addressed
    BY <1>1, TopIs DEF Sound, Locked, Depth
  <1>7. new = SetTop(f) /\ o = FindMax(Top.subs)
    OBVIOUS
  <1> HIDE DEF o, f, new
  <1>8. Lead(f) = Lead(Top) /\ Allows(f, lock_ceiling)
    <2>1. Allows(Top, lock_ceiling)
      BY <1>2, BelowIs
    <2>2. Lead(f) = Lead(Top)
      BY <1>5 DEF Lead
    <2> QED
      BY <1>1, <1>5, <2>1, <2>2 DEF Allows
  <1>9. MayBecome(stack, Depth, f, lock_ceiling)
    <2>1. \A i \in 1..Depth : i # Depth => Allows(stack[i], lock_ceiling)
      BY BelowIs
    <2>2. f.sched_status # NOT_LOCKED =>
            \A i \in 1..Depth : i # Depth => Allows(stack[i], f.sched_status)
      BY <1>2, <1>5, BelowIs DEF Raised
    <2>3. f.subs \subseteq f.addressed
      BY <1>5, <1>6
    <2> QED
      BY <1>2, <1>5, <1>8, <2>1, <2>2, <2>3 DEF MayBecome
  <1>10. /\ Len(new) = Depth /\ new[Depth] = f
         /\ \A i \in 1..Depth : i # Depth => new[i] = stack[i]
    BY <1>5, <1>7, SetTopIs
  <1>11. \A i \in 1..Depth : Raised(new, i) <=> Raised(stack, i)
    BY <1>2, <1>5, <1>10 DEF Raised
  <1>12. Unlocks(new, lock_ceiling, Base)
    <2>1. \A i \in 1..Depth : new[i].sched_status = stack[i].sched_status
      BY <1>2, <1>5, <1>10
    <2>2. Unlocks(stack, lock_ceiling, Base) /\ Len(stack) = Depth
      BY BelowIs DEF Depth
    <2> QED
      BY <1>10, <1>11, <2>1, <2>2 DEF Unlocks
  <1> DEFINE q == [queued EXCEPT ![o] = @ + 1]
             more == ready_set \cup {o}
  <1>13. /\ Sound(stack, ready_set, lock_ceiling, Base, queued)
         /\ ready_set \in SUBSET Object /\ queued \in [Object -> Nat]
    BY TopIs
  <1>14. q = [queued EXCEPT ![o] = @ + 1] /\ more = ready_set \cup {o}
         /\ q \in [Object -> Nat] /\ more \in SUBSET Object
    BY <1>4, <1>13
  <1> HIDE DEF q, more
  <1>15. Sound(stack, more, lock_ceiling, Base, q)
    BY <1>2, <1>4, <1>13, <1>14, Posted
  <1>16. q[Lead(Top)] > 0
    <2>1. CASE Top.subs = Top.addressed
      <3>1. Lead(Top) = o
        BY <1>7, <2>1 DEF Lead
      <3>2. q[o] > 0
        BY <1>4, <1>13, <1>14
      <3> QED
        BY <3>1, <3>2
    <2>2. CASE Top.subs # Top.addressed
      BY <1>1, <1>2, <1>15, <2>2 DEF Sound, Hidden, Begun, Depth
    <2> QED
      BY <2>1, <2>2
  <1>17. Sound(new, more, lock_ceiling, Base, q) /\ new[Len(new)] = f
    <2>1. f \in FrameType /\ new = SetTop(f) /\ (Begun(f) => q[Lead(f)] > 0)
      BY <1>5, <1>7, <1>8, <1>16
    <2>2. lock_ceiling \in Nat /\ more \in SUBSET Object /\ q \in [Object -> Nat]
      BY <1>2, <1>14
    <2> QED
      BY <1>9, <1>12, <1>15, <2>1, <2>2, TopChanges
  <1>18. posts' \in Nat
    BY <1>1 DEF KernelInv, KernelTypeOK
  <1>19. Sound(new, ready_set \cup {o}, lock_ceiling, Base, [queued EXCEPT ![o] = @ + 1])
    BY <1>14, <1>17
  <1>20. KernelInv' /\ (stack' = new \/ IsChoice(Top'.ao, ready_set'))
    BY <1>1, <1>4, <1>5, <1>17, <1>18, <1>19, Posts
  <1>21. stack' = new => Top'.pc = "multicast"
    BY <1>5, <1>17 DEF Top, Depth
  <1> QED
    BY <1>20, <1>21 DEF Chosen, Dispatches

(* A thread that goes on without a decision. *)
LEMMA GoesOnQuietly ==
  ASSUME KernelInv, ThreadRuns, NEW d \in 0..(MAX_ACTIVE_OBJECT + 1),
         Eligible(ready_set, active_preemption_threshold, d) = 0,
         Sound(stack', ready_set, d, Base, queued'), queued' \in [Object -> Nat],
         Top'.ao = Top.ao, lock_ceiling' = d, posts' \in Nat,
         UNCHANGED <<ready_set, active_priority, next_priority,
                     active_preemption_threshold, running, isr, pendsv>>
  PROVE  KernelInv'
  <1>1. Base' = Base
    BY DEF Base
  <1>2. KernelTypeOK'
    <2>1. stack' \in Seq(FrameType) /\ Len(stack') >= 1
      BY DEF Sound
    <2>2. KernelTypeOK
      BY DEF KernelInv
    <2> QED
      BY <2>1, <2>2 DEF KernelTypeOK
  <1>3. Sound(stack', ready_set', lock_ceiling', Base', queued')
    BY <1>1
  <1>4. DecisionStands'
    <2>1. Schedule(ready_set, lock_ceiling)' = 0
      BY DEF Schedule
    <2>2. pendsv' = FALSE
      BY DEF KernelInv, KernelTypeOK, ThreadRuns
    <2>3. active_priority = Top.ao /\ active_preemption_threshold = Threshold(Top.ao)
      BY TopIs
    <2> QED
      BY <2>1, <2>2, <2>3 DEF DecisionStands
  <1> QED
    BY <1>2, <1>3, <1>4 DEF KernelInv

LEMMA PublishLocksKeeps ==
  ASSUME KernelInv, NEW S \in SUBSET Object, S # {}, PublishLocks(S)
  PROVE  KernelInv' /\ Chosen
  <1> DEFINE raise == FindMax(S) > lock_ceiling
             d == IF raise THEN FindMax(S) ELSE lock_ceiling
             s == IF raise THEN lock_ceiling ELSE NOT_LOCKED
             f == [Top EXCEPT !.pc = "multicast", !.addressed = S, !.subs = S,
                              !.sched_status = s]
             new == SetTop(f)
  <1>1. /\ ThreadRuns /\ Top.pc = "handling" /\ posts' = posts + Cardinality(S)
        /\ lock_ceiling' = d /\ stack' = new
        /\ UNCHANGED <<ready_set, active_priority, next_priority,
                       active_preemption_threshold, queued, running, isr, pendsv>>
    BY DEF PublishLocks
  <1>2. /\ Top \in FrameType /\ Top = stack[Depth] /\ Depth \in 1..Depth /\ Depth = Len(stack)
        /\ lock_ceiling \in Nat /\ queued \in [Object -> Nat] /\ ready_set \in SUBSET Object
    BY TopIs
  <1>3. /\ FindMax(S) \in Object /\ FindMax(S) \in Nat /\ FindMax(S) <= MAX_ACTIVE_OBJECT
        /\ MAX_ACTIVE_OBJECT \in Nat /\ MAX_ACTIVE_OBJECT < 255
    <2>1. FindMax(S) \in Object /\ FindMax(S) \in Nat
      BY FindMaxIs
    <2> QED
      BY <2>1, ObjectsAre
  <1>4. lock_ceiling \in 0..(MAX_ACTIVE_OBJECT + 1)
    BY DEF KernelInv, KernelTypeOK
  <1>5. /\ d \in Nat /\ d \in 0..(MAX_ACTIVE_OBJECT + 1) /\ lock_ceiling <= d /\ FindMax(S) <= d
        /\ s # NOT_LOCKED => s = lock_ceiling /\ d = FindMax(S) /\ lock_ceiling < d
        /\ s = NOT_LOCKED => d = lock_ceiling
        /\ s \in 0..(MAX_ACTIVE_OBJECT + 1) \cup {NOT_LOCKED}
    <2> HIDE DEF raise
    <2>1. CASE raise
      BY <1>2, <1>3, <1>4, <2>1 DEF NOT_LOCKED, raise
    <2>2. CASE ~raise
      BY <1>2, <1>3, <1>4, <2>2 DEF raise
    <2> QED
      BY <2>1, <2>2
  <1>6. new = SetTop(f)
    OBVIOUS
  <1> HIDE DEF s, d
  <1>7. /\ f \in FrameType /\ f.ao = Top.ao /\ f.prio_in = Top.prio_in /\ f.pthre_in = Top.pthre_in
        /\ f.pc = "multicast" /\ f.addressed = S /\ f.subs = S /\ f.sched_status = s
    BY <1>2, <1>5 DEF FrameType
  <1> HIDE DEF f, new
  <1>8. Allows(f, d)
    <2>1. Lead(f) = FindMax(S)
      BY <1>7 DEF Lead
    <2> QED
      BY <1>5, <1>7, <2>1 DEF Allows
  <1>9. MayBecome(stack, Depth, f, d)
    <2>1. \A i \in 1..Depth : stack[i] \in FrameType /\ Allows(stack[i], lock_ceiling)
      BY BelowIs
    <2>2. \A i \in 1..Depth : Allows(stack[i], d)
      BY <1>2, <1>5, <2>1, AllowsMore
    <2>3. f.sched_status # NOT_LOCKED => f.sched_status = lock_ceiling
      BY <1>5, <1>7
    <2> QED
      BY <1>2, <1>7, <1>8, <2>1, <2>2, <2>3 DEF MayBecome
  <1>10. /\ Len(new) = Depth /\ new[Depth] = f
         /\ \A i \in 1..Depth : i # Depth => new[i] = stack[i]
    BY <1>6, <1>7, SetTopIs
  <1>11. Unlocks(new, d, Base)
    <2>1. Unlocks(stack, lock_ceiling, Base)
      BY BelowIs
    <2>2. ~Raised(stack, Depth)
      BY <1>1, <1>2, BelowIs
    <2>3. \A i \in 1..Depth : Raised(stack, i) => Raised(new, i) /\ new[i] = stack[i]
      BY <1>10, <2>2 DEF Raised
    <2>4. CASE Base # 0
      <3>1. lock_ceiling = MAX_ACTIVE_OBJECT + 1 /\ Depth = 1
            /\ \A i \in 1..Depth : ~Raised(stack, i)
        BY <1>2, <2>1, <2>4 DEF Unlocks
      <3>2. s = NOT_LOCKED /\ d = lock_ceiling
        BY <1>3, <1>5, <3>1
      <3>3. \A i \in 1..Depth : ~Raised(new, i)
        BY <1>7, <1>10, <3>1, <3>2 DEF Raised
      <3> QED
        BY <1>10, <2>4, <3>1, <3>2, <3>3 DEF Unlocks
    <2>5. CASE Base = 0
      <3>1. CASE \E i \in 1..Depth : Raised(stack, i) /\ stack[i].sched_status = 0
        BY <1>10, <2>3, <2>5, <3>1 DEF Unlocks
      <3>2. CASE lock_ceiling = 0 /\ s = NOT_LOCKED
        BY <1>5, <2>5, <3>2 DEF Unlocks
      <3>3. CASE lock_ceiling = 0 /\ s # NOT_LOCKED
        <4>1. Raised(new, Depth) /\ new[Depth].sched_status = 0
          BY <1>5, <1>7, <1>10, <3>3 DEF Raised
        <4> QED
          BY <1>2, <1>10, <2>5, <4>1 DEF Unlocks
      <3> QED
        BY <1>2, <2>1, <2>5, <3>1, <3>2, <3>3 DEF Unlocks
    <2> QED
      BY <2>4, <2>5
  <1>12. Sound(new, ready_set, d, Base, queued) /\ new[Len(new)] = f
    <2>1. Sound(stack, ready_set, lock_ceiling, Base, queued) /\ ~Begun(f)
      BY <1>7, TopIs DEF Begun
    <2> QED
      BY <1>2, <1>5, <1>6, <1>7, <1>9, <1>11, <2>1, TopChanges
  <1>13. Eligible(ready_set, active_preemption_threshold, d) = 0
    <2>1. /\ Eligible(ready_set, active_preemption_threshold, lock_ceiling) = 0
          /\ active_preemption_threshold \in Nat
      BY <1>1, TopIs DEF Schedule
    <2> QED
      BY <1>2, <1>5, <2>1, NothingOverMore
  <1>14. Top' = f
    BY <1>1, <1>12 DEF Top, Depth
  <1>15. posts' \in Nat
    <2>1. IsFiniteSet(S)
      <3>1. IsFiniteSet(1..MAX_ACTIVE_OBJECT)
        BY <1>3, FS_Interval
      <3>2. S \subseteq 1..MAX_ACTIVE_OBJECT
        BY ObjectsAre
      <3> QED
        BY <3>1, <3>2, FS_Subset
    <2>2. Cardinality(S) \in Nat
      BY <2>1, FS_CardinalityType
    <2> QED
      BY <1>1, <2>2 DEF KernelInv, KernelTypeOK
  <1>16. KernelInv'
    BY <1>1, <1>2, <1>5, <1>7, <1>12, <1>13, <1>14, <1>15, GoesOnQuietly
  <1> QED
    BY <1>7, <1>14, <1>16 DEF Chosen, Dispatches

LEMMA PublishUnlocksKeeps ==
  ASSUME KernelInv, PublishUnlocks
  PROVE  KernelInv' /\ Chosen
  <1> DEFINE f == [Top EXCEPT !.pc = "handling", !.addressed = {}, !.sched_status = NOT_LOCKED]
             new == SetTop(f)
             locked == Top.sched_status # NOT_LOCKED
             d == IF locked THEN Top.sched_status ELSE lock_ceiling
  <1>1. /\ ThreadRuns /\ Top.pc = "multicast"
        /\ UNCHANGED <<ready_set, queued, running, isr, pendsv, posts>>
        /\ ~locked => stack' = new /\ UNCHANGED EDF_core
        /\ locked => /\ lock_ceiling' = Top.sched_status
                     /\ ScheduleAndActivate(ready_set, Top.sched_status, new)
    <2>1. CASE locked
      BY <2>1 DEF PublishUnlocks
    <2>2. CASE ~locked
      BY <2>2 DEF PublishUnlocks, EDF_core
    <2> QED
      BY <2>1, <2>2
  <1>2. /\ Top \in FrameType /\ Top = stack[Depth] /\ Depth \in 1..Depth /\ Depth = Len(stack)
        /\ lock_ceiling \in Nat /\ queued \in [Object -> Nat] /\ ready_set \in SUBSET Object
    BY TopIs
  <1>3. locked => Raised(stack, Depth)
    BY <1>2 DEF Raised
  <1>4. /\ f \in FrameType /\ f.ao = Top.ao /\ f.prio_in = Top.prio_in /\ f.pthre_in = Top.pthre_in
        /\ f.pc = "handling" /\ f.sched_status = NOT_LOCKED
    BY <1>2 DEF FrameType
  <1>5. new = SetTop(f)
    OBVIOUS
  <1> HIDE DEF f, new
  <1>6. d \in Nat /\ d \in 0..(MAX_ACTIVE_OBJECT + 1)
    <2>1. lock_ceiling \in 0..(MAX_ACTIVE_OBJECT + 1)
      BY DEF KernelInv, KernelTypeOK
    <2>2. CASE locked
      <3>1. stack[Depth].sched_status < lock_ceiling /\ stack[Depth].sched_status \in Nat
        BY <1>3, <2>2, BelowIs
      <3> QED
        BY <1>2, <2>1, <2>2, <3>1, ObjectsAre
    <2>3. CASE ~locked
      BY <1>2, <2>1, <2>3
    <2> QED
      BY <2>2, <2>3
  <1>7. MayBecome(stack, Depth, f, d)
    <2>1. \A i \in 1..Depth : i # Depth => Allows(stack[i], d)
      BY <1>2, <1>3, BelowIs
    <2>2. Allows(f, d)
      BY <1>4 DEF Allows
    <2> QED
      BY <1>2, <1>4, <2>1, <2>2 DEF MayBecome
  <1>8. /\ Len(new) = Depth /\ new[Depth] = f
        /\ \A i \in 1..Depth : i # Depth => new[i] = stack[i]
    BY <1>4, <1>5, SetTopIs
  <1>9. Unlocks(new, d, Base)
    <2>1. Unlocks(stack, lock_ceiling, Base)
      BY BelowIs
    <2>2. \A i \in 1..Depth : i # Depth /\ Raised(stack, i) => Raised(new, i) /\ new[i] = stack[i]
      BY <1>8 DEF Raised
    <2>3. CASE Base # 0
      <3>1. /\ lock_ceiling = MAX_ACTIVE_OBJECT + 1 /\ Depth = 1
            /\ \A i \in 1..Depth : ~Raised(stack, i)
        BY <1>2, <2>1, <2>3 DEF Unlocks
      <3>2. d = lock_ceiling
        BY <1>2, <1>3, <3>1
      <3>3. \A i \in 1..Depth : ~Raised(new, i)
        BY <1>4, <1>8, <3>1 DEF Raised
      <3> QED
        BY <1>8, <2>3, <3>1, <3>2, <3>3 DEF Unlocks
    <2>4. CASE Base = 0
      <3>1. \/ lock_ceiling = 0
            \/ \E i \in 1..Depth : Raised(stack, i) /\ stack[i].sched_status = 0
        BY <1>2, <2>1, <2>4 DEF Unlocks
      <3>2. CASE ~locked
        <4>1. ~Raised(stack, Depth)
          BY <1>2, <3>2 DEF Raised
        <4>2. \/ d = 0
              \/ \E i \in 1..Depth : Raised(new, i) /\ new[i].sched_status = 0
          BY <2>2, <3>1, <3>2, <4>1
        <4> QED
          BY <1>8, <2>4, <4>2 DEF Unlocks
      <3>3. CASE locked
        <4>1. /\ stack[Depth].sched_status < lock_ceiling /\ stack[Depth].sched_status \in Nat
              /\ d = stack[Depth].sched_status
          BY <1>2, <1>3, <3>3, BelowIs
        <4>2. PICK i \in 1..Depth : Raised(stack, i) /\ stack[i].sched_status = 0
          BY <1>2, <3>1, <4>1
        <4>3. CASE i = Depth
          BY <2>4, <4>1, <4>2, <4>3 DEF Unlocks
        <4>4. CASE i # Depth
          BY <1>8, <2>2, <2>4, <4>2, <4>4 DEF Unlocks
        <4> QED
          BY <4>3, <4>4
      <3> QED
        BY <3>2, <3>3
    <2> QED
      BY <2>3, <2>4
  <1> HIDE DEF d
  <1>10. Sound(new, ready_set, d, Base, queued) /\ new[Len(new)] = f
    <2>1. Sound(stack, ready_set, lock_ceiling, Base, queued) /\ ~Begun(f)
      BY <1>4, TopIs DEF Begun
    <2> QED
      BY <1>2, <1>4, <1>5, <1>6, <1>7, <1>9, <2>1, TopChanges
  <1>11. posts' \in Nat
    BY <1>1 DEF KernelInv, KernelTypeOK
  <1>12. ScheduleAndActivate(ready_set, d, new) /\ lock_ceiling' = d
    <2>1. CASE locked
      BY <1>1, <2>1 DEF d
    <2>2. CASE ~locked
      <3>1. Schedule(ready_set, lock_ceiling) = 0
        BY <1>1, TopIs
      <3> QED
        BY <1>1, <2>2, <3>1 DEF d, ScheduleAndActivate, EDF_core
    <2> QED
      BY <2>1, <2>2
  <1>13. Base = Base' /\ running' \in BOOLEAN /\ new[Len(new)].ao = Top.ao
    BY <1>1, <1>4, <1>10 DEF Base, KernelInv, KernelTypeOK
  <1>14. KernelInv' /\ (stack' = new \/ IsChoice(Top'.ao, ready_set'))
    BY <1>1, <1>2, <1>6, <1>10, <1>11, <1>12, <1>13, GoesOn
  <1>15. stack' = new => Top'.pc = "handling"
    BY <1>4, <1>10 DEF Top, Depth
  <1> QED
    BY <1>14, <1>15 DEF Chosen, Dispatches

LEMMA GetKeeps ==
  ASSUME KernelInv, Get
  PROVE  KernelInv' /\ Chosen
  <1> DEFINE f == [Top EXCEPT !.pc = "handling"]
             o == Top.ao
  <1>1. /\ ThreadRuns /\ Top.pc = "get" /\ queued[o] > 0
        /\ queued' = [queued EXCEPT ![o] = @ - 1] /\ stack' = SetTop(f)
        /\ UNCHANGED <<EDF_core, running, isr, pendsv, posts>>
    BY DEF Get
  <1>2. /\ Top \in FrameType /\ Top = stack[Depth] /\ Depth \in 1..Depth /\ Depth = Len(stack)
        /\ lock_ceiling \in Nat /\ queued \in [Object -> Nat] /\ ready_set \in SUBSET Object
        /\ o \in Object \cup {0}
    BY TopIs
  <1>3. Ordered(stack) /\ stack \in Seq(FrameType) /\ ReadyIsExact(stack, ready_set, queued)
    BY TopIs DEF Sound
  <1>4. o \in Object
    BY <1>1, <1>2, <1>3 DEF Ordered
  <1>5. /\ f \in FrameType /\ f.ao = o /\ f.prio_in = Top.prio_in /\ f.pthre_in = Top.pthre_in
        /\ f.pc = "handling" /\ f.sched_status = Top.sched_status
    BY <1>2 DEF FrameType
  <1> HIDE DEF f
  <1>6. f.sched_status = NOT_LOCKED
    BY <1>1, <1>2, <1>5, BelowIs DEF Raised
  <1>7. MayBecome(stack, Depth, f, lock_ceiling)
    <2>1. Allows(f, lock_ceiling)
      BY <1>5, <1>6 DEF Allows
    <2> QED
      BY <1>2, <1>5, <1>6, <2>1, BelowIs DEF MayBecome
  <1>8. /\ Len(stack') = Depth /\ stack'[Depth] = f
        /\ \A i \in 1..Depth : i # Depth => stack'[i] = stack[i]
    BY <1>1, <1>5, SetTopIs
  <1>9. Unlocks(stack', lock_ceiling, Base)
    <2>1. \A i \in 1..Depth : stack'[i].sched_status = stack[i].sched_status
      BY <1>2, <1>5, <1>8
    <2>2. Unlocks(stack, lock_ceiling, Base) /\ Len(stack) = Depth
      BY <1>2, BelowIs
    <2> QED
      BY <1>8, <2>1, <2>2 DEF Unlocks, Raised
  <1>10. Sound(stack', ready_set, lock_ceiling, Base, queued) /\ stack'[Len(stack')] = f
    <2>1. Sound(stack, ready_set, lock_ceiling, Base, queued) /\ ~Begun(f)
      BY <1>5, TopIs DEF Begun
    <2> QED
      BY <1>1, <1>2, <1>5, <1>7, <1>9, <2>1, TopChanges
  <1>11. /\ queued' \in [Object -> Nat] /\ \A p \in Object : p # o => queued'[p] = queued[p]
         /\ \A p \in Object : queued'[p] > 0 => queued[p] > 0
    BY <1>1, <1>2, <1>4
  <1>12. ReadyIsExact(stack', ready_set, queued')
    <2>0. ReadyIsExact(stack', ready_set, queued)
      BY <1>10 DEF Sound
    <2>1. \A p \in Object : queued'[p] > 0 => p \in ready_set
      BY <1>11, <2>0 DEF ReadyIsExact
    <2>2. \A i \in 1..Depth : stack'[i].pc = "get" => queued'[stack'[i].ao] > 0
      <3> TAKE i \in 1..Depth
      <3> SUFFICES ASSUME stack'[i].pc = "get" PROVE queued'[stack'[i].ao] > 0
        OBVIOUS
      <3>1. i # Depth /\ stack'[i] = stack[i]
        BY <1>5, <1>8
      <3>2. i < Depth
        BY <1>2, <3>1
      <3>3. Threshold(stack[i].ao) < o /\ (stack[i].ao = 0 <=> i = 1) /\ stack[1].pc # "get"
        BY <1>2, <1>3, <3>2 DEF Ordered
      <3>4. /\ stack[i].ao \in Object \cup {0} /\ stack[i].ao \in Nat
            /\ Threshold(stack[i].ao) \in Nat /\ stack[i].ao <= Threshold(stack[i].ao)
        BY <1>2, <1>3, PrioritiesAre
      <3>5. stack[i].ao \in Object /\ stack[i].ao # o
        BY <1>4, <3>1, <3>3, <3>4, ObjectsAre
      <3>6. queued[stack[i].ao] > 0
        BY <1>8, <2>0, <3>1 DEF ReadyIsExact
      <3> QED
        BY <1>11, <3>1, <3>5, <3>6
    <2>3. \A p \in ready_set : queued'[p] > 0 \/ \E i \in 1..Depth : stack'[i].ao = p
      <3> TAKE p \in ready_set
      <3>1. CASE p = o
        BY <1>2, <1>5, <1>8, <3>1
      <3>2. CASE p # o
        <4>1. queued'[p] = queued[p]
          BY <1>2, <1>11, <3>2
        <4> QED
          BY <1>8, <2>0, <4>1 DEF ReadyIsExact
      <3> QED
        BY <3>1, <3>2
    <2> QED
      BY <1>8, <2>1, <2>2, <2>3 DEF ReadyIsExact
  <1>12a. Hidden(stack', queued')
    <2> SUFFICES ASSUME NEW i \in 1..Depth, Begun(stack'[i])
                 PROVE  queued'[Lead(stack'[i])] > 0
      BY <1>8, <1>10 DEF Sound, Hidden
    <2>1. i # Depth /\ stack'[i] = stack[i] /\ i < Depth /\ stack[i] \in FrameType
      BY <1>2, <1>3, <1>5, <1>8 DEF Begun
    <2>2. /\ stack[i].subs \subseteq stack[i].addressed /\ Lead(stack[i]) < o
          /\ queued[Lead(stack[i])] > 0
      BY <1>2, <2>1, TopIs DEF Sound, Locked, Hidden, Begun
    <2>3. Lead(stack[i]) \in Object /\ Lead(stack[i]) \in Nat
      BY <2>1, <2>2, LeadIs
    <2>4. Lead(stack[i]) # o
      BY <2>2, <2>3
    <2> QED
      BY <1>11, <2>1, <2>2, <2>3, <2>4
  <1>13. Sound(stack', ready_set, lock_ceiling, Base, queued')
    BY <1>10, <1>12, <1>12a DEF Sound
  <1>14. Top' = f
    BY <1>10 DEF Top, Depth
  <1>15. Eligible(ready_set, active_preemption_threshold, lock_ceiling) = 0
    BY <1>1, TopIs DEF Schedule
  <1>16. posts' \in Nat /\ lock_ceiling \in 0..(MAX_ACTIVE_OBJECT + 1)
    BY <1>1 DEF KernelInv, KernelTypeOK
  <1>17. KernelInv'
    BY <1>1, <1>5, <1>11, <1>13, <1>14, <1>15, <1>16, GoesOnQuietly DEF EDF_core
  <1> QED
    BY <1>5, <1>14, <1>17 DEF Chosen, Dispatches

LEMMA EndDispatchKeeps ==
  ASSUME KernelInv, EndDispatch
  PROVE  KernelInv' /\ Chosen
  <1> DEFINE o == Top.ao
             left == ReadyAfter(o)
             below == Front(stack)
             last == below[Len(below)].ao
             next_prio == Eligible(left, Threshold(last), lock_ceiling)
             f == Frame(next_prio, "get", last, Threshold(last))
  <1>1. /\ ThreadRuns /\ Top.pc = "handling" /\ o # 0 /\ ready_set' = left
        /\ UNCHANGED <<next_priority, lock_ceiling, queued, running, isr, pendsv, posts>>
    BY DEF EndDispatch
  <1>2. /\ Top \in FrameType /\ Top = stack[Depth] /\ Depth \in 1..Depth /\ Depth = Len(stack)
        /\ lock_ceiling \in Nat /\ queued \in [Object -> Nat] /\ ready_set \in SUBSET Object
        /\ stack \in Seq(FrameType) /\ Depth \in Nat /\ Depth >= 1
        /\ Sound(stack, ready_set, lock_ceiling, Base, queued)
    BY TopIs
  <1>3. left = IF queued[o] = 0 THEN ready_set \ {o} ELSE ready_set
    BY DEF ReadyAfter
  <1>4. /\ Depth - 1 >= 1 /\ Len(below) = Depth - 1 /\ left \in SUBSET Object
        /\ Top.prio_in = last /\ Top.pthre_in = Threshold(last)
        /\ Sound(below, left, lock_ceiling, Base, queued)
    <2>1. stack[Depth].pc = "handling" /\ stack[Depth].ao # 0 /\ stack[Depth].ao = o
      BY <1>1, <1>2
    <2>3. left = IF queued[stack[Depth].ao] = 0 THEN ready_set \ {stack[Depth].ao} ELSE ready_set
      BY <1>2, <1>3
    <2> HIDE DEF left, o
    <2>2. Sound(Front(stack), left, lock_ceiling, Base, queued)
      BY <1>2, <2>1, <2>3, Pops
    <2>4. /\ Depth - 1 >= 1 /\ Len(Front(stack)) = Depth - 1
          /\ stack[Depth].prio_in = Front(stack)[Depth - 1].ao
          /\ stack[Depth].pthre_in = Threshold(Front(stack)[Depth - 1].ao)
      <3>1. Ordered(stack)
        BY <1>2 DEF Sound
      <3> QED
        BY <1>2, <2>1, <3>1, PopsTo
    <2>5. left \in SUBSET Object
      BY <1>2, <2>3
    <2> QED
      BY <1>2, <2>2, <2>4, <2>5
  <1>5. IF next_prio # 0
        THEN /\ active_priority' = next_prio /\ active_preemption_threshold' = pthre[next_prio]
             /\ stack' = SetTop(f)
        ELSE /\ active_priority' = last /\ active_preemption_threshold' = Threshold(last)
             /\ stack' = below
    BY <1>4 DEF EndDispatch
  <1>6. below \in Seq(FrameType) /\ Len(below) \in 1..Len(below) /\ Len(below) >= 1
    <2>1. below \in Seq(FrameType)
      BY <1>4 DEF Sound
    <2> QED
      BY <1>2, <1>4, <2>1
  <1>7. last \in Object \cup {0} /\ Threshold(last) \in Nat /\ Threshold(last) \in 0..MAX_ACTIVE_OBJECT
    BY <1>6, PrioritiesAre
  <1> HIDE DEF o, left, below, last
  <1>8. /\ Sound(stack', left, lock_ceiling, Base, queued)
        /\ active_priority' = Top'.ao /\ active_preemption_threshold' = Threshold(Top'.ao)
        /\ Eligible(left, active_preemption_threshold', lock_ceiling) = 0
        /\ stack' = below \/ IsChoice(Top'.ao, left)
    <2>1. CASE next_prio # 0
      <3> DEFINE t == Threshold(last)
      <3>1. t \in Nat /\ next_prio = Eligible(left, t, lock_ceiling)
        BY <1>7
      <3> HIDE DEF t, next_prio
      <3>1a. MayRun(next_prio, below, left, t, lock_ceiling)
        BY <1>2, <1>4, <2>1, <3>1, DecisionIs
      <3>2. /\ next_prio \in Object /\ IsChoice(next_prio, left)
            /\ Eligible(left, Threshold(next_prio), lock_ceiling) = 0
        <4>1. /\ next_prio \in left /\ next_prio > t /\ next_prio > lock_ceiling
              /\ Eligible(left, t, lock_ceiling) \in {0, next_prio}
          BY <3>1, <3>1a DEF MayRun
        <4>2. Eligible(left, Threshold(next_prio), lock_ceiling) = 0 /\ IsChoice(next_prio, left)
          BY <1>2, <1>4, <3>1, <4>1, ChoiceIs
        <4> QED
          BY <1>4, <4>1, <4>2
      <3>3. f \in FrameType
        BY <1>7, <3>2 DEF Frame, FrameType
      <3>4. stack' = Append(below, f)
        <4> HIDE DEF f
        <4>1. Append(Front(stack), f) = [stack EXCEPT ![Len(stack)] = f]
          BY <1>2, <3>3, PopIs
        <4> QED
          BY <1>2, <1>5, <2>1, <4>1 DEF SetTop, below
      <3>5. Sound(stack', left, lock_ceiling, Base, queued)
        <4>1. last = below[Len(below)].ao /\ MayRun(next_prio, below, left, Threshold(last), lock_ceiling)
          BY <3>1a DEF last, t
        <4> QED
          BY <1>2, <1>4, <2>1, <3>4, <4>1, Scheduled
      <3>6. stack'[Len(stack')].ao = next_prio
        <4>1. last = below[Len(below)].ao
          BY DEF last
        <4> QED
          BY <1>6, <3>2, <3>4, <4>1, ScheduledIsTop
      <3>7. Top'.ao = next_prio
        BY <3>6 DEF Top, Depth
      <3>8. Threshold(next_prio) = pthre[next_prio]
        BY <3>2, ObjectsAre
      <3> QED
        BY <1>5, <2>1, <3>2, <3>5, <3>7, <3>8
    <2>2. CASE next_prio = 0
      <3>1. /\ active_priority' = last /\ active_preemption_threshold' = Threshold(last)
            /\ stack' = below
        BY <1>5, <2>2
      <3>2. Top'.ao = last
        BY <3>1 DEF Top, Depth, last
      <3> QED
        BY <1>4, <2>2, <3>1, <3>2
    <2> QED
      BY <2>1, <2>2
  <1>9. KernelTypeOK'
    <2>1. stack' \in Seq(FrameType) /\ Len(stack') >= 1
      BY <1>8 DEF Sound
    <2>2. KernelTypeOK
      BY DEF KernelInv
    <2> QED
      BY <1>1, <1>4, <2>1, <2>2 DEF KernelTypeOK
  <1>10. Base' = Base
    BY <1>1 DEF Base
  <1>11. DecisionStands'
    <2>1. Schedule(ready_set, lock_ceiling)' = 0
      BY <1>1, <1>8 DEF Schedule
    <2>2. pendsv' = FALSE
      BY <1>1 DEF KernelInv, KernelTypeOK, ThreadRuns
    <2> QED
      BY <1>8, <2>1, <2>2 DEF DecisionStands
  <1>12. KernelInv'
    BY <1>1, <1>8, <1>9, <1>10, <1>11 DEF KernelInv
  <1>13. stack' = below => ~(Depth' >= Depth)
    <2>1. stack' = below => Depth' = Depth - 1
      BY <1>4 DEF Depth
    <2> QED
      BY <1>2, <2>1
  <1> QED
    BY <1>1, <1>8, <1>12, <1>13 DEF Chosen, Dispatches

LEMMA RunKeeps ==
  ASSUME KernelInv, Run
  PROVE  KernelInv' /\ Chosen
  <1>1. /\ ThreadRuns /\ ~running /\ Top.pc = "handling" /\ running' = TRUE /\ lock_ceiling' = 0
        /\ ScheduleAndActivate(ready_set, 0, stack)
        /\ UNCHANGED <<ready_set, queued, isr, pendsv, posts>>
    BY DEF Run
  <1>2. /\ Top = stack[Depth] /\ Depth \in 1..Depth /\ Depth = Len(stack)
        /\ queued \in [Object -> Nat] /\ ready_set \in SUBSET Object
        /\ Sound(stack, ready_set, lock_ceiling, Base, queued)
    BY TopIs
  <1>3. Base # 0 /\ Base' = 0
    BY <1>1, ObjectsAre DEF Base
  <1>4. Depth = 1 /\ \A i \in 1..Depth : ~Raised(stack, i)
    BY <1>2, <1>3 DEF Sound, Unlocks
  <1>5. Locked(stack, 0)
    <2>1. \A i \in 1..Depth : stack[i].pc = "handling"
      BY <1>1, <1>2, <1>4
    <2> QED
      BY <1>2, <1>4, <2>1 DEF Locked
  <1>6. Sound(stack, ready_set, 0, 0, queued)
    BY <1>2, <1>5 DEF Sound, Unlocks
  <1>7. posts' \in Nat /\ 0 \in 0..(MAX_ACTIVE_OBJECT + 1)
    BY <1>1, ObjectsAre DEF KernelInv, KernelTypeOK
  <1>8. KernelInv' /\ (stack' = stack \/ IsChoice(Top'.ao, ready_set'))
    BY <1>1, <1>2, <1>3, <1>6, <1>7, GoesOn
  <1> QED
    BY <1>8 DEF Chosen, Dispatches

LEMMA InterruptKeeps ==
  ASSUME KernelInv, IsrEnters \/ IsrExits \/ (\E o \in Object : IsrPosts(o))
  PROVE  KernelInv' /\ Chosen
  <1>1. /\ UNCHANGED <<active_priority, active_preemption_threshold, lock_ceiling, stack, running>>
        /\ Top' = Top
    BY DEF IsrEnters, IsrExits, IsrPosts, EDF_core, Top, Depth
  <1>2. /\ KernelTypeOK /\ DecisionStands
        /\ Sound(stack, ready_set, lock_ceiling, Base, queued) /\ Base' = Base
        /\ ready_set \in SUBSET Object /\ lock_ceiling \in Nat
        /\ active_preemption_threshold \in Nat /\ queued \in [Object -> Nat]
    BY <1>1, TopIs DEF KernelInv, Base
  <1>3. CASE IsrEnters
    <2>1. /\ isr' = TRUE
          /\ UNCHANGED <<ready_set, next_priority, queued, pendsv, posts>>
      BY <1>3 DEF IsrEnters, EDF_core
    <2>2. KernelTypeOK'
      BY <1>1, <1>2, <2>1 DEF KernelTypeOK
    <2>3. DecisionStands'
      BY <1>1, <1>2, <2>1 DEF DecisionStands, ThreadRuns, Schedule, MayRun
    <2> QED
      BY <1>1, <1>2, <2>1, <2>2, <2>3 DEF KernelInv, Chosen, Dispatches
  <1>4. CASE IsrExits
    <2>1. /\ isr /\ isr' = FALSE /\ UNCHANGED <<ready_set, queued, posts>>
      BY <1>4 DEF IsrExits
    <2>2. Schedule(ready_set, lock_ceiling)' = Schedule(ready_set, lock_ceiling)
      BY <1>1, <2>1 DEF Schedule
    <2>3. Schedule(ready_set, lock_ceiling) \in Object \cup {0}
      BY <1>2, EligibleIs DEF Schedule
    <2>4. CASE Schedule(ready_set, lock_ceiling) # 0
      <3>1. next_priority' = Schedule(ready_set, lock_ceiling) /\ pendsv' = TRUE
        BY <1>4, <2>4 DEF IsrExits
      <3>2. KernelTypeOK'
        BY <1>1, <1>2, <2>1, <2>3, <3>1 DEF KernelTypeOK
      <3>3. DecisionStands'
        <4> DEFINE o == Schedule(ready_set, lock_ceiling)
                   t == active_preemption_threshold
        <4>1. o = Eligible(ready_set, t, lock_ceiling) /\ o # 0 /\ t \in Nat
          BY <1>2, <2>4 DEF Schedule
        <4>2. MayRun(o, stack, ready_set, t, lock_ceiling)
          <5> HIDE DEF o, t
          <5> QED
            BY <1>2, <4>1, DecisionIs
        <4>3. next_priority' = o /\ t' = t /\ pendsv' = TRUE
          BY <1>1, <3>1
        <4>4. MayRun(next_priority, stack, ready_set, active_preemption_threshold, lock_ceiling)'
          BY <1>1, <2>1, <4>2, <4>3 DEF MayRun
        <4> QED
          BY <1>1, <1>2, <2>1, <2>2, <3>1, <4>4 DEF DecisionStands, ThreadRuns
      <3> QED
        BY <1>1, <1>2, <2>1, <3>2, <3>3 DEF KernelInv, Chosen, Dispatches
    <2>5. CASE Schedule(ready_set, lock_ceiling) = 0
      <3>1. UNCHANGED <<next_priority, pendsv>>
        BY <1>4, <2>5 DEF IsrExits
      <3>2. KernelTypeOK'
        BY <1>1, <1>2, <2>1, <3>1 DEF KernelTypeOK
      <3>3. DecisionStands'
        BY <1>1, <1>2, <2>1, <2>2, <2>5, <3>1 DEF DecisionStands, ThreadRuns, MayRun
      <3> QED
        BY <1>1, <1>2, <2>1, <3>2, <3>3 DEF KernelInv, Chosen, Dispatches
    <2> QED
      BY <2>4, <2>5
  <1>5. ASSUME NEW o \in Object, IsrPosts(o) PROVE KernelInv' /\ Chosen
    <2> DEFINE more == ready_set \cup {o}
    <2>1. /\ isr /\ isr' = isr /\ posts' = posts + 1 /\ UNCHANGED <<next_priority, pendsv>>
          /\ queued' = [queued EXCEPT ![o] = @ + 1]
          /\ ready_set' = IF queued[o] = 0 THEN more ELSE ready_set
      BY <1>5 DEF IsrPosts
    <2>2. more = ready_set \cup {o} /\ more \in SUBSET Object /\ ready_set \subseteq more
      BY <1>2
    <2> HIDE DEF more
    <2>3. Sound(stack, more, lock_ceiling, Base, queued')
      BY <1>2, <2>1, <2>2, Posted
    <2>4. ready_set' = more
      <3>1. queued[o] \in Nat /\ (queued[o] > 0 => o \in ready_set)
        BY <1>2 DEF Sound, ReadyIsExact
      <3> QED
        BY <2>1, <2>2, <3>1
    <2>5. KernelTypeOK'
      <3>1. queued' \in [Object -> Nat] /\ posts' \in Nat
        BY <1>2, <2>1 DEF KernelTypeOK
      <3> QED
        BY <1>1, <1>2, <2>1, <2>2, <2>4, <3>1 DEF KernelTypeOK
    <2>6. DecisionStands'
      BY <1>1, <1>2, <2>1, <2>2, <2>4 DEF DecisionStands, ThreadRuns, MayRun
    <2> QED
      BY <1>1, <1>2, <2>3, <2>4, <2>5, <2>6 DEF KernelInv, Chosen, Dispatches
  <1> QED
    BY <1>3, <1>4, <1>5

LEMMA PendSVKeeps ==
  ASSUME KernelInv, PendSV
  PROVE  KernelInv' /\ Chosen
  <1>1. /\ pendsv /\ ~isr /\ pendsv' = FALSE /\ Activate(next_priority, stack)
        /\ UNCHANGED <<ready_set, lock_ceiling, queued, running, isr, posts>>
    BY DEF PendSV
  <1>2. /\ MayRun(next_priority, stack, ready_set, active_preemption_threshold, lock_ceiling)
        /\ Schedule(ready_set, lock_ceiling) \in {0, next_priority}
    BY <1>1 DEF KernelInv, DecisionStands
  <1>3. /\ Sound(stack, ready_set, lock_ceiling, Base, queued) /\ ready_set \in SUBSET Object
        /\ lock_ceiling \in Nat /\ queued \in [Object -> Nat]
        /\ active_priority = stack[Len(stack)].ao
        /\ active_preemption_threshold = Threshold(active_priority)
    BY TopIs
  <1>4. /\ Sound(stack', ready_set, lock_ceiling, Base, queued)
        /\ active_priority' = Top'.ao /\ active_preemption_threshold' = Threshold(Top'.ao)
        /\ next_priority' = 0 /\ IsChoice(Top'.ao, ready_set)
        /\ Eligible(ready_set, active_preemption_threshold', lock_ceiling) = 0
    BY <1>1, <1>2, <1>3, Activates DEF Schedule
  <1>5. KernelTypeOK'
    <2>1. stack' \in Seq(FrameType) /\ Len(stack') >= 1
      BY <1>4 DEF Sound
    <2>2. KernelTypeOK
      BY DEF KernelInv
    <2> QED
      BY <1>1, <1>4, <2>1, <2>2 DEF KernelTypeOK
  <1>6. Base' = Base
    BY <1>1 DEF Base
  <1>7. DecisionStands'
    <2>1. Schedule(ready_set, lock_ceiling)' = 0
      BY <1>1, <1>4 DEF Schedule
    <2> QED
      BY <1>1, <1>4, <2>1 DEF DecisionStands
  <1> QED
    BY <1>1, <1>4, <1>5, <1>6, <1>7 DEF KernelInv, Chosen, Dispatches

-----------------------------------------------------------------------------
(* The theorems. *)

LEMMA InitIsSound == Init => KernelInv
  <1> SUFFICES ASSUME Init PROVE KernelInv
    OBVIOUS
  <1> DEFINE f == Frame(0, "handling", 0, 0)
  <1>1. /\ ready_set = {} /\ active_priority = 0 /\ next_priority = 0
        /\ active_preemption_threshold = 0 /\ lock_ceiling = MAX_ACTIVE_OBJECT + 1
        /\ queued = [o \in Object |-> 0] /\ stack = <<f>>
        /\ running = FALSE /\ isr = FALSE /\ pendsv = FALSE /\ posts = 0
    BY DEF Init
  <1>2. /\ f \in FrameType /\ f.ao = 0 /\ f.pc = "handling" /\ f.sched_status = NOT_LOCKED
    BY ObjectsAre DEF Frame, FrameType
  <1>3. MAX_ACTIVE_OBJECT + 1 \in 0..(MAX_ACTIVE_OBJECT + 1) /\ Base = MAX_ACTIVE_OBJECT + 1
    BY <1>1, ObjectsAre DEF Base
  <1> HIDE DEF f
  <1>4. stack \in Seq(FrameType) /\ Len(stack) = 1 /\ stack[1] = f /\ Top = f
    BY <1>1, <1>2 DEF Top, Depth
  <1>5. queued \in [Object -> Nat] /\ \A o \in Object : queued[o] = 0
    BY <1>1
  <1>6. KernelTypeOK
    <2>1. ready_set \in SUBSET Object /\ next_priority \in Object \cup {0} /\ posts \in Nat
      BY <1>1
    <2>2. running \in BOOLEAN /\ isr \in BOOLEAN /\ pendsv \in BOOLEAN
      BY <1>1
    <2>3. lock_ceiling \in 0..(MAX_ACTIVE_OBJECT + 1)
      BY <1>1, <1>3
    <2>4. Len(stack) >= 1
      BY <1>4
    <2> QED
      BY <1>4, <1>5, <2>1, <2>2, <2>3, <2>4 DEF KernelTypeOK
  <1>7. \A i \in 1..Len(stack) : i = 1 /\ stack[i] = f
    BY <1>4
  <1>8. Ordered(stack)
    <2>1. \A i \in 2..Len(stack) : FALSE
      BY <1>4
    <2>2. \A i, j \in 1..Len(stack) : ~(i < j)
      BY <1>4
    <2> QED
      BY <1>2, <1>4, <1>7, <2>1, <2>2 DEF Ordered, Raised
  <1>9. Locked(stack, lock_ceiling) /\ Unlocks(stack, lock_ceiling, Base)
    <2>1. \A i \in 1..Len(stack) : ~Raised(stack, i) /\ stack[i].pc # "multicast"
      BY <1>2, <1>7 DEF Raised
    <2>2. Base # 0
      BY <1>3, ObjectsAre
    <2> QED
      BY <1>1, <1>4, <2>1, <2>2 DEF Locked, Unlocks
  <1>12. Hidden(stack, queued)
    BY <1>2, <1>7 DEF Hidden, Begun
  <1>10. ReadyIsExact(stack, ready_set, queued)
    BY <1>1, <1>2, <1>5, <1>7 DEF ReadyIsExact
  <1>11. DecisionStands
    <2>1. Eligible({}, active_preemption_threshold, lock_ceiling) = 0
      BY <1>1, FoundIs, ObjectsAre DEF Eligible, FindMax
    <2> QED
      BY <1>1, <1>2, <1>4, <2>1, ObjectsAre DEF DecisionStands, Schedule
  <1> QED
    BY <1>4, <1>6, <1>8, <1>9, <1>10, <1>11, <1>12 DEF KernelInv, Sound

LEMMA NextKeeps == KernelInv /\ [Next]_vars => KernelInv' /\ (UNCHANGED vars \/ Chosen)
  <1> SUFFICES ASSUME KernelInv, [Next]_vars PROVE KernelInv' /\ (UNCHANGED vars \/ Chosen)
    OBVIOUS
  <1>1. CASE Thread
    <2>1. ASSUME NEW o \in Object, Post(o) PROVE KernelInv' /\ Chosen
      BY <2>1, PostKeeps
    <2>2. ASSUME NEW S \in (SUBSET Object) \ {{}}, PublishLocks(S) PROVE KernelInv' /\ Chosen
      <3>1. S \in SUBSET Object /\ S # {}
        OBVIOUS
      <3> QED
        BY <2>2, <3>1, PublishLocksKeeps
    <2> QED
      BY <1>1, <2>1, <2>2, PublishPostsKeeps, PublishUnlocksKeeps, GetKeeps, EndDispatchKeeps,
         RunKeeps DEF Thread
  <1>2. CASE IsrEnters \/ IsrExits \/ (\E o \in Object : IsrPosts(o))
    BY <1>2, InterruptKeeps
  <1>3. CASE PendSV
    BY <1>3, PendSVKeeps
  <1>4. CASE UNCHANGED vars
    BY <1>4 DEF vars, EDF_core, KernelInv, KernelTypeOK, Sound, Ordered, Locked, Unlocks,
       ReadyIsExact, Hidden, Begun, Lead, MayRun, DecisionStands, Base, Raised, Top, Depth,
       ThreadRuns, Schedule
  <1> QED
    BY <1>1, <1>2, <1>3, <1>4 DEF Next

LEMMA KernelIsSound == Spec => []KernelInv
  <1>1. KernelInv /\ [Next]_vars => KernelInv'
    BY NextKeeps
  <1> QED
    BY <1>1, InitIsSound, PTL DEF Spec

(* However activations, publications and interrupts nest on the stack,     *)
(* thresholds and locks keep those apart that must not preempt each other: *)
(* no subscriber runs in the middle of a publication to it, those in the   *)
(* lowest byte of the mask at no time before all have the event.           *)
THEOREM PreemptionOrders == Spec => []PreemptionIsOrdered
  <1>1. KernelInv => PreemptionIsOrdered
    <2> SUFFICES ASSUME KernelInv PROVE PreemptionIsOrdered
      OBVIOUS
    <2> DEFINE n == Len(stack)
    <2>1. /\ Ordered(stack) /\ Locked(stack, lock_ceiling) /\ Unlocks(stack, lock_ceiling, Base)
          /\ stack \in Seq(FrameType) /\ running \in BOOLEAN /\ n \in Nat /\ n = Depth
      BY TopIs DEF Sound, Depth
    <2>2. n = Len(stack)
      OBVIOUS
    <2> HIDE DEF n
    <2>3. \A i \in 1..n : /\ stack[i].ao \in Object \cup {0} /\ stack[i].ao \in Nat
                          /\ Threshold(stack[i].ao) \in Nat
      BY <2>1, <2>2, PrioritiesAre
    <2>4. ThresholdsHold
      <3>1. \A i, j \in 1..n : i < j => Threshold(stack[i].ao) < stack[j].ao
        BY <2>1, <2>2 DEF Ordered
      <3>2. \A i \in 1..n : stack[i].ao # 0 => Threshold(stack[i].ao) = pthre[stack[i].ao]
        BY DEF Threshold
      <3> QED
        BY <2>1, <2>3, <3>1, <3>2 DEF ThresholdsHold
    <2>5. MulticastIsAtomic
      <3> SUFFICES ASSUME NEW i \in 1..n, stack[i].pc = "multicast", NEW j \in (i + 1)..n,
                          stack[j].ao \in stack[i].addressed
                   PROVE  /\ stack[i].subs = stack[i].addressed
                          /\ \E o \in stack[i].addressed : Byte(o) < Byte(stack[j].ao)
        BY <2>1 DEF MulticastIsAtomic
      <3>1. j \in 1..n /\ i < j
        BY <2>1
      <3>2. Lead(stack[i]) < stack[j].ao /\ stack[i] \in FrameType
        BY <2>1, <2>2, <3>1 DEF Locked
      <3>3. Lead(stack[i]) \in Nat
        BY <3>2, LeadIs
      <3>4. Byte(Lead(stack[i])) < Byte(stack[j].ao) /\ Lead(stack[i]) \in stack[i].addressed
        <4>1. stack[j].ao > Lead(stack[i])
          BY <2>3, <3>1, <3>2, <3>3
        <4> QED
          BY <3>2, <4>1, LeadIs
      <3>5. ~Begun(stack[i])
        BY <2>1, <2>2, <3>1, TopIs DEF Sound, Hidden
      <3> QED
        BY <3>4, <3>5 DEF Begun
    <2>6. LocksNest
      <3> DEFINE raised == {i \in 1..n : stack[i].sched_status # NOT_LOCKED}
      <3>1. \A i \in raised : stack[i].sched_status < lock_ceiling
        BY <2>1, <2>2 DEF Locked, Raised
      <3>2. \A i, j \in raised : i < j => stack[i].sched_status < stack[j].sched_status
        BY <2>1, <2>2 DEF Locked, Raised
      <3>3. running /\ raised = {} => lock_ceiling = 0
        BY <2>1, <2>2 DEF Unlocks, Raised, Base
      <3> QED
        BY <2>1, <3>1, <3>2, <3>3 DEF LocksNest
    <2> QED
      BY <2>4, <2>5, <2>6 DEF PreemptionIsOrdered
  <1> QED
    BY <1>1, KernelIsSound, PTL

(* What is posted is never overlooked: the ready set and the queues agree, *)
(* and whatever could run over the thread that runs waits only for an      *)
(* object in a lower byte of the mask, which may not.                      *)
THEOREM WhatIsPostedIsSeen == Spec => []NothingIsMissed
  <1>1. KernelInv => NothingIsMissed
    <2> SUFFICES ASSUME KernelInv PROVE NothingIsMissed
      OBVIOUS
    <2>1. ReadyIsExact(stack, ready_set, queued) /\ Depth = Len(stack)
      BY TopIs DEF Sound
    <2>2. ReadyHasEvents
      BY <2>1 DEF ReadyIsExact, ReadyHasEvents
    <2>3. NoLostWakeup
      <3> SUFFICES ASSUME ThreadRuns, NEW o \in ready_set,
                          o > active_preemption_threshold, o > lock_ceiling
                   PROVE  \E p \in ready_set :
                            /\ Byte(p) < Byte(o)
                            /\ p <= active_preemption_threshold \/ p <= lock_ceiling
        BY DEF NoLostWakeup
      <3> DEFINE m == FindMax(ready_set)
                 t == active_preemption_threshold
      <3>1. /\ Eligible(ready_set, t, lock_ceiling) = 0 /\ t \in Nat /\ lock_ceiling \in Nat
            /\ ready_set \in SUBSET Object /\ ready_set # {}
        BY TopIs DEF Schedule
      <3>2. m <= t \/ m <= lock_ceiling
        <4> HIDE DEF t
        <4> QED
          BY <3>1, EligibleIs
      <3>3. /\ m \in ready_set /\ m \in Nat /\ o \in Nat
            /\ o > m => Byte(m) < Byte(o)
        <4>1. o \in Nat
          BY <3>1, ObjectsAre
        <4> QED
          BY <3>1, <4>1, FindMaxIs
      <3> HIDE DEF m
      <3>4. o > m
        BY <3>1, <3>2, <3>3
      <3> QED
        BY <3>2, <3>3, <3>4
    <2> QED
      BY <2>2, <2>3 DEF NothingIsMissed
  <1> QED
    BY <1>1, KernelIsSound, PTL

(* Whatever is dispatched is ready, and passes over a higher-priority      *)
(* object only when one in a lower byte of the mask is ready, also when    *)
(* interrupts came between the decision and PendSV.  Of the objects of one *)
(* byte, the highest runs.                                                 *)
THEOREM HighestIsDispatched == Spec => HighestIsChosen
  <1>1. KernelInv /\ [Next]_vars =>
          [Dispatches =>
             /\ Top'.ao \in ready_set'
             /\ \A o \in ready_set' : o > Top'.ao => \E p \in ready_set' : Byte(p) < Byte(o)]_vars
    BY NextKeeps DEF Chosen, IsChoice
  <1> QED
    BY <1>1, KernelIsSound, PTL DEF Spec, HighestIsChosen

(* The program of the preemption example is one of the kernel's: what      *)
(* holds of the kernel holds while its workers count and time passes.      *)
THEOREM ExampleRunsOnKernel == ExampleSpec => Spec
  <1>1. ExampleInit => Init
    BY DEF ExampleInit
  <1>2. [ExampleNext]_allVars => [Next]_vars
    <2> SUFFICES ASSUME [ExampleNext]_allVars PROVE [Next]_vars
      OBVIOUS
    <2>1. CASE ExampleThread
      <3>1. CASE WorkerStep
        <4>1. \A w, record : Becomes(w, record) => UNCHANGED vars
          <5> TAKE w, record
          <5> HAVE Becomes(w, record)
          <5>1. UNCHANGED <<vars, example>>
            BY Zenon DEF Becomes
          <5> QED
            BY <5>1 DEF vars, EDF_core
        <4>2. \A w, elapsed : Decides(w, elapsed) => UNCHANGED vars
          <5> TAKE w, elapsed
          <5> HAVE Decides(w, elapsed)
          <5>1. UNCHANGED <<vars, example>>
            BY DEF Decides, Becomes
          <5> QED
            BY <5>1 DEF vars, EDF_core
        <4>3. PICK w \in Workers :
                \/ ReadsStart(w) \/ MarksActive(w) \/ StartsCounting(w)
                \/ ReadsExecuted(w) \/ ReadsTickFirst(w) \/ ReadsResumeFirst(w)
                \/ ComparesBudget(w) \/ StopsCounting(w) \/ Rests(w)
          BY <3>1, Zenon DEF WorkerStep
        <4>4. CASE ComparesBudget(w)
          BY <4>2, <4>4, Zenon DEF ComparesBudget
        <4>5. CASE ReadsStart(w) \/ MarksActive(w) \/ StartsCounting(w)
          BY <4>1, <4>5, Zenon DEF ReadsStart, MarksActive, StartsCounting
        <4>6. CASE ReadsExecuted(w) \/ ReadsTickFirst(w) \/ ReadsResumeFirst(w)
          BY <4>1, <4>6, Zenon DEF ReadsExecuted, ReadsTickFirst, ReadsResumeFirst
        <4>7. CASE StopsCounting(w) \/ Rests(w)
          BY <4>1, <4>7, Zenon DEF StopsCounting, Rests
        <4> QED
          BY <4>3, <4>4, <4>5, <4>6, <4>7, Zenon
      <3>2. CASE Thread
        BY <3>2 DEF Next
      <3>3. ExampleThread => Thread \/ WorkerStep
        BY DEF ExampleThread, Announced, Activated, Thread
      <3> QED
        BY <2>1, <3>1, <3>2, <3>3
    <2>2. CASE Announced(Interrupted)
      BY <2>2 DEF Announced, Interrupted, Next
    <2>3. CASE Announced(IsrEnters) \/ Announced(IsrExits) \/ Announced(PendSV)
      BY <2>3 DEF Announced, Next
    <2>4. CASE TimePasses
      BY <2>4 DEF TimePasses
    <2>5. CASE UNCHANGED allVars
      BY <2>5 DEF allVars
    <2> QED
      BY <2>1, <2>2, <2>3, <2>4, <2>5 DEF ExampleNext
  <1> QED
    BY <1>1, <1>2, PTL DEF ExampleSpec, Spec

-----------------------------------------------------------------------------
(* The clocks of the workers of the example.  What the property says of a worker *)
(* in its loop has to hold on its way there, and needs that a worker which is    *)
(* not done has its frame on the stack, whatever preempts it.                    *)

Steps == {"done", "take", "mark", "count", "stop", "rest"} \cup LoopSteps
WorkerType ==
  [step : Steps, active : BOOLEAN, counting : BOOLEAN,
   executed : 0..MAX_TICKS, resume : 0..MAX_TICKS,
   seen : 0..MAX_TICKS, read : 0..MAX_TICKS, ran : 0..MAX_TICKS]

(* Whether the time since the last reading will be charged: the worker counts, or *)
(* is on the way to its loop without a switch.                                    *)
Charged(r, runs) == r.counting \/ r.step = "mark" \/ (r.step = "count" /\ runs)

(* What one worker's fields say at each place of its handler, and whether it runs. *)
ClockIsRight(r, runs) ==
  /\ r \in WorkerType
  /\ r.active <=> r.step \notin {"done", "take", "mark"}
  /\ r.active /\ r.counting => runs
  /\ r.step \in LoopSteps /\ runs => r.counting
  /\ r.step \in {"mark", "count"} \cup LoopSteps =>
       r.executed >= r.ran \/ (Charged(r, runs) /\ r.executed + r.resume >= r.ran)

(* A worker that is not done has been dispatched, and a frame of it has its event. *)
HasFrame(st, w) == \E i \in 1..Len(st) : st[i].ao = w /\ st[i].pc # "get"

WorkerInv ==
  /\ DOMAIN worker = Workers /\ worker = [w \in Workers |-> worker[w]]
  /\ \A w \in Workers : ClockIsRight(worker[w], active_priority = w)
  /\ \A w \in Workers : worker[w].step # "done" => HasFrame(stack, w)
  /\ ~example => \A w \in Workers : worker[w].step = "done"

LEMMA WorkersAre ==
  /\ Workers \subseteq Object /\ MAX_TICKS \in Nat /\ MAX_TICKS >= 1 /\ BUDGET \in Nat
  BY WorkersAssumption

LEMMA LeastIs ==
  ASSUME NEW a \in Nat, NEW b \in Nat
  PROVE  LeastOf(a, b) \in 0..b /\ (LeastOf(a, b) = a \/ LeastOf(a, b) = b) /\ LeastOf(a, b) <= a
  BY DEF LeastOf

LEMMA InitWorkerInv == ExampleInit => WorkerInv
  <1> SUFFICES ASSUME ExampleInit PROVE WorkerInv
    OBVIOUS
  <1>1. worker = [w \in Workers |-> Resting]
    BY DEF ExampleInit
  <1>2. /\ Resting \in WorkerType /\ Resting.step = "done" /\ ~Resting.active
        /\ ~Resting.counting
    BY WorkersAre DEF Resting, Worker, WorkerType, Steps
  <1>3. ClockIsRight(Resting, TRUE) /\ ClockIsRight(Resting, FALSE)
    BY <1>2 DEF ClockIsRight, LoopSteps
  <1>4. \A w \in Workers : ClockIsRight(Resting, active_priority = w)
    <2> TAKE w \in Workers
    <2> QED
      BY <1>3 DEF ClockIsRight, Charged
  <1> QED
    BY <1>1, <1>2, <1>4 DEF WorkerInv

(* The fields of a worker, for the steps that change some of them. *)
LEMMA FieldsOfWorker ==
  ASSUME NEW r \in WorkerType
  PROVE  /\ r.step \in Steps /\ r.active \in BOOLEAN /\ r.counting \in BOOLEAN
         /\ r.executed \in 0..MAX_TICKS /\ r.resume \in 0..MAX_TICKS
         /\ r.seen \in 0..MAX_TICKS /\ r.read \in 0..MAX_TICKS /\ r.ran \in 0..MAX_TICKS
         /\ r.executed \in Nat /\ r.resume \in Nat /\ r.ran \in Nat /\ MAX_TICKS \in Nat
  BY WorkersAre DEF WorkerType

(* A context switch, seen from one worker: it stops the clock of the worker that is *)
(* preempted and goes on with that of the one that is resumed.                      *)
LEMMA UpdatedIs ==
  ASSUME NEW r \in WorkerType
  PROVE  /\ Updated(r) \in WorkerType
         /\ Updated(r).step = r.step /\ Updated(r).active = r.active
         /\ Updated(r).counting = r.counting /\ Updated(r).ran = r.ran
         /\ r.counting => \/ Updated(r).executed = r.executed + r.resume
                          \/ Updated(r).executed = MAX_TICKS
         /\ ~r.counting => Updated(r) = r
  <1> DEFINE e == LeastOf(r.executed + r.resume, MAX_TICKS)
  <1>1. r.executed + r.resume \in Nat /\ 0 \in 0..MAX_TICKS
    BY FieldsOfWorker
  <1>2. e \in 0..MAX_TICKS /\ (e = r.executed + r.resume \/ e = MAX_TICKS)
    BY <1>1, LeastIs, WorkersAre
  <1>3. Updated(r) = IF r.counting THEN [r EXCEPT !.executed = e, !.resume = 0] ELSE r
    BY DEF Updated, WorkerType
  <1> HIDE DEF e
  <1>4. [r EXCEPT !.executed = e, !.resume = 0] \in WorkerType
    BY <1>1, <1>2 DEF WorkerType
  <1> QED
    BY <1>2, <1>3, <1>4 DEF WorkerType

LEMMA PausedIsRight ==
  ASSUME NEW r, ClockIsRight(r, TRUE)
  PROVE  ClockIsRight(Paused(r), FALSE) /\ Paused(r).step = r.step
  <1>1. r \in WorkerType
    BY DEF ClockIsRight
  <1>2. CASE ~r.active
    BY <1>1, <1>2 DEF Paused, ClockIsRight, Charged, LoopSteps
  <1>3. CASE r.active
    <2> DEFINE u == Updated(r)
               k == IF r.counting THEN u.ran ELSE 0
               p == [u EXCEPT !.counting = FALSE, !.ran = k]
    <2>1. u \in WorkerType /\ u.step = r.step /\ u.active = r.active /\ u.ran = r.ran
      BY <1>1, UpdatedIs
    <2>2. r.step \in {"count"} \cup LoopSteps => u.executed >= k
      <3>1. CASE r.counting
        BY <1>1, <2>1, <3>1, UpdatedIs, FieldsOfWorker DEF ClockIsRight, Charged
      <3>2. CASE ~r.counting
        BY <2>1, <3>2, FieldsOfWorker
      <3> QED
        BY <3>1, <3>2
    <2>3. k \in 0..MAX_TICKS
      BY <2>1, FieldsOfWorker
    <2>4. Paused(r) = p
      BY <1>3 DEF Paused
    <2> HIDE DEF u, k
    <2>5. /\ p \in WorkerType /\ p.step = u.step /\ p.active = u.active /\ ~p.counting
          /\ p.executed = u.executed /\ p.ran = k
      BY <2>1, <2>3 DEF WorkerType
    <2> HIDE DEF p
    <2>6. p.step \notin {"done", "take", "mark"} /\ p.active
      BY <1>3, <2>1, <2>5 DEF ClockIsRight
    <2>7. p.step \in {"mark", "count"} \cup LoopSteps => p.executed >= p.ran
      BY <2>1, <2>2, <2>5, <2>6
    <2>8. ClockIsRight(p, FALSE)
      BY <2>5, <2>6, <2>7 DEF ClockIsRight
    <2> QED
      BY <2>1, <2>4, <2>5, <2>8
  <1> QED
    BY <1>2, <1>3

LEMMA ResumedIsRight ==
  ASSUME NEW r, ClockIsRight(r, FALSE)
  PROVE  ClockIsRight(Resumed(r), TRUE) /\ Resumed(r).step = r.step
  <1>1. r \in WorkerType
    BY DEF ClockIsRight
  <1>2. CASE ~r.active
    BY <1>1, <1>2 DEF Resumed, ClockIsRight, Charged, LoopSteps
  <1>3. CASE r.active
    <2> DEFINE p == [r EXCEPT !.resume = 0, !.counting = TRUE]
    <2>1. Resumed(r) = p
      BY <1>3 DEF Resumed
    <2>2. /\ p \in WorkerType /\ p.step = r.step /\ p.active = r.active /\ p.counting
          /\ p.executed = r.executed /\ p.ran = r.ran /\ p.resume = 0
      <3>1. 0 \in 0..MAX_TICKS
        BY WorkersAre
      <3> QED
        BY <1>1, <3>1 DEF WorkerType
    <2> HIDE DEF p
    <2>3. r.step \notin {"done", "take", "mark"} /\ ~r.counting
      BY <1>3 DEF ClockIsRight
    <2>4. r.step \in {"count"} \cup LoopSteps => r.executed >= r.ran
      BY <1>1, <2>3, FieldsOfWorker DEF ClockIsRight, Charged
    <2>5. p.step \in {"mark", "count"} \cup LoopSteps => p.executed >= p.ran
      BY <2>2, <2>3, <2>4
    <2>6. ClockIsRight(p, TRUE)
      BY <1>3, <2>2, <2>3, <2>5 DEF ClockIsRight
    <2> QED
      BY <2>1, <2>2, <2>6
  <1> QED
    BY <1>2, <1>3

LEMMA SwitchKeepsClocks ==
  ASSUME WorkerInv, OnContextSwitch(active_priority, active_priority')
  PROVE  /\ DOMAIN worker' = Workers /\ worker' = [w \in Workers |-> worker'[w]]
         /\ \A w \in Workers : /\ ClockIsRight(worker'[w], active_priority' = w)
                               /\ worker'[w].step = worker[w].step
  <1>1. worker' = [w \in Workers |->
          IF w = active_priority /\ active_priority # active_priority' THEN Paused(worker[w])
          ELSE IF w = active_priority' /\ active_priority # active_priority'
               THEN Resumed(worker[w])
          ELSE worker[w]]
    BY DEF OnContextSwitch
  <1>2. ASSUME NEW w \in Workers
        PROVE  ClockIsRight(worker'[w], active_priority' = w) /\ worker'[w].step = worker[w].step
    <2> DEFINE before == active_priority = w
               after == active_priority' = w
    <2>1. ClockIsRight(worker[w], before)
      BY DEF WorkerInv
    <2>2. CASE before /\ ~after
      <3>1. worker'[w] = Paused(worker[w]) /\ before = TRUE /\ after = FALSE
        BY <1>1, <2>2
      <3> QED
        BY <2>1, <3>1, PausedIsRight
    <2>3. CASE ~before /\ after
      <3>1. worker'[w] = Resumed(worker[w]) /\ before = FALSE /\ after = TRUE
        BY <1>1, <2>3
      <3> QED
        BY <2>1, <3>1, ResumedIsRight
    <2>4. CASE before = after
      <3>1. worker'[w] = worker[w]
        BY <1>1, <2>4
      <3> QED
        BY <2>1, <2>4, <3>1
    <2> QED
      BY <2>2, <2>3, <2>4
  <1> QED
    BY <1>1, <1>2

(* The steps of a handler: the worker runs, and its record becomes another. *)
LEMMA StartIsRight ==
  ASSUME NEW r, ClockIsRight(r, TRUE), NEW s \in {"mark", "done"}
  PROVE  ClockIsRight(Worker(s, FALSE, r.counting, 0, 0), TRUE)
  <1> DEFINE p == Worker(s, FALSE, r.counting, 0, 0)
  <1>1. r.counting \in BOOLEAN /\ 0 \in 0..MAX_TICKS
    BY FieldsOfWorker, WorkersAre DEF ClockIsRight
  <1>2. p \in WorkerType /\ p.step = s /\ ~p.active /\ p.executed = 0 /\ p.ran = 0
    BY <1>1 DEF Worker, WorkerType, Steps
  <1> HIDE DEF p
  <1>3. p.executed >= p.ran /\ p.step \notin LoopSteps
    BY <1>2 DEF LoopSteps
  <1>4. ClockIsRight(p, TRUE)
    BY <1>2, <1>3 DEF ClockIsRight
  <1> QED
    BY <1>4 DEF p

LEMMA MarkIsRight ==
  ASSUME NEW r, ClockIsRight(r, TRUE), r.step = "mark"
  PROVE  ClockIsRight([r EXCEPT !.step = "count", !.active = TRUE], TRUE)
  <1> DEFINE p == [r EXCEPT !.step = "count", !.active = TRUE]
  <1>1. /\ p \in WorkerType /\ p.step = "count" /\ p.active /\ p.counting = r.counting
        /\ p.executed = r.executed /\ p.ran = r.ran /\ p.resume = r.resume
    BY DEF ClockIsRight, WorkerType, Steps
  <1> HIDE DEF p
  <1>2. r.executed >= r.ran \/ r.executed + r.resume >= r.ran
    BY DEF ClockIsRight
  <1>3. Charged(p, TRUE) /\ p.step \notin LoopSteps
    BY <1>1 DEF Charged, LoopSteps
  <1>4. p.executed >= p.ran \/ p.executed + p.resume >= p.ran
    BY <1>1, <1>2
  <1>5. ClockIsRight(p, TRUE)
    BY <1>1, <1>3, <1>4 DEF ClockIsRight
  <1> QED
    BY <1>5 DEF p

LEMMA CountIsRight ==
  ASSUME NEW r, ClockIsRight(r, TRUE), r.step = "count"
  PROVE  ClockIsRight([r EXCEPT !.step = "loop", !.counting = TRUE], TRUE)
  <1> DEFINE p == [r EXCEPT !.step = "loop", !.counting = TRUE]
  <1>1. /\ p \in WorkerType /\ p.step = "loop" /\ p.active = r.active /\ p.counting
        /\ p.executed = r.executed /\ p.ran = r.ran /\ p.resume = r.resume
    BY DEF ClockIsRight, WorkerType, Steps, LoopSteps
  <1> HIDE DEF p
  <1>2. (r.executed >= r.ran \/ r.executed + r.resume >= r.ran) /\ r.active
    BY DEF ClockIsRight
  <1>3. Charged(p, TRUE)
    BY <1>1 DEF Charged
  <1>4. p.executed >= p.ran \/ p.executed + p.resume >= p.ran
    BY <1>1, <1>2
  <1>5. ClockIsRight(p, TRUE)
    BY <1>1, <1>2, <1>3, <1>4 DEF ClockIsRight
  <1> QED
    BY <1>5 DEF p

(* In the loop only the locals and the step change. *)
LEMMA LoopIsRight ==
  ASSUME NEW r, ClockIsRight(r, TRUE), r.step \in LoopSteps,
         NEW s \in LoopSteps \cup {"stop"}, NEW x \in 0..MAX_TICKS, NEW y \in 0..MAX_TICKS
  PROVE  ClockIsRight([r EXCEPT !.step = s, !.seen = x, !.read = y], TRUE)
  <1> DEFINE p == [r EXCEPT !.step = s, !.seen = x, !.read = y]
  <1>1. /\ p \in WorkerType /\ p.step = s /\ p.active = r.active /\ p.counting = r.counting
        /\ p.executed = r.executed /\ p.ran = r.ran /\ p.resume = r.resume
    BY DEF ClockIsRight, WorkerType, Steps, LoopSteps
  <1> HIDE DEF p
  <1>2. /\ r.executed >= r.ran \/ r.executed + r.resume >= r.ran
        /\ r.active /\ r.counting
    BY DEF ClockIsRight, LoopSteps
  <1>3. Charged(p, TRUE) /\ s \notin {"done", "take", "mark"}
    BY <1>1, <1>2 DEF Charged, LoopSteps
  <1>4. p.executed >= p.ran \/ p.executed + p.resume >= p.ran
    BY <1>1, <1>2
  <1>5. ClockIsRight(p, TRUE)
    BY <1>1, <1>2, <1>3, <1>4 DEF ClockIsRight
  <1> QED
    BY <1>5 DEF p

LEMMA StopIsRight ==
  ASSUME NEW r, ClockIsRight(r, TRUE), r.step = "stop"
  PROVE  ClockIsRight([Updated(r) EXCEPT !.step = "rest", !.counting = FALSE], TRUE)
  <1> DEFINE u == Updated(r)
             p == [u EXCEPT !.step = "rest", !.counting = FALSE]
  <1>1. u \in WorkerType /\ u.active = r.active /\ r.active
    BY UpdatedIs DEF ClockIsRight
  <1> HIDE DEF u
  <1>2. p \in WorkerType /\ p.step = "rest" /\ p.active /\ ~p.counting
    BY <1>1 DEF WorkerType, Steps
  <1> HIDE DEF p
  <1>3. ClockIsRight(p, TRUE)
    BY <1>2 DEF ClockIsRight, LoopSteps
  <1> QED
    BY <1>3 DEF p, u

(* A worker whose handler makes a step runs, and its frame has its event. *)
LEMMA HandlerStep ==
  ASSUME KernelInv, WorkerInv, NEW w \in Workers, NEW s, NEW r,
         Handles(w, s), Becomes(w, r),
         ClockIsRight(worker[w], TRUE) => ClockIsRight(r, TRUE)
  PROVE  WorkerInv'
  <1>1. /\ Top.ao = w /\ Top.pc = "handling" /\ Depth \in 1..Len(stack) /\ active_priority = w
    BY DEF KernelInv, KernelTypeOK, Sound, DecisionStands, Handles, Depth
  <1>2. HasFrame(stack, w)
    BY <1>1 DEF HasFrame, Top
  <1>3. /\ worker' = [worker EXCEPT ![w] = r] /\ stack' = stack
        /\ active_priority' = active_priority /\ example' = example /\ example
    BY DEF Becomes, Handles, vars, EDF_core
  <1>4. DOMAIN worker' = Workers /\ worker' = [v \in Workers |-> worker'[v]]
    BY <1>3 DEF WorkerInv
  <1>5. ASSUME NEW v \in Workers
        PROVE  /\ ClockIsRight(worker'[v], active_priority' = v)
               /\ worker'[v].step # "done" => HasFrame(stack', v)
    <2>1. CASE v = w
      <3>1. (active_priority = v) = TRUE
        BY <1>1, <2>1
      <3>2. ClockIsRight(worker[w], active_priority = w)
        BY DEF WorkerInv
      <3>3. ClockIsRight(r, TRUE) /\ worker'[v] = r
        BY <1>3, <2>1, <3>1, <3>2 DEF WorkerInv
      <3> QED
        BY <1>2, <1>3, <2>1, <3>1, <3>3
    <2>2. CASE v # w
      <3>1. worker'[v] = worker[v]
        BY <1>3, <2>2 DEF WorkerInv
      <3> QED
        BY <1>3, <3>1 DEF WorkerInv
    <2> QED
      BY <2>1, <2>2
  <1> QED
    BY <1>3, <1>4, <1>5 DEF WorkerInv

LEMMA WorkerStepKeeps ==
  ASSUME KernelInv, WorkerInv, WorkerStep
  PROVE  WorkerInv'
  <1> PICK w \in Workers :
        \/ ReadsStart(w) \/ MarksActive(w) \/ StartsCounting(w)
        \/ ReadsExecuted(w) \/ ReadsTickFirst(w) \/ ReadsResumeFirst(w) \/ ComparesBudget(w)
        \/ StopsCounting(w) \/ Rests(w)
    BY DEF WorkerStep
  <1> DEFINE r == worker[w]
  <1>1. r \in WorkerType
    BY DEF WorkerInv, ClockIsRight
  <1>2. /\ r.executed \in 0..MAX_TICKS /\ r.resume \in 0..MAX_TICKS
        /\ r.seen \in 0..MAX_TICKS /\ r.read \in 0..MAX_TICKS /\ 0 \in 0..MAX_TICKS
    BY <1>1, FieldsOfWorker, WorkersAre
  <1>3. CASE ReadsStart(w)
    BY <1>3, StartIsRight, HandlerStep DEF ReadsStart
  <1>4. CASE MarksActive(w)
    <2>1. r.step = "mark"
      BY <1>4 DEF MarksActive, Handles
    <2> QED
      BY <1>4, <2>1, MarkIsRight, HandlerStep DEF MarksActive
  <1>5. CASE StartsCounting(w)
    <2>1. r.step = "count"
      BY <1>5 DEF StartsCounting, Handles
    <2> QED
      BY <1>5, <2>1, CountIsRight, HandlerStep DEF StartsCounting
  <1>6. ASSUME NEW s \in LoopSteps, Handles(w, s), NEW n \in LoopSteps \cup {"stop"},
               NEW x \in 0..MAX_TICKS, NEW y \in 0..MAX_TICKS,
               Becomes(w, [r EXCEPT !.step = n, !.seen = x, !.read = y])
        PROVE  WorkerInv'
    <2>1. r.step \in LoopSteps
      BY <1>6 DEF Handles
    <2> QED
      BY <1>6, <2>1, LoopIsRight, HandlerStep
  <1>7. CASE ReadsExecuted(w)
    <2>1. [r EXCEPT !.step = "reads", !.seen = r.executed]
          = [r EXCEPT !.step = "reads", !.seen = r.executed, !.read = r.read]
      BY <1>1 DEF WorkerType
    <2> QED
      BY <1>2, <1>6, <1>7, <2>1 DEF ReadsExecuted, LoopSteps
  <1>8. CASE ReadsTickFirst(w)
    <2>1. [r EXCEPT !.step = "tickRead", !.read = 0]
          = [r EXCEPT !.step = "tickRead", !.seen = r.seen, !.read = 0]
      BY <1>1 DEF WorkerType
    <2> QED
      BY <1>2, <1>6, <1>8, <2>1 DEF ReadsTickFirst, LoopSteps
  <1>9. CASE ReadsResumeFirst(w)
    <2>1. [r EXCEPT !.step = "resumeRead", !.read = r.resume]
          = [r EXCEPT !.step = "resumeRead", !.seen = r.seen, !.read = r.resume]
      BY <1>1 DEF WorkerType
    <2> QED
      BY <1>2, <1>6, <1>9, <2>1 DEF ReadsResumeFirst, LoopSteps
  <1>10. CASE ComparesBudget(w)
    <2>1. ASSUME NEW s \in {"tickRead", "resumeRead"}, NEW elapsed,
                 Handles(w, s), Decides(w, elapsed)
          PROVE  WorkerInv'
      <3> DEFINE n == IF (r.seen + elapsed) % 65536 < BUDGET THEN "loop" ELSE "stop"
      <3>1. Becomes(w, [r EXCEPT !.step = n, !.seen = 0, !.read = 0])
        BY <2>1 DEF Decides
      <3>2. n \in LoopSteps \cup {"stop"} /\ s \in LoopSteps
        BY DEF LoopSteps
      <3> HIDE DEF n
      <3> QED
        BY <1>2, <1>6, <2>1, <3>1, <3>2
    <2> QED
      BY <1>10, <2>1 DEF ComparesBudget
  <1>11. CASE StopsCounting(w)
    <2>1. r.step = "stop"
      BY <1>11 DEF StopsCounting, Handles
    <2> QED
      BY <1>11, <2>1, StopIsRight, HandlerStep DEF StopsCounting
  <1>12. CASE Rests(w)
    BY <1>12, StartIsRight, HandlerStep DEF Rests
  <1> QED
    BY <1>3, <1>4, <1>5, <1>7, <1>8, <1>9, <1>10, <1>11, <1>12


(* Time that passes is charged to the worker that runs. *)
LEMMA AgedIs ==
  ASSUME NEW r, NEW runs \in BOOLEAN, ClockIsRight(r, runs),
         r.active /\ r.counting => r.resume < MAX_TICKS,
         NEW e \in 0..MAX_TICKS, NEW d \in 0..MAX_TICKS, NEW n \in 0..MAX_TICKS,
         e = (IF (r.active /\ r.counting) \/ r.step = "mark" \/ (r.step = "count" /\ runs)
              THEN LeastOf(r.resume + 1, MAX_TICKS) ELSE r.resume),
         n = (IF r.step \in {"mark", "count"} \cup LoopSteps /\ runs
              THEN LeastOf(r.ran + 1, MAX_TICKS) ELSE r.ran)
  PROVE  ClockIsRight([r EXCEPT !.resume = e, !.read = d, !.ran = n], runs)
  <1> DEFINE p == [r EXCEPT !.resume = e, !.read = d, !.ran = n]
  <1>1. /\ p \in WorkerType /\ p.step = r.step /\ p.active = r.active /\ p.counting = r.counting
        /\ p.executed = r.executed /\ p.resume = e /\ p.ran = n
    BY DEF ClockIsRight, WorkerType
  <1> HIDE DEF p
  <1>2. Charged(p, runs) <=> Charged(r, runs)
    BY <1>1 DEF Charged
  <1>3. /\ r.executed \in Nat /\ r.resume \in Nat /\ r.ran \in Nat /\ MAX_TICKS \in Nat
        /\ r.resume <= MAX_TICKS /\ r.ran <= MAX_TICKS
    BY FieldsOfWorker DEF ClockIsRight
  <1>4. /\ LeastOf(r.resume + 1, MAX_TICKS) = IF r.resume < MAX_TICKS THEN r.resume + 1 ELSE MAX_TICKS
        /\ LeastOf(r.ran + 1, MAX_TICKS) = IF r.ran < MAX_TICKS THEN r.ran + 1 ELSE MAX_TICKS
    BY <1>3 DEF LeastOf
  <1>5. ASSUME r.step \in {"mark", "count"} \cup LoopSteps
        PROVE  r.executed >= n \/ (Charged(r, runs) /\ r.executed + e >= n)
    <2>1. r.executed >= r.ran \/ (Charged(r, runs) /\ r.executed + r.resume >= r.ran)
      BY <1>5 DEF ClockIsRight
    <2>2. CASE runs
      <3>1. /\ Charged(r, runs)
            /\ (r.active /\ r.counting) \/ r.step = "mark" \/ (r.step = "count" /\ runs)
        BY <1>5, <2>2 DEF ClockIsRight, Charged, LoopSteps
      <3>2. e = (IF r.resume < MAX_TICKS THEN r.resume + 1 ELSE MAX_TICKS)
            /\ n = (IF r.ran < MAX_TICKS THEN r.ran + 1 ELSE MAX_TICKS)
        BY <1>4, <1>5, <2>2, <3>1
      <3>3. r.executed + e >= n
        BY <1>3, <2>1, <3>2
      <3> QED
        BY <3>1, <3>3
    <2>3. CASE ~runs
      <3>1. n = r.ran
        BY <2>3
      <3>2. e = r.resume \/ e = r.resume + 1 \/ e = MAX_TICKS
        BY <1>4
      <3>3. e >= r.resume
        BY <1>3, <3>2
      <3> QED
        BY <1>3, <2>1, <3>1, <3>3
    <2> QED
      BY <2>2, <2>3
  <1>6. ClockIsRight(p, runs)
    BY <1>1, <1>2, <1>5 DEF ClockIsRight
  <1> QED
    BY <1>6 DEF p

LEMMA TimePassesKeeps ==
  ASSUME WorkerInv, TimePasses
  PROVE  WorkerInv'
  <1> DEFINE e(w) == LET r == worker[w] IN
               IF \/ r.active /\ r.counting
                  \/ r.step = "mark" \/ (r.step = "count" /\ active_priority = w)
               THEN LeastOf(r.resume + 1, MAX_TICKS) ELSE r.resume
             d(w) == LET r == worker[w] IN
               IF r.step \in {"tickRead", "resumeRead"} THEN LeastOf(r.read + 1, MAX_TICKS)
               ELSE r.read
             n(w) == LET r == worker[w] IN
               IF r.step \in {"mark", "count"} \cup LoopSteps /\ active_priority = w
               THEN LeastOf(r.ran + 1, MAX_TICKS) ELSE r.ran
  <1>1. worker' = [w \in Workers |->
                     [worker[w] EXCEPT !.resume = e(w), !.read = d(w), !.ran = n(w)]]
    BY DEF TimePasses
  <1>2. /\ stack' = stack /\ active_priority' = active_priority /\ example' = example
        /\ example
    BY DEF TimePasses, vars, EDF_core
  <1>3. ASSUME NEW w \in Workers
        PROVE  /\ ClockIsRight(worker'[w], active_priority' = w)
               /\ worker'[w].step = worker[w].step
    <2> DEFINE r == worker[w]
               runs == active_priority = w
    <2>1. ClockIsRight(r, runs) /\ r \in WorkerType /\ runs \in BOOLEAN
      BY DEF WorkerInv, ClockIsRight
    <2>2. r.active /\ r.counting => r.resume < MAX_TICKS
      BY DEF TimePasses
    <2>3. e(w) \in 0..MAX_TICKS /\ d(w) \in 0..MAX_TICKS /\ n(w) \in 0..MAX_TICKS
      <3>1. /\ r.resume \in 0..MAX_TICKS /\ r.read \in 0..MAX_TICKS /\ r.ran \in 0..MAX_TICKS
            /\ r.resume + 1 \in Nat /\ r.read + 1 \in Nat /\ r.ran + 1 \in Nat
            /\ MAX_TICKS \in Nat
        BY <2>1, FieldsOfWorker
      <3> QED
        BY <3>1, LeastIs
    <2>4. worker'[w] = [r EXCEPT !.resume = e(w), !.read = d(w), !.ran = n(w)]
      BY <1>1
    <2>5. /\ e(w) = (IF (r.active /\ r.counting) \/ r.step = "mark" \/ (r.step = "count" /\ runs)
                     THEN LeastOf(r.resume + 1, MAX_TICKS) ELSE r.resume)
          /\ n(w) = (IF r.step \in {"mark", "count"} \cup LoopSteps /\ runs
                     THEN LeastOf(r.ran + 1, MAX_TICKS) ELSE r.ran)
      OBVIOUS
    <2>6. worker'[w].step = r.step
      BY <2>1, <2>4 DEF WorkerType
    <2>7. ClockIsRight(worker'[w], runs)
      <3> DEFINE ew == e(w)
                 dw == d(w)
                 nw == n(w)
      <3>1. ew \in 0..MAX_TICKS /\ dw \in 0..MAX_TICKS /\ nw \in 0..MAX_TICKS
        BY <2>3
      <3>2. /\ ew = (IF (r.active /\ r.counting) \/ r.step = "mark" \/ (r.step = "count" /\ runs)
                     THEN LeastOf(r.resume + 1, MAX_TICKS) ELSE r.resume)
            /\ nw = (IF r.step \in {"mark", "count"} \cup LoopSteps /\ runs
                     THEN LeastOf(r.ran + 1, MAX_TICKS) ELSE r.ran)
        BY <2>5
      <3>3. worker'[w] = [r EXCEPT !.resume = ew, !.read = dw, !.ran = nw]
        BY <2>4
      <3> HIDE DEF ew, dw, nw, r, runs
      <3>4. ClockIsRight([r EXCEPT !.resume = ew, !.read = dw, !.ran = nw], runs)
        BY <2>1, <2>2, <3>1, <3>2, AgedIs
      <3> QED
        BY <3>3, <3>4
    <2> QED
      BY <1>2, <2>6, <2>7
  <1> HIDE DEF e, d, n
  <1>4. DOMAIN worker' = Workers /\ worker' = [w \in Workers |-> worker'[w]]
    BY <1>1
  <1> QED
    BY <1>2, <1>3, <1>4 DEF WorkerInv


(* What the kernel does to the stack keeps the frames of the workers that are not done. *)
LEMMA PushKeepsFrame ==
  ASSUME KernelInv, NEW w, HasFrame(stack, w),
         stack' = stack \/ \E f \in FrameType : stack' = Append(stack, f)
  PROVE  HasFrame(stack', w)
  <1>1. stack \in Seq(FrameType)
    BY DEF KernelInv, KernelTypeOK
  <1>2. PICK i \in 1..Len(stack) : stack[i].ao = w /\ stack[i].pc # "get"
    BY DEF HasFrame
  <1>3. ASSUME NEW f \in FrameType, stack' = Append(stack, f)
        PROVE  HasFrame(stack', w)
    <2>1. i \in 1..Len(stack') /\ stack'[i] = stack[i]
      BY <1>1, <1>2, <1>3
    <2> QED
      BY <1>2, <2>1 DEF HasFrame
  <1> QED
    BY <1>3

LEMMA ActivatePushes ==
  ASSUME KernelInv, NEW p \in Object, Activate(p, stack)
  PROVE  \E f \in FrameType : stack' = Append(stack, f)
  <1>1. active_priority = Top.ao /\ Top \in FrameType
    BY TopIs DEF KernelInv, DecisionStands
  <1>2. active_priority \in Object \cup {0}
    BY <1>1 DEF FrameType
  <1>3. (IF active_priority = 0 THEN 0 ELSE pthre[active_priority]) \in 0..MAX_ACTIVE_OBJECT
    BY <1>2, KernelAssumption
  <1>4. Frame(p, "get", active_priority, IF active_priority = 0 THEN 0 ELSE pthre[active_priority])
          \in FrameType
    BY <1>2, <1>3, FrameIs
  <1> QED
    BY <1>4 DEF Activate

LEMMA RunPushes ==
  ASSUME KernelInv, Run
  PROVE  stack' = stack \/ \E f \in FrameType : stack' = Append(stack, f)
  <1> DEFINE p == Schedule(ready_set, 0)
  <1>1. p \in Object \cup {0}
    <2>1. ready_set \in SUBSET Object /\ 0 \in Nat
      BY DEF KernelInv, KernelTypeOK
    <2>2. active_preemption_threshold \in Nat
      BY TopIs
    <2> QED
      BY <2>1, <2>2, EligibleIs DEF Schedule
  <1>2. CASE p = 0
    BY <1>2 DEF Run, ScheduleAndActivate
  <1>3. CASE p # 0
    <2>1. Activate(p, stack) /\ p \in Object
      BY <1>1, <1>3 DEF Run, ScheduleAndActivate
    <2> QED
      BY <2>1, ActivatePushes
  <1> QED
    BY <1>2, <1>3

LEMMA PendSVPushes ==
  ASSUME KernelInv, PendSV
  PROVE  \E f \in FrameType : stack' = Append(stack, f)
  <1>1. next_priority \in Object
    BY DEF KernelInv, KernelTypeOK, DecisionStands, MayRun, PendSV
  <1> QED
    BY <1>1, ActivatePushes DEF PendSV

LEMMA EndDispatchKeepsFrames ==
  ASSUME KernelInv, EndDispatch, NEW w, HasFrame(stack, w), w # Top.ao
  PROVE  HasFrame(stack', w)
  <1>1. stack \in Seq(FrameType) /\ Len(stack) >= 1 /\ Top = stack[Len(stack)]
    BY DEF KernelInv, KernelTypeOK, Top, Depth
  <1>2. PICK i \in 1..Len(stack) : stack[i].ao = w /\ stack[i].pc # "get"
    BY DEF HasFrame
  <1>3. i \in 1..(Len(stack) - 1)
    BY <1>1, <1>2
  <1>4. CASE stack' = Front(stack)
    <2>1. i \in 1..Len(stack') /\ stack'[i] = stack[i]
      BY <1>1, <1>3, <1>4 DEF Front
    <2> QED
      BY <1>2, <2>1 DEF HasFrame
  <1>5. ASSUME NEW f, stack' = SetTop(f)
        PROVE  HasFrame(stack', w)
    <2>1. i \in 1..Len(stack') /\ stack'[i] = stack[i]
      BY <1>1, <1>3, <1>5 DEF SetTop, Depth
    <2> QED
      BY <1>2, <2>1 DEF HasFrame
  <1> QED
    BY <1>4, <1>5 DEF EndDispatch

(* The kernel's steps announce the switch, and leave the handlers where they are. *)
LEMMA AnnouncedKeeps ==
  ASSUME WorkerInv, OnContextSwitch(active_priority, active_priority'), UNCHANGED example,
         example => \A w \in Workers :
           worker[w].step # "done" /\ HasFrame(stack, w) => HasFrame(stack', w)
  PROVE  WorkerInv'
  <1>1. /\ DOMAIN worker' = Workers /\ worker' = [w \in Workers |-> worker'[w]]
        /\ \A w \in Workers : /\ ClockIsRight(worker'[w], active_priority' = w)
                              /\ worker'[w].step = worker[w].step
    BY SwitchKeepsClocks
  <1>2. \A w \in Workers : worker'[w].step # "done" => HasFrame(stack', w)
    BY <1>1 DEF WorkerInv
  <1> QED
    BY <1>1, <1>2 DEF WorkerInv

(* An object that is activated has no other frame, so its worker was done. *)
LEMMA ActivatedKeeps ==
  ASSUME KernelInv, WorkerInv, Activated
  PROVE  WorkerInv'
  <1> DEFINE t == Top.ao
  <1>1. /\ stack \in Seq(FrameType) /\ Len(stack) >= 1 /\ Top = stack[Len(stack)]
        /\ Ordered(stack)
    BY DEF KernelInv, KernelTypeOK, Sound, Top, Depth
  <1>2. /\ Top.pc = "get" /\ stack' = SetTop([Top EXCEPT !.pc = "handling"])
        /\ active_priority' = active_priority /\ example' = example /\ example
        /\ worker' = [worker EXCEPT ![t].step = "take"]
    BY DEF Activated, Get, EDF_core
  <1>3. ~HasFrame(stack, t)
    <2> SUFFICES ASSUME NEW i \in 1..Len(stack), stack[i].ao = t, stack[i].pc # "get"
                 PROVE  FALSE
      BY DEF HasFrame
    <2>1. i # Len(stack) /\ i < Len(stack) /\ Len(stack) \in 1..Len(stack)
      BY <1>1, <1>2
    <2>2. \A j \in 1..Len(stack) : i < j => Threshold(stack[i].ao) < stack[j].ao
      BY <1>1 DEF Ordered
    <2>3. Threshold(stack[i].ao) < stack[Len(stack)].ao
      BY <2>1, <2>2
    <2>4. stack[Len(stack)].ao = t /\ Top \in FrameType
      BY <1>1
    <2>5. t \in Object \cup {0}
      BY <2>4 DEF FrameType
    <2> HIDE DEF t
    <2>6. Threshold(t) < t
      BY <2>3, <2>4
    <2>7. Threshold(t) \in Nat /\ t \in Nat /\ t <= Threshold(t)
      BY <2>5, ThresholdIs, ObjectsAre
    <2> QED
      BY <2>6, <2>7
  <1>4. /\ Len(stack') = Len(stack) /\ \A i \in 1..Len(stack) : i # Len(stack) => stack'[i] = stack[i]
        /\ stack'[Len(stack)] = [Top EXCEPT !.pc = "handling"]
    BY <1>1, <1>2 DEF SetTop, Depth
  <1>5. stack'[Len(stack)].ao = t /\ stack'[Len(stack)].pc # "get"
    BY <1>1, <1>4 DEF FrameType
  <1>6. ASSUME NEW w \in Workers, HasFrame(stack, w)
        PROVE  HasFrame(stack', w)
    <2>1. PICK i \in 1..Len(stack) : stack[i].ao = w /\ stack[i].pc # "get"
      BY <1>6 DEF HasFrame
    <2>2. i # Len(stack)
      BY <1>1, <1>2, <2>1
    <2> QED
      BY <1>4, <2>1, <2>2 DEF HasFrame
  <1>7. HasFrame(stack', t)
    <2>1. Len(stack) \in 1..Len(stack')
      BY <1>1, <1>4
    <2> QED
      BY <1>5, <2>1 DEF HasFrame
  <1> HIDE DEF t
  <1>8. DOMAIN worker' = Workers /\ worker' = [w \in Workers |-> worker'[w]]
    BY <1>2 DEF WorkerInv
  <1>9. ASSUME NEW w \in Workers
        PROVE  /\ ClockIsRight(worker'[w], active_priority' = w)
               /\ worker'[w].step # "done" => HasFrame(stack', w)
    <2>1. ClockIsRight(worker[w], active_priority = w)
      BY DEF WorkerInv
    <2>2. CASE w = t
      <3> DEFINE r == worker[w]
                 p == [r EXCEPT !.step = "take"]
      <3>1. r.step = "done" /\ r \in WorkerType /\ ~r.active
        BY <1>3, <2>1, <2>2 DEF WorkerInv, ClockIsRight
      <3>2. p \in WorkerType /\ p.step = "take" /\ ~p.active
        BY <3>1 DEF WorkerType, Steps
      <3>3. worker'[w] = p
        BY <1>2, <2>2 DEF WorkerInv
      <3> HIDE DEF p
      <3>4. ClockIsRight(p, active_priority' = w)
        BY <3>2 DEF ClockIsRight, LoopSteps
      <3> QED
        BY <1>7, <2>2, <3>3, <3>4
    <2>3. CASE w # t
      <3>1. worker'[w] = worker[w]
        BY <1>2, <2>3 DEF WorkerInv
      <3> QED
        BY <1>2, <1>6, <2>1, <3>1 DEF WorkerInv
    <2> QED
      BY <2>2, <2>3
  <1> QED
    BY <1>2, <1>8, <1>9 DEF WorkerInv

LEMMA ExampleNextKeeps ==
  ASSUME KernelInv, WorkerInv, [ExampleNext]_allVars
  PROVE  WorkerInv'
  <1>1. ASSUME OnContextSwitch(active_priority, active_priority'), UNCHANGED example,
               stack' = stack \/ \E f \in FrameType : stack' = Append(stack, f)
        PROVE  WorkerInv'
    BY <1>1, PushKeepsFrame, AnnouncedKeeps
  <1>2. CASE ~example /\ Announced(Thread)
    BY <1>2, AnnouncedKeeps DEF Announced
  <1>3. CASE Activated
    BY <1>3, ActivatedKeeps
  <1>4. CASE example /\ Announced(Run)
    BY <1>1, <1>4, RunPushes DEF Announced
  <1>5. CASE example /\ Top.ao # 0 /\ worker[Top.ao].step = "done" /\ Announced(EndDispatch)
    <2>1. \A w \in Workers : worker[w].step # "done" /\ HasFrame(stack, w) => HasFrame(stack', w)
      BY <1>5, EndDispatchKeepsFrames DEF Announced
    <2> QED
      BY <1>5, <2>1, AnnouncedKeeps DEF Announced
  <1>6. CASE WorkerStep
    BY <1>6, WorkerStepKeeps
  <1>7. CASE Announced(IsrEnters)
    BY <1>1, <1>7 DEF Announced, IsrEnters
  <1>8. CASE Announced(Interrupted)
    BY <1>1, <1>8 DEF Announced, Interrupted, IsrPosts
  <1>9. CASE Announced(IsrExits)
    BY <1>1, <1>9 DEF Announced, IsrExits
  <1>10. CASE Announced(PendSV)
    BY <1>1, <1>10, PendSVPushes DEF Announced
  <1>11. CASE TimePasses
    BY <1>11, TimePassesKeeps
  <1>12. CASE UNCHANGED allVars
    BY <1>12 DEF allVars, vars, exampleVars, EDF_core, WorkerInv, HasFrame
  <1> QED
    BY <1>2, <1>3, <1>4, <1>5, <1>6, <1>7, <1>8, <1>9, <1>10, <1>11, <1>12
       DEF ExampleNext, ExampleThread

(* What a worker is charged for is at least what it ran, up to the bound. *)
LEMMA ChargedIsExact == WorkerInv => ExecutionIsCharged
  <1> SUFFICES ASSUME WorkerInv, NEW w \in Workers
               PROVE  LET r == worker[w] IN
                        /\ r.active /\ r.counting => active_priority = w
                        /\ r.step \in LoopSteps /\ active_priority = w => r.active /\ r.counting
                        /\ r.step \in LoopSteps =>
                             LeastOf(r.executed + (IF r.counting THEN r.resume ELSE 0), MAX_TICKS)
                               >= r.ran
    BY DEF ExecutionIsCharged
  <1> DEFINE r == worker[w]
             c == IF r.counting THEN r.resume ELSE 0
  <1>1. ClockIsRight(r, active_priority = w)
    BY DEF WorkerInv
  <1>2. r.step \in LoopSteps => r.active
    BY <1>1 DEF ClockIsRight, LoopSteps
  <1>3. ASSUME r.step \in LoopSteps
        PROVE  LeastOf(r.executed + c, MAX_TICKS) >= r.ran
    <2>1. /\ r.executed \in Nat /\ r.resume \in Nat /\ r.ran \in Nat /\ MAX_TICKS \in Nat
          /\ r.ran <= MAX_TICKS
      BY <1>1, FieldsOfWorker DEF ClockIsRight
    <2>2. r.executed + c >= r.ran
      BY <1>1, <1>3, <2>1 DEF ClockIsRight, Charged, LoopSteps
    <2> QED
      BY <2>1, <2>2 DEF LeastOf
  <1> QED
    BY <1>1, <1>2, <1>3 DEF ClockIsRight

(* However the workers of the example preempt each other, for any set of workers, any *)
(* budget and any bounds: only the one that runs is counting, and none has run in its *)
(* loop for longer than what its fields charge it for.                                *)
THEOREM ExecutionIsAlwaysCharged == ExampleSpec => []ExecutionIsCharged
  <1>1. ExampleSpec => []KernelInv
    BY ExampleRunsOnKernel, KernelIsSound, PTL
  <1>2. ExampleInit => WorkerInv
    BY InitWorkerInv
  <1>3. KernelInv /\ WorkerInv /\ [ExampleNext]_allVars => WorkerInv'
    BY ExampleNextKeeps
  <1>4. WorkerInv => ExecutionIsCharged
    BY ChargedIsExact
  <1> QED
    BY <1>1, <1>2, <1>3, <1>4, PTL DEF ExampleSpec

=============================================================================
