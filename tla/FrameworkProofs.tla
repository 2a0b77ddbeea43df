---------------------------- MODULE FrameworkProofs ----------------------------
(***************************************************************************)
(* Proofs about the event driven framework: the event queue of an active   *)
(* object, for every set of events and every set of ring lengths; its      *)
(* hierarchical state machine, for every hierarchy and every set of        *)
(* transitions, and the fuzzing example that runs on it; time events, for  *)
(* every set of them, of start times and periods.                          *)
(*                                                                         *)
(* The inductive invariant of the queue is QueueIsSound: the type of the   *)
(* indices keeps every access inside the ring, the position of the head    *)
(* behind the tail says which entries of the ring are the queued events.   *)
(*                                                                         *)
(* That of the machine is HsmInv: the active states are the configuration  *)
(* of a place of the hierarchy, and the actions still to run lead from it  *)
(* to the target.  The way up from a state exists and is unique because no *)
(* state is its own superstate, which stands in for induction.  That of    *)
(* the fuzzing example is AccountInv, which also says what holds while the *)
(* machine is on its way to a state.                                       *)
(*                                                                         *)
(* Time events keep their types, no armed one is ever off the lists, the   *)
(* lists stay lists, and a walk counts each once per linking.  The timers  *)
(* of the platform are time events, so that the same holds of them.        *)
(***************************************************************************)
EXTENDS EventQueue, FuzzExample, PlatformTimer, SequenceTheorems, WellFoundedInduction, TLAPS

(* Positions met when walking counter-clockwise from the tail are in the   *)
(* ring and, within one turn, distinct.                                    *)
LEMMA BehindFacts ==
  ASSUME end \in Nat, tail \in Slots, NEW k \in 0 .. end - 1
  PROVE  /\ Behind(k) \in Slots
         /\ Behind(0) = tail
         /\ Behind(k + 1) = PrevSlot(Behind(k))
         /\ \A j \in 0 .. end - 1 : j # k => Behind(j) # Behind(k)
BY DEF Behind, Slots, PrevSlot

LEMMA InitIInv == QueueInit => QueueIsSound
<1> SUFFICES ASSUME QueueInit PROVE QueueIsSound
  OBVIOUS
<1>1. end \in Nat
  BY LengthsAssumption DEF QueueInit
<1>2. n_free \in 0 .. end + 1 /\ n_min \in 0 .. end + 1
  BY <1>1 DEF QueueInit
<1>3. ring \in [Slots -> Event \cup {NO_EVENT}]
  BY DEF QueueInit
<1>4. QueueTypeOK
  BY <1>2, <1>3 DEF QueueInit, QueueTypeOK
<1>5. RingConsistent
  BY <1>1, NullAssumption DEF QueueInit, RingConsistent, InRing, Behind
<1> QED
  BY <1>4, <1>5 DEF QueueIsSound

(* A queue with a front event and a free entry has a ring, so the indices  *)
(* the posts use are positions of it.                                      *)
LEMMA RoomInRing ==
  ASSUME QueueIsSound, front_e # NO_EVENT, n_free > 0
  PROVE  /\ end \in Nat \ {0}
         /\ n_free \in 1 .. end
         /\ head \in Slots /\ tail \in Slots
         /\ PrevSlot(head) \in Slots /\ NextSlot(tail) \in Slots
<1>1. end \in Nat /\ n_free \in 1 .. end
  BY LengthsAssumption DEF QueueIsSound, QueueTypeOK, RingConsistent
<1> QED
  BY <1>1 DEF QueueIsSound, QueueTypeOK, Slots, PrevSlot, NextSlot

LEMMA ReserveType ==
  ASSUME QueueIsSound, Reserve
  PROVE  /\ n_free' \in 0 .. end + 1
         /\ n_min' \in 0 .. end + 1
         /\ n_free' = n_free - 1
         /\ n_min' <= n_free'
BY LengthsAssumption DEF QueueIsSound, QueueTypeOK, RingConsistent, Reserve, UpdateMin

LEMMA PostFIFOType ==
  ASSUME QueueIsSound, NEW e \in Event, PostFIFO(e)
  PROVE  QueueTypeOK'
<1>1. /\ n_free' \in 0 .. end + 1 /\ n_min' \in 0 .. end + 1
      /\ UNCHANGED <<end, tail, ret, failed>> /\ Slots' = Slots
  BY ReserveType DEF PostFIFO, Slots
<1>2. CASE front_e = NO_EVENT
  BY <1>1, <1>2 DEF QueueIsSound, QueueTypeOK, PostFIFO
<1>3. CASE front_e # NO_EVENT
  <2>1. head' \in Slots /\ ring' \in [Slots -> Event \cup {NO_EVENT}] /\ front_e' = front_e
    BY <1>3, RoomInRing DEF QueueIsSound, QueueTypeOK, PostFIFO, Reserve
  <2> QED
    BY <1>1, <2>1 DEF QueueIsSound, QueueTypeOK
<1> QED
  BY <1>2, <1>3

(* A FIFO post preserves the invariant.                                    *)
LEMMA PostFIFOIInv ==
  ASSUME QueueIsSound, NEW e \in Event, PostFIFO(e)
  PROVE  QueueIsSound'
<1> USE DEF QueueIsSound
<1>1. end \in Nat /\ end' = end
  BY LengthsAssumption DEF QueueTypeOK, PostFIFO
<1>2. QueueTypeOK'
  BY PostFIFOType
<1>3. CASE front_e = NO_EVENT
  <2>1. front_e' = e /\ e # NO_EVENT /\ n_free = end + 1 /\ n_free' = end
    BY <1>1, <1>3, NullAssumption DEF PostFIFO, Reserve, RingConsistent, QueueTypeOK
  <2>2. InRing = 0 /\ InRing' = 0
    BY <1>1, <1>3, <2>1 DEF InRing
  <2>3. UNCHANGED <<head, tail, ring>>
    BY <1>3 DEF PostFIFO
  <2>4. (n_min <= n_free)'
    BY <1>1 DEF PostFIFO, Reserve, UpdateMin, QueueTypeOK
  <2> QED
    BY <1>1, <1>2, <2>1, <2>2, <2>3, <2>4 DEF RingConsistent, Behind
<1>4. CASE front_e # NO_EVENT
  <2>1. front_e' = front_e /\ n_free \in 1 .. end /\ n_free' = n_free - 1
    BY <1>1, <1>4 DEF PostFIFO, Reserve, RingConsistent, QueueTypeOK
  <2>2. /\ InRing = end - n_free
        /\ InRing' = InRing + 1
        /\ InRing \in 0 .. end - 1
    BY <1>1, <1>4, <2>1 DEF InRing
  <2>3. tail \in Slots /\ tail' = tail /\ \A k : Behind(k)' = Behind(k)
    BY <1>1, <2>1 DEF PostFIFO, QueueTypeOK, Slots, Behind
  <2>4. head = Behind(InRing) /\ head \in Slots
    BY <1>1, <2>2, <2>3, BehindFacts DEF RingConsistent
  <2>5. head' = Behind(InRing + 1)
    BY <1>1, <1>4, <2>2, <2>3, <2>4, BehindFacts DEF PostFIFO
  <2>6. ring' = [ring EXCEPT ![head] = e] /\ e # NO_EVENT
    BY <1>4, NullAssumption DEF PostFIFO
  <2>7. ASSUME NEW k \in 0 .. InRing PROVE ring'[Behind(k)] # NO_EVENT
    <3>1. k \in 0 .. end - 1 /\ Behind(k) \in Slots
      BY <1>1, <2>2, <2>3, BehindFacts
    <3>2. CASE k = InRing
      BY <2>4, <2>6, <3>1, <3>2 DEF QueueTypeOK
    <3>3. CASE k # InRing
      BY <2>2, <2>6, <3>1, <3>3 DEF RingConsistent, QueueTypeOK
    <3> QED
      BY <3>2, <3>3
  <2>8. (n_min <= n_free)'
    BY <1>1 DEF PostFIFO, Reserve, UpdateMin, QueueTypeOK
  <2>9. (\A k \in 0 .. InRing - 1 : ring[Behind(k)] # NO_EVENT)'
    BY <2>2, <2>3, <2>7
  <2>10. (front_e = NO_EVENT <=> n_free = end + 1)'
    BY <1>1, <1>4, <2>1
  <2>11. (head = Behind(InRing))'
    BY <2>2, <2>3, <2>5
  <2> QED
    BY <1>2, <2>8, <2>9, <2>10, <2>11 DEF RingConsistent
<1> QED
  BY <1>3, <1>4

LEMMA PostLIFOType ==
  ASSUME QueueIsSound, NEW e \in Event, PostLIFO(e)
  PROVE  QueueTypeOK'
<1>1. /\ n_free' \in 0 .. end + 1 /\ n_min' \in 0 .. end + 1
      /\ UNCHANGED <<end, head, ret, failed>> /\ Slots' = Slots
  BY ReserveType DEF PostLIFO, Slots
<1>2. CASE front_e = NO_EVENT
  BY <1>1, <1>2 DEF QueueIsSound, QueueTypeOK, PostLIFO
<1>3. CASE front_e # NO_EVENT
  <2>1. tail' \in Slots /\ ring' \in [Slots -> Event \cup {NO_EVENT}] /\ front_e' = e
    BY <1>3, RoomInRing DEF QueueIsSound, QueueTypeOK, PostLIFO, Reserve
  <2> QED
    BY <1>1, <2>1 DEF QueueIsSound, QueueTypeOK
<1> QED
  BY <1>2, <1>3

(* Moving the tail one position clockwise puts every position one step     *)
(* further behind it, and the new tail where the old turn ended.           *)
LEMMA BehindNext ==
  ASSUME end \in Nat, tail \in Slots, tail' = NextSlot(tail), end' = end
  PROVE  /\ Behind(0)' = NextSlot(tail)
         /\ \A k \in 0 .. end - 1 : Behind(k + 1)' = Behind(k)
         /\ \A k \in 0 .. end - 2 : Behind(k) # NextSlot(tail)
BY DEF Behind, Slots, NextSlot

(* A LIFO post preserves the invariant.                                    *)
LEMMA PostLIFOIInv ==
  ASSUME QueueIsSound, NEW e \in Event, PostLIFO(e)
  PROVE  QueueIsSound'
<1> USE DEF QueueIsSound
<1>1. end \in Nat /\ end' = end /\ front_e' = e /\ e # NO_EVENT
  BY LengthsAssumption, NullAssumption DEF QueueTypeOK, PostLIFO
<1>2. QueueTypeOK' /\ (n_min <= n_free)' /\ n_free' = n_free - 1 /\ n_free > 0
  BY PostLIFOType, ReserveType DEF PostLIFO, Reserve
<1>3. CASE front_e = NO_EVENT
  <2>1. n_free = end + 1 /\ n_free' = end
    BY <1>1, <1>2, <1>3 DEF RingConsistent
  <2>2. InRing = 0 /\ InRing' = 0
    BY <1>1, <1>3, <2>1 DEF InRing
  <2>3. UNCHANGED <<head, tail, ring>>
    BY <1>3 DEF PostLIFO
  <2> QED
    BY <1>1, <1>2, <2>1, <2>2, <2>3 DEF RingConsistent, Behind
<1>4. CASE front_e # NO_EVENT
  <2>1. /\ end \in Nat \ {0} /\ n_free \in 1 .. end
        /\ tail \in Slots /\ NextSlot(tail) \in Slots
    BY <1>2, <1>4, RoomInRing
  <2>2. /\ InRing = end - n_free
        /\ InRing' = InRing + 1
        /\ InRing \in 0 .. end - 1
    BY <1>1, <1>2, <1>4, <2>1 DEF InRing
  <2>3. /\ tail' = NextSlot(tail) /\ head' = head
        /\ ring' = [ring EXCEPT ![NextSlot(tail)] = front_e]
    BY <1>4 DEF PostLIFO
  <2>4. (head = Behind(InRing))'
    BY <1>1, <2>1, <2>2, <2>3, BehindNext DEF RingConsistent
  <2>5. ASSUME NEW k \in 0 .. InRing PROVE (ring[Behind(k)] # NO_EVENT)'
    <3>1. CASE k = 0
      BY <1>1, <1>4, <2>1, <2>3, <3>1, BehindNext DEF QueueTypeOK
    <3>2. CASE k # 0
      <4>1. k - 1 \in 0 .. InRing - 1 /\ k - 1 \in 0 .. end - 2
        BY <1>1, <2>1, <2>2, <3>2
      <4>2. Behind(k)' = Behind(k - 1) /\ Behind(k - 1) # NextSlot(tail)
        BY <1>1, <2>1, <2>3, <4>1, BehindNext
      <4>3. ring[Behind(k - 1)] # NO_EVENT /\ Behind(k - 1) \in Slots
        BY <1>1, <2>1, <4>1, BehindFacts DEF RingConsistent
      <4> QED
        BY <2>1, <2>3, <4>2, <4>3 DEF QueueTypeOK
    <3> QED
      BY <3>1, <3>2
  <2>6. (\A k \in 0 .. InRing - 1 : ring[Behind(k)] # NO_EVENT)'
    BY <2>2, <2>5
  <2>7. (front_e = NO_EVENT <=> n_free = end + 1)'
    BY <1>1, <1>2, <2>1
  <2> QED
    BY <1>2, <2>4, <2>6, <2>7 DEF RingConsistent
<1> QED
  BY <1>3, <1>4

(* Taking the front event preserves the invariant.                         *)
LEMMA GetIInv ==
  ASSUME QueueIsSound, Get
  PROVE  QueueIsSound'
<1> USE DEF QueueIsSound
<1>1. end \in Nat /\ UNCHANGED <<ring, end, head, n_min, failed>> /\ Slots' = Slots
  BY LengthsAssumption DEF QueueTypeOK, Get, Slots
<1>2. CASE front_e = NO_EVENT
  BY <1>1, <1>2 DEF Get, QueueTypeOK, RingConsistent, InRing, Behind
<1>3. CASE front_e # NO_EVENT /\ ~HasRingEvent
  <2>1. n_free' = end + 1 /\ front_e' = NO_EVENT /\ tail' = tail /\ ret' = front_e /\ n_free = end
    BY <1>1, <1>3 DEF Get, HasRingEvent, QueueTypeOK, RingConsistent
  <2>2. InRing = 0 /\ InRing' = 0
    BY <1>1, <1>3, <2>1 DEF InRing
  <2> QED
    BY <1>1, <2>1, <2>2 DEF QueueTypeOK, RingConsistent, Behind
<1>4. CASE front_e # NO_EVENT /\ HasRingEvent
  <2>1. /\ n_free' = n_free + 1 /\ front_e' = ring[tail] /\ tail' = PrevSlot(tail)
        /\ ret' = front_e /\ n_free \in 0 .. end - 1
    BY <1>1, <1>4 DEF Get, HasRingEvent, QueueTypeOK
  <2>2. tail \in Slots /\ PrevSlot(tail) \in Slots
    BY <1>1, <2>1 DEF QueueTypeOK, Slots, PrevSlot
  <2>3. InRing = end - n_free /\ InRing \in 1 .. end
    BY <1>1, <1>4, <2>1 DEF InRing
  <2>4. \A k \in 0 .. end - 1 : Behind(k)' = Behind(k + 1)
    BY <1>1, <2>1, <2>2 DEF Behind, PrevSlot, Slots
  <2>5. front_e' \in Event
    <3>1. Behind(0) = tail
      BY <1>1, <2>2 DEF Behind, Slots
    <3>2. ring[tail] # NO_EVENT
      BY <2>3, <3>1 DEF RingConsistent
    <3> QED
      BY <2>1, <2>2, <3>2 DEF QueueTypeOK
  <2>6. InRing' = InRing - 1 /\ front_e' # NO_EVENT
    BY <1>1, <2>1, <2>3, <2>5, NullAssumption DEF InRing
  <2>7. QueueTypeOK'
    BY <1>1, <2>1, <2>2, <2>5 DEF QueueTypeOK
  <2>8. (head = Behind(InRing))'
    BY <1>1, <2>3, <2>4, <2>6 DEF RingConsistent
  <2>9. (\A k \in 0 .. InRing - 1 : ring[Behind(k)] # NO_EVENT)'
    BY <1>1, <2>3, <2>4, <2>6 DEF RingConsistent
  <2>10. (front_e = NO_EVENT <=> n_free = end + 1)' /\ (n_min <= n_free)'
    BY <1>1, <2>1, <2>6 DEF QueueTypeOK, RingConsistent
  <2> QED
    BY <2>7, <2>8, <2>9, <2>10 DEF RingConsistent
<1> QED
  BY <1>2, <1>3, <1>4

LEMMA NextIInv == QueueIsSound /\ [QueueNext]_queueVars => QueueIsSound'
<1> SUFFICES ASSUME QueueIsSound, [QueueNext]_queueVars PROVE QueueIsSound'
  OBVIOUS
<1>1. ASSUME NEW e \in Event, PostFIFO(e) PROVE QueueIsSound'
  BY <1>1, PostFIFOIInv
<1>2. ASSUME NEW e \in Event, PostLIFO(e) PROVE QueueIsSound'
  BY <1>2, PostLIFOIInv
<1>3. CASE PostOverflow
  BY <1>3 DEF QueueIsSound, PostOverflow, QueueTypeOK, Slots, RingConsistent, InRing, Behind
<1>4. CASE Get
  BY <1>4, GetIInv
<1>5. CASE UNCHANGED queueVars
  BY <1>5 DEF queueVars, QueueIsSound, QueueTypeOK, Slots, RingConsistent, InRing, Behind
<1> QED
  BY <1>1, <1>2, <1>3, <1>4, <1>5 DEF QueueNext

(* The indices and counters always have their types: in particular every   *)
(* access of the posts and the get falls inside the ring storage.          *)
THEOREM QueueTypeCorrect == QueueSpec => []QueueTypeOK
<1>1. QueueIsSound => QueueTypeOK
  BY DEF QueueIsSound
<1> QED
  BY <1>1, InitIInv, NextIInv, PTL DEF QueueSpec

(* The head, the tail and the free count always agree, so the assertions   *)
(* in EDF_eventQueue_get cannot fail, whatever the mix of posts and gets.  *)
THEOREM RingAlwaysConsistent == QueueSpec => []RingConsistent
<1>1. QueueIsSound => RingConsistent
  BY DEF QueueIsSound
<1> QED
  BY <1>1, InitIInv, NextIInv, PTL DEF QueueSpec

(* Both at once: whatever a post writes or a get reads is an entry of the  *)
(* ring, and one that is free to be written or holds an event to be read.  *)
THEOREM QueueStaysSound == QueueSpec => []QueueIsSound
BY InitIInv, NextIInv, PTL DEF QueueSpec

-----------------------------------------------------------------------------
(* The queued events form a sequence as long as the used entries.          *)
LEMMA ContentsSeq ==
  ASSUME QueueIsSound
  PROVE  /\ Contents \in Seq(Event)
         /\ Len(Contents) = end + 1 - n_free
         /\ end + 1 - n_free \in 0 .. end + 1
         /\ Contents = <<>> <=> front_e = NO_EVENT
<1> USE DEF QueueIsSound
<1>1. end \in Nat /\ n_free \in 0 .. end + 1
  BY LengthsAssumption DEF QueueTypeOK
<1>2. ASSUME NEW i \in 1 .. end + 1 - n_free
      PROVE  (IF i = 1 THEN front_e ELSE ring[Behind(i - 2)]) \in Event
  <2>1. front_e \in Event
    BY <1>1, <1>2 DEF QueueTypeOK, RingConsistent
  <2>2. CASE i # 1
    <3>1. i - 2 \in 0 .. InRing - 1 /\ i - 2 \in 0 .. end - 1 /\ tail \in Slots
      BY <1>1, <2>1, <2>2, NullAssumption DEF InRing, QueueTypeOK, Slots
    <3>2. Behind(i - 2) \in Slots
      BY <1>1, <3>1, BehindFacts
    <3> QED
      BY <2>2, <3>1, <3>2 DEF RingConsistent, QueueTypeOK
  <2> QED
    BY <2>1, <2>2
<1>3. Contents \in [1 .. end + 1 - n_free -> Event] /\ end + 1 - n_free \in Nat
  BY <1>1, <1>2 DEF Contents
<1>4. Contents \in Seq(Event) /\ Len(Contents) = end + 1 - n_free
  BY <1>3, LenProperties, IsASeq
<1>5. Contents = <<>> <=> front_e = NO_EVENT
  BY <1>1, <1>4, EmptySeq DEF RingConsistent
<1> QED
  BY <1>1, <1>4, <1>5

(* The same of the next state.                                             *)
LEMMA ContentsSeqNext ==
  QueueIsSound' => (Contents \in Seq(Event) /\ Len(Contents) = end + 1 - n_free)'
<1>1. QueueIsSound => Contents \in Seq(Event) /\ Len(Contents) = end + 1 - n_free
  BY ContentsSeq
<1> QED
  BY <1>1, PTL

LEMMA PostFIFORefines ==
  ASSUME QueueIsSound, NEW e \in Event, PostFIFO(e)
  PROVE  Deque!PostBack(e)
<1> USE DEF QueueIsSound
<1>1. end \in Nat /\ n_free > 0 /\ n_free' = n_free - 1 /\ end' = end /\ tail' = tail
  BY LengthsAssumption DEF PostFIFO, Reserve, QueueTypeOK
<1>2. /\ Contents \in Seq(Event) /\ Len(Contents) = end + 1 - n_free
      /\ end + 1 - n_free \in 0 .. end + 1 /\ n_free \in 0 .. end + 1
  BY ContentsSeq DEF QueueTypeOK
<1>3. Contents' \in Seq(Event) /\ Len(Contents') = end + 1 - n_free + 1
  <2>1. QueueIsSound' /\ end' + 1 - n_free' = end + 1 - n_free + 1
    BY <1>1, <1>2, PostFIFOIInv
  <2>2. Contents' \in Seq(Event) /\ Len(Contents') = end' + 1 - n_free'
    BY <2>1, ContentsSeqNext
  <2> QED
    BY <2>1, <2>2
<1>4. ASSUME NEW i \in 1 .. end + 1 - n_free + 1
      PROVE  Contents'[i] = Append(Contents, e)[i]
  <2>1. Contents'[i] = IF i = 1 THEN front_e' ELSE ring'[Behind(i - 2)']
    BY <1>1, <1>2 DEF Contents
  <2>2. Append(Contents, e)[i] = IF i = end + 1 - n_free + 1 THEN e ELSE Contents[i]
    BY <1>2, AppendProperties
  <2>3. Behind(i - 2)' = Behind(i - 2)
    BY <1>1 DEF Behind
  <2>4. i # end + 1 - n_free + 1 =>
          Contents[i] = IF i = 1 THEN front_e ELSE ring[Behind(i - 2)]
    BY <1>2 DEF Contents
  <2>5. CASE front_e = NO_EVENT
    <3>1. n_free = end + 1 /\ front_e' = e
      BY <1>1, <2>5 DEF RingConsistent, PostFIFO
    <3>2. i = 1
      BY <1>1, <3>1
    <3> QED
      BY <1>1, <2>1, <2>2, <3>1, <3>2
  <2>6. CASE front_e # NO_EVENT
    <3>1. /\ front_e' = front_e /\ ring' = [ring EXCEPT ![head] = e]
          /\ end \in Nat \ {0} /\ n_free \in 1 .. end
          /\ head \in Slots /\ tail \in Slots
          /\ InRing = end - n_free /\ head = Behind(InRing)
      BY <1>1, <2>6, RoomInRing DEF PostFIFO, RingConsistent, InRing
    <3>2. CASE i = 1
      BY <2>1, <2>2, <2>4, <3>1, <3>2, <1>1
    <3>3. CASE i # 1
      <4>1. i - 2 \in 0 .. end - 1 /\ InRing \in 0 .. end - 1
        BY <1>1, <3>1, <3>3
      <4>2. Behind(i - 2) \in Slots /\ (i - 2 # InRing => Behind(i - 2) # head)
        BY <1>1, <3>1, <4>1, BehindFacts
      <4>3. i - 2 = InRing <=> i = end + 1 - n_free + 1
        BY <1>1, <3>1
      <4>4. ring \in [Slots -> Event \cup {NO_EVENT}]
        BY DEF QueueTypeOK
      <4> QED
        BY <2>1, <2>2, <2>3, <2>4, <3>1, <3>3, <4>2, <4>3, <4>4
    <3> QED
      BY <3>2, <3>3
  <2> QED
    BY <2>5, <2>6
<1>5. Contents' = Append(Contents, e)
  <2>1. Append(Contents, e) \in Seq(Event) /\ Len(Append(Contents, e)) = Len(Contents')
    BY <1>2, <1>3, AppendProperties
  <2> QED
    BY <1>3, <1>4, <2>1, SeqEqual
<1>6. Deque!Lower(end + 1 - Len(Contents) - 1)
  <2>1. end + 1 - Len(Contents) - 1 = n_free - 1
    BY <1>1, <1>2
  <2> QED
    BY <1>2, <2>1 DEF Deque!Lower, PostFIFO, Reserve, UpdateMin, QueueTypeOK
<1> QED
  BY <1>1, <1>2, <1>5, <1>6 DEF Deque!PostBack, PostFIFO, Reserve

LEMMA PostLIFORefines ==
  ASSUME QueueIsSound, NEW e \in Event, PostLIFO(e)
  PROVE  Deque!PostFront(e)
<1> USE DEF QueueIsSound
<1>1. end \in Nat /\ n_free > 0 /\ n_free' = n_free - 1 /\ end' = end /\ front_e' = e
  BY LengthsAssumption DEF PostLIFO, Reserve, QueueTypeOK
<1>2. /\ Contents \in Seq(Event) /\ Len(Contents) = end + 1 - n_free
      /\ end + 1 - n_free \in 0 .. end + 1 /\ n_free \in 0 .. end + 1
  BY ContentsSeq DEF QueueTypeOK
<1>3. Contents' \in Seq(Event) /\ Len(Contents') = end + 1 - n_free + 1
  <2>1. QueueIsSound' /\ end' + 1 - n_free' = end + 1 - n_free + 1
    BY <1>1, <1>2, PostLIFOIInv
  <2>2. Contents' \in Seq(Event) /\ Len(Contents') = end' + 1 - n_free'
    BY <2>1, ContentsSeqNext
  <2> QED
    BY <2>1, <2>2
<1>4. /\ <<e>> \in Seq(Event) /\ Len(<<e>>) = 1 /\ <<e>>[1] = e
  OBVIOUS
<1>5. ASSUME NEW i \in 1 .. end + 1 - n_free + 1
      PROVE  Contents'[i] = (<<e>> \o Contents)[i]
  <2>1. Contents'[i] = IF i = 1 THEN e ELSE ring'[Behind(i - 2)']
    BY <1>1, <1>2 DEF Contents
  <2>2. (<<e>> \o Contents)[i] = IF i = 1 THEN e ELSE Contents[i - 1]
    BY <1>2, <1>4, ConcatProperties
  <2>3. i # 1 => Contents[i - 1] = IF i = 2 THEN front_e ELSE ring[Behind(i - 3)]
    BY <1>2 DEF Contents
  <2>4. CASE i # 1
    <3>1. front_e # NO_EVENT
      BY <1>1, <1>2, <2>4 DEF RingConsistent
    <3>2. /\ ring' = [ring EXCEPT ![NextSlot(tail)] = front_e]
          /\ tail' = NextSlot(tail)
          /\ end \in Nat \ {0} /\ n_free \in 1 .. end
          /\ tail \in Slots /\ NextSlot(tail) \in Slots
      BY <1>1, <3>1, RoomInRing DEF PostLIFO
    <3>3. ring \in [Slots -> Event \cup {NO_EVENT}]
      BY DEF QueueTypeOK
    <3>4. CASE i = 2
      <4>1. Behind(i - 2)' = NextSlot(tail)
        BY <1>1, <3>2, <3>4, BehindNext
      <4> QED
        BY <2>1, <2>2, <2>3, <2>4, <3>2, <3>3, <3>4, <4>1
    <3>5. CASE i # 2
      <4>1. i - 3 \in 0 .. end - 2 /\ i - 3 \in 0 .. end - 1 /\ i - 2 = (i - 3) + 1
        BY <1>1, <2>4, <3>2, <3>5
      <4>2. Behind(i - 2)' = Behind(i - 3) /\ Behind(i - 3) # NextSlot(tail)
        BY <1>1, <3>2, <4>1, BehindNext
      <4>3. Behind(i - 3) \in Slots
        BY <1>1, <3>2, <4>1, BehindFacts
      <4> QED
        BY <2>1, <2>2, <2>3, <2>4, <3>2, <3>3, <3>5, <4>2, <4>3
    <3> QED
      BY <3>4, <3>5
  <2> QED
    BY <2>1, <2>2, <2>4
<1>6. Contents' = <<e>> \o Contents
  <2>1. <<e>> \o Contents \in Seq(Event) /\ Len(<<e>> \o Contents) = Len(Contents')
    BY <1>2, <1>3, <1>4, ConcatProperties
  <2> QED
    BY <1>3, <1>5, <2>1, SeqEqual
<1>7. Deque!Lower(end + 1 - Len(Contents) - 1)
  <2>1. end + 1 - Len(Contents) - 1 = n_free - 1
    BY <1>1, <1>2
  <2> QED
    BY <1>2, <2>1 DEF Deque!Lower, PostLIFO, Reserve, UpdateMin, QueueTypeOK
<1> QED
  BY <1>1, <1>2, <1>6, <1>7 DEF Deque!PostFront, PostLIFO, Reserve

LEMMA GetRefines ==
  ASSUME QueueIsSound, Get
  PROVE  Deque!Take \/ Deque!TakeNothing
<1> USE DEF QueueIsSound
<1>1. end \in Nat /\ UNCHANGED <<ring, end, n_min, failed>> /\ ret' = front_e /\ ~failed
  BY LengthsAssumption DEF Get, QueueTypeOK
<1>2. /\ Contents \in Seq(Event) /\ Len(Contents) = end + 1 - n_free
      /\ end + 1 - n_free \in 0 .. end + 1 /\ n_free \in 0 .. end + 1
      /\ Contents = <<>> <=> front_e = NO_EVENT
  BY ContentsSeq DEF QueueTypeOK
<1>3. CASE front_e = NO_EVENT
  <2>1. Contents' = Contents
    BY <1>1, <1>3 DEF Get, Contents, Behind
  <2> QED
    BY <1>1, <1>2, <1>3, <2>1 DEF Deque!TakeNothing
<1>4. CASE front_e # NO_EVENT
  <2>1. n_free' = n_free + 1 /\ end' + 1 - n_free' = end + 1 - n_free - 1
    BY <1>1, <1>2, <1>4 DEF Get
  <2>2. Contents' \in Seq(Event) /\ Len(Contents') = end + 1 - n_free - 1
    <3>1. QueueIsSound'
      BY GetIInv
    <3> QED
      BY <2>1, <3>1, ContentsSeqNext
  <2>3. /\ Head(Contents) = Contents[1]
        /\ Tail(Contents) \in Seq(Event) /\ Len(Tail(Contents)) = end + 1 - n_free - 1
        /\ \A i \in 1 .. end + 1 - n_free - 1 : Tail(Contents)[i] = Contents[i + 1]
    <3>1. Contents # <<>>
      BY <1>2, <1>4
    <3>2. Tail(Contents) \in Seq(Event) /\ Len(Tail(Contents)) = Len(Contents) - 1
      BY <1>2, <3>1, HeadTailProperties
    <3>3. \A i \in 1 .. Len(Tail(Contents)) : Tail(Contents)[i] = Contents[i + 1]
      BY <1>2, <3>1, HeadTailProperties
    <3>4. Head(Contents) = Contents[1]
      BY <1>2, <3>1
    <3>5. Len(Contents) - 1 = end + 1 - n_free - 1
      BY <1>1, <1>2
    <3> QED
      BY <3>2, <3>3, <3>4, <3>5
  <2>4. Contents[1] = front_e
    BY <1>1, <1>2, <1>4 DEF Contents, RingConsistent, QueueTypeOK
  <2>5. ASSUME NEW i \in 1 .. end + 1 - n_free - 1
        PROVE  Contents'[i] = Contents[i + 1]
    <3>1. HasRingEvent
      BY <1>1, <1>2 DEF HasRingEvent
    <3>2. front_e' = ring[tail] /\ tail' = PrevSlot(tail)
      BY <1>4, <3>1 DEF Get
    <3>3. Contents'[i] = IF i = 1 THEN front_e' ELSE ring[Behind(i - 2)']
      BY <1>1, <2>1 DEF Contents
    <3>4. Contents[i + 1] = ring[Behind(i - 1)]
      BY <1>1, <1>2 DEF Contents
    <3>5. tail \in Slots /\ i - 1 \in 0 .. end - 1
      BY <1>1, <1>2, <3>1 DEF HasRingEvent, QueueTypeOK, Slots
    <3>6. CASE i = 1
      BY <1>1, <3>2, <3>3, <3>4, <3>5, <3>6, BehindFacts
    <3>7. CASE i # 1
      <4>1. Behind(i - 2)' = Behind(i - 1)
        BY <1>1, <1>2, <3>2, <3>5, <3>7 DEF Behind, PrevSlot, Slots
      <4> QED
        BY <3>3, <3>4, <3>7, <4>1
    <3> QED
      BY <3>6, <3>7
  <2>6. Contents' = Tail(Contents)
    BY <2>2, <2>3, <2>5, SeqEqual
  <2> QED
    BY <1>1, <1>2, <1>4, <2>3, <2>4, <2>6 DEF Deque!Take
<1> QED
  BY <1>3, <1>4

(* The ring buffer implements the bounded deque: every event posted is     *)
(* delivered exactly once, in FIFO order behind and LIFO order in front of *)
(* those already queued, for every ring length.                            *)
THEOREM QueueImplementsDeque == QueueSpec => ImplementsDeque
<1>1. QueueInit => Deque!Init
  <2> SUFFICES ASSUME QueueInit PROVE Deque!Init
    OBVIOUS
  <2>1. QueueIsSound /\ front_e = NO_EVENT
    BY InitIInv DEF QueueInit
  <2>2. Contents = <<>>
    BY <2>1, ContentsSeq
  <2> QED
    BY <2>2 DEF QueueInit, Deque!Init
<1>2. ASSUME QueueIsSound, [QueueNext]_queueVars PROVE [Deque!Next]_(Deque!vars)
  <2>1. ASSUME NEW e \in Event, PostFIFO(e) PROVE Deque!Next
    BY <1>2, <2>1, PostFIFORefines DEF Deque!Next
  <2>2. ASSUME NEW e \in Event, PostLIFO(e) PROVE Deque!Next
    BY <1>2, <2>2, PostLIFORefines DEF Deque!Next
  <2>3. CASE PostOverflow
    <3>1. Len(Contents) = end + 1 /\ Contents' = Contents
      BY <1>2, <2>3, ContentsSeq, LengthsAssumption
         DEF QueueIsSound, QueueTypeOK, PostOverflow, Contents, Behind
    <3> QED
      BY <2>3, <3>1 DEF PostOverflow, Deque!Refuse, Deque!Next
  <2>4. CASE Get
    BY <1>2, <2>4, GetRefines DEF Deque!Next
  <2>5. CASE UNCHANGED queueVars
    BY <2>5 DEF queueVars, Deque!vars, Contents, Behind
  <2> QED
    BY <1>2, <2>1, <2>2, <2>3, <2>4, <2>5 DEF QueueNext
<1> QED
  BY <1>1, <1>2, InitIInv, NextIInv, PTL DEF QueueSpec, ImplementsDeque, Deque!Spec

-----------------------------------------------------------------------------
(* The hierarchy.  A place is a state or the top state, which is where the *)
(* machine is before it starts.                                            *)

Place == State \cup {TOP}

(* q leads from s to the top state, from each state to its superstate. *)
Climbs(s, q) ==
  /\ q \in Seq(Place)
  /\ Len(q) > 0
  /\ q[1] = s
  /\ q[Len(q)] = TOP
  /\ \A i \in 1..Len(q) - 1 : q[i] \in State /\ q[i + 1] = Parent[q[i]]

LEMMA ParentIsPlace == \A s \in State : Parent[s] \in Place /\ s # TOP
BY HierarchyAssumption DEF Place

LEMMA ClimbFromTop ==
  /\ Climbs(TOP, <<TOP>>)
  /\ \A q : Climbs(TOP, q) => q = <<TOP>>
<1>1. Climbs(TOP, <<TOP>>)
  BY DEF Climbs, Place
<1>2. ASSUME NEW q, Climbs(TOP, q) PROVE q = <<TOP>>
  <2>1. q \in Seq(Place) /\ Len(q) \in Nat /\ Len(q) > 0 /\ q[1] = TOP
    BY <1>2 DEF Climbs
  <2>2. Len(q) = 1
    <3>1. CASE Len(q) > 1
      <4>1. 1 \in 1..Len(q) - 1
        BY <2>1, <3>1
      <4> QED  BY <2>1, <4>1, <1>2, HierarchyAssumption DEF Climbs
    <3> QED  BY <2>1, <3>1
  <2> QED  BY <2>1, <2>2
<1> QED  BY <1>1, <1>2

(* The climb from a state is the state and the climb from its superstate. *)
LEMMA ClimbShrinks ==
  ASSUME NEW s \in State, NEW q, Climbs(s, q)
  PROVE  Climbs(Parent[s], Tail(q)) /\ q = <<s>> \o Tail(q)
<1>1. q \in Seq(Place) /\ Len(q) \in Nat /\ Len(q) > 0 /\ q[1] = s /\ q[Len(q)] = TOP
  BY DEF Climbs
<1>2. Len(q) > 1
  BY <1>1, ParentIsPlace
<1>3. /\ Tail(q) \in Seq(Place) /\ Len(Tail(q)) = Len(q) - 1
      /\ \A i \in 1..Len(q) - 1 : Tail(q)[i] = q[i + 1]
  BY <1>1, <1>2
<1>4. \A i \in 1..Len(q) - 1 : q[i] \in State /\ q[i + 1] = Parent[q[i]]
  BY DEF Climbs
<1> PICK n \in Nat : n = Len(q) - 1 /\ n > 0
  BY <1>1, <1>2
<1>5. Tail(q)[1] = Parent[s]
  BY <1>1, <1>3, <1>4
<1>6. Tail(q)[n] = TOP
  BY <1>1, <1>3
<1>7. \A i \in 1..n - 1 : Tail(q)[i] \in State /\ Tail(q)[i + 1] = Parent[Tail(q)[i]]
  BY <1>3, <1>4
<1>8. Climbs(Parent[s], Tail(q))
  BY <1>1, <1>3, <1>5, <1>6, <1>7 DEF Climbs
<1>9. q = <<s>> \o Tail(q)
  BY <1>1, <1>2, HeadTailProperties
<1> QED  BY <1>8, <1>9

LEMMA ClimbGrows ==
  ASSUME NEW s \in State, NEW r, Climbs(Parent[s], r)
  PROVE  Climbs(s, <<s>> \o r)
<1>1. r \in Seq(Place) /\ Len(r) \in Nat /\ Len(r) > 0 /\ r[1] = Parent[s] /\ r[Len(r)] = TOP
  BY DEF Climbs
<1>2. \A i \in 1..Len(r) - 1 : r[i] \in State /\ r[i + 1] = Parent[r[i]]
  BY DEF Climbs
<1> PICK n \in Nat : n = Len(r) /\ n > 0
  BY <1>1
<1>3. PICK q : q = <<s>> \o r
  OBVIOUS
<1>4. q \in Seq(Place) /\ Len(q) = n + 1 /\ q[1] = s /\ \A i \in 1..n : q[i + 1] = r[i]
  BY <1>1, <1>3 DEF Place
<1>5. q[n + 1] = TOP
  BY <1>1, <1>4
<1>6. ASSUME NEW i \in 1..n PROVE q[i] \in State /\ q[i + 1] = Parent[q[i]]
  <2>1. CASE i = 1
    BY <2>1, <1>4, <1>1
  <2>2. CASE i # 1
    <3>1. i - 1 \in 1..n - 1 /\ q[i] = r[i - 1] /\ q[i + 1] = r[i]
      BY <2>2, <1>4
    <3> QED  BY <3>1, <1>2
  <2> QED  BY <2>1, <2>2
<1> QED  BY <1>3, <1>4, <1>5, <1>6 DEF Climbs

(* A set of states that holds, with a state, its superstate is empty: that *)
(* is how a property of the top state that a state has when its superstate *)
(* has it is shown of every state, here and below.                         *)
LEMMA ClimbExists == \A s \in Place : \E q : Climbs(s, q)
<1> DEFINE Lost == {s \in State : ~\E q : Climbs(s, q)}
<1>1. Lost = {}
  <2>1. SUFFICES ASSUME Lost # {} PROVE FALSE
    OBVIOUS
  <2>2. PICK s \in Lost : Parent[s] \notin Lost
    BY <2>1, NoCycleAssumption
  <2>3. PICK r : Climbs(Parent[s], r)
    BY <2>2, ParentIsPlace, ClimbFromTop DEF Place
  <2> QED  BY <2>2, <2>3, ClimbGrows
<1> QED  BY <1>1, ClimbFromTop DEF Place

LEMMA ClimbUnique ==
  \A s \in Place : \A q, r : Climbs(s, q) /\ Climbs(s, r) => q = r
<1> DEFINE Torn == {s \in State : \E q, r : Climbs(s, q) /\ Climbs(s, r) /\ q # r}
<1>1. Torn = {}
  <2>1. SUFFICES ASSUME Torn # {} PROVE FALSE
    OBVIOUS
  <2>2. PICK s \in Torn : Parent[s] \notin Torn
    BY <2>1, NoCycleAssumption
  <2>3. PICK q, r : Climbs(s, q) /\ Climbs(s, r) /\ q # r
    BY <2>2
  <2>4. /\ Climbs(Parent[s], Tail(q)) /\ q = <<s>> \o Tail(q)
        /\ Climbs(Parent[s], Tail(r)) /\ r = <<s>> \o Tail(r)
    BY <2>3, ClimbShrinks
  <2>5. Tail(q) = Tail(r)
    <3>1. CASE Parent[s] = TOP
      BY <3>1, <2>4, ClimbFromTop
    <3>2. CASE Parent[s] # TOP
      BY <3>2, <2>2, <2>4, ParentIsPlace DEF Place
    <3> QED  BY <3>1, <3>2
  <2> QED  BY <2>3, <2>4, <2>5
<1> QED  BY <1>1, ClimbFromTop DEF Place

LEMMA UpUnfolds ==
  /\ Up[TOP] = <<TOP>>
  /\ \A s \in State : Up[s] = <<s>> \o Up[Parent[s]]
<1> DEFINE Body(f) == [s \in State \cup {TOP} |->
                        IF s = TOP THEN <<TOP>> ELSE <<s>> \o f[Parent[s]]]
           climb == [s \in State \cup {TOP} |-> CHOOSE q : Climbs(s, q)]
<1>1. \A s \in Place : Climbs(s, climb[s])
  BY ClimbExists DEF Place
<1>2. climb[TOP] = <<TOP>>
  BY <1>1, ClimbFromTop DEF Place
<1>3. ASSUME NEW s \in State PROVE climb[s] = <<s>> \o climb[Parent[s]]
  <2>1. Climbs(Parent[s], climb[Parent[s]]) /\ Climbs(s, climb[s])
    BY <1>1, ParentIsPlace DEF Place
  <2>2. Climbs(s, <<s>> \o climb[Parent[s]])
    BY <2>1, ClimbGrows
  <2> QED  BY <2>1, <2>2, ClimbUnique DEF Place
<1>4. climb = Body(climb)
  <2>1. ASSUME NEW s \in State \cup {TOP} PROVE climb[s] = Body(climb)[s]
    BY <1>2, <1>3
  <2> QED  BY <2>1
<1> HIDE DEF climb
<1>5. Up = Body(Up)
  BY <1>4 DEF Up
<1> QED  BY <1>5, HierarchyAssumption

LEMMA UpClimbs == \A s \in Place : Climbs(s, Up[s])
<1> DEFINE Lost == {s \in State : ~Climbs(s, Up[s])}
<1>1. Lost = {}
  <2>1. SUFFICES ASSUME Lost # {} PROVE FALSE
    OBVIOUS
  <2>2. PICK s \in Lost : Parent[s] \notin Lost
    BY <2>1, NoCycleAssumption
  <2>3. Climbs(Parent[s], Up[Parent[s]])
    BY <2>2, ParentIsPlace, ClimbFromTop, UpUnfolds DEF Place
  <2> QED  BY <2>2, <2>3, ClimbGrows, UpUnfolds
<1> QED  BY <1>1, ClimbFromTop, UpUnfolds DEF Place

(* What the way up from a place looks like. *)
LEMMA UpFacts ==
  ASSUME NEW u \in Place
  PROVE  /\ Up[u] \in Seq(Place) /\ Len(Up[u]) \in Nat \ {0}
         /\ DOMAIN Up[u] = 1..Len(Up[u])
         /\ Up[u][1] = u /\ Up[u][Len(Up[u])] = TOP
         /\ \A i \in 1..Len(Up[u]) - 1 : Up[u][i] \in State /\ Up[u][i + 1] = Parent[Up[u][i]]
         /\ u \in ToSet(Up[u]) /\ TOP \in ToSet(Up[u])
         /\ ToSet(Up[u]) \subseteq Place
<1> PICK q : q = Up[u]
  OBVIOUS
<1>1. Climbs(u, q)
  BY UpClimbs
<1>2. q \in Seq(Place) /\ Len(q) \in Nat \ {0} /\ q[1] = u /\ q[Len(q)] = TOP
  BY <1>1 DEF Climbs
<1>3. DOMAIN q = 1..Len(q) /\ 1 \in DOMAIN q /\ Len(q) \in DOMAIN q
  BY <1>2
<1>4. u \in ToSet(q) /\ TOP \in ToSet(q) /\ ToSet(q) \subseteq Place
  BY <1>2, <1>3 DEF ToSet
<1> QED  BY <1>1, <1>2, <1>3, <1>4 DEF Climbs

(* No place is met twice on the way up. *)
LEMMA UpIsInjective ==
  ASSUME NEW u \in Place, NEW i \in DOMAIN Up[u], NEW j \in DOMAIN Up[u], i < j
  PROVE  Up[u][i] # Up[u][j]
<1> PICK q : q = Up[u]
  OBVIOUS
<1> PICK n \in Nat : n = Len(q)
  BY UpFacts
<1>1. /\ DOMAIN q = 1..n
      /\ \A k \in 1..n - 1 : q[k] \in State /\ q[k + 1] = Parent[q[k]]
  BY UpFacts
<1>2. i \in 1..n /\ j \in 1..n
  BY <1>1
<1> DEFINE Loop == {q[k] : k \in i..j - 1}
<1>3. Loop \subseteq State /\ q[i] \in Loop
  BY <1>1, <1>2
<1>4. PICK s \in Loop : Parent[s] \notin Loop
  BY <1>3, NoCycleAssumption
<1>5. PICK k \in i..j - 1 : s = q[k]
  BY <1>4
<1>6. Parent[s] = q[k + 1]
  BY <1>1, <1>2, <1>5
<1>7. k + 1 \notin i..j - 1
  BY <1>4, <1>6
<1>8. k + 1 = j
  BY <1>2, <1>5, <1>7
<1> QED  BY <1>3, <1>4, <1>6, <1>8

(* The states active at a place: it and its superstates, the top one excluded. *)
Configuration(u) == ToSet(Up[u]) \ {TOP}

LEMMA ConfigurationOfTop == Configuration(TOP) = {}
<1>1. Up[TOP] = <<TOP>>
  BY UpUnfolds
<1> QED  BY <1>1 DEF Configuration, ToSet

(* Entering a state adds it to the configuration of its superstate, and *)
(* exiting it takes it away, where no substate of it is active.         *)
LEMMA ConfigurationGrows ==
  ASSUME NEW s \in State
  PROVE  /\ Configuration(s) = Configuration(Parent[s]) \cup {s}
         /\ s \notin Configuration(Parent[s])
         /\ Parent[s] \in Configuration(Parent[s]) \cup {TOP}
         /\ \A c \in Configuration(s) : Parent[c] # s
<1> PICK p : p = Parent[s]
  OBVIOUS
<1> PICK q : q = Up[s]
  OBVIOUS
<1> PICK r : r = Up[p]
  OBVIOUS
<1>1. p \in Place /\ s \in Place /\ s # TOP
  BY ParentIsPlace DEF Place
<1>2. q = <<s>> \o r
  BY UpUnfolds
<1>3. r \in Seq(Place) /\ q \in Seq(Place) /\ Len(r) \in Nat /\ DOMAIN r = 1..Len(r)
  BY <1>1, UpFacts
<1>4. /\ Len(q) = Len(r) + 1 /\ q[1] = s /\ \A i \in 1..Len(r) : q[i + 1] = r[i]
      /\ DOMAIN q = 1..Len(r) + 1
  BY <1>1, <1>2, <1>3
<1>5. ToSet(q) = {s} \cup ToSet(r)
  <2>1. ASSUME NEW i \in DOMAIN q PROVE q[i] \in {s} \cup ToSet(r)
    <3>1. CASE i = 1
      BY <3>1, <1>4
    <3>2. CASE i # 1
      <4>1. i - 1 \in DOMAIN r /\ q[i] = r[i - 1]
        BY <3>2, <1>3, <1>4
      <4> QED  BY <4>1 DEF ToSet
    <3> QED  BY <3>1, <3>2
  <2>2. ASSUME NEW i \in DOMAIN r PROVE r[i] \in ToSet(q)
    <3>1. i + 1 \in DOMAIN q /\ q[i + 1] = r[i]
      BY <1>3, <1>4
    <3> QED  BY <3>1 DEF ToSet
  <2>3. s \in ToSet(q)
    <3>1. 1 \in DOMAIN q
      BY <1>3, <1>4
    <3> QED  BY <3>1, <1>4 DEF ToSet
  <2> QED  BY <2>1, <2>2, <2>3 DEF ToSet
<1>6. s \notin ToSet(r)
  <2>1. ASSUME NEW i \in DOMAIN r PROVE r[i] # s
    <3>1. i + 1 \in DOMAIN q /\ 1 \in DOMAIN q /\ 1 < i + 1
      BY <1>3, <1>4
    <3>2. q[1] # q[i + 1]
      BY <3>1, <1>1, UpIsInjective
    <3>3. q[i + 1] = r[i] /\ q[1] = s
      BY <1>3, <1>4
    <3> QED  BY <3>2, <3>3
  <2> QED  BY <2>1 DEF ToSet
<1>7. p \in ToSet(r)
  BY <1>1, UpFacts
<1>8. ASSUME NEW c \in Configuration(s) PROVE Parent[c] # s
  <2>1. PICK i \in DOMAIN q : c = q[i]
    BY DEF Configuration, ToSet
  <2>2. q[Len(q)] = TOP /\ \A k \in 1..Len(q) - 1 : q[k + 1] = Parent[q[k]]
    BY <1>1, UpFacts
  <2>3. i # Len(q)
    BY <2>1, <2>2 DEF Configuration
  <2>4. i \in 1..Len(q) - 1 /\ i + 1 \in DOMAIN q /\ 1 \in DOMAIN q /\ 1 < i + 1
    BY <1>3, <1>4, <2>3
  <2>5. Parent[c] = q[i + 1]
    BY <2>1, <2>2, <2>4
  <2>6. q[1] # q[i + 1]
    BY <2>4, <1>1, UpIsInjective
  <2> QED  BY <2>5, <2>6, <1>4
<1> QED  BY <1>1, <1>5, <1>6, <1>7, <1>8 DEF Configuration

-----------------------------------------------------------------------------
(* Walks.  The actions still to run take the machine from one place of the *)
(* hierarchy to another, one exit or one entry at a time.                  *)

Moves(a, x, y) ==
  \/ x \in State /\ a = <<"exit", x>> /\ y = Parent[x]
  \/ y \in State /\ a = <<"enter", y>> /\ x = Parent[y]

Walk(w, acts, p, q) ==
  /\ acts \in Seq({"exit", "enter"} \X State)
  /\ w \in [1..Len(acts) + 1 -> Place]
  /\ w[1] = p
  /\ w[Len(acts) + 1] = q
  /\ \A i \in 1..Len(acts) : Moves(acts[i], w[i], w[i + 1])

Leads(acts, p, q) == \E w : Walk(w, acts, p, q)

LEMMA NoActionLeadsNowhere ==
  /\ \A p \in Place : Leads(<<>>, p, p)
  /\ \A p, q : Leads(<<>>, p, q) => p = q
<1>1. ASSUME NEW p \in Place PROVE Leads(<<>>, p, p)
  <2> PICK w : w = [i \in 1..1 |-> p]
    OBVIOUS
  <2>1. Walk(w, <<>>, p, p)
    BY DEF Walk
  <2> QED  BY <2>1 DEF Leads
<1>2. ASSUME NEW p, NEW q, Leads(<<>>, p, q) PROVE p = q
  BY <1>2 DEF Leads, Walk
<1> QED  BY <1>1, <1>2

(* The actions of two walks, one after the other. *)
LEMMA WalksCompose ==
  ASSUME NEW a, NEW b, NEW p, NEW q, NEW r, Leads(a, p, q), Leads(b, q, r)
  PROVE  Leads(a \o b, p, r)
<1> PICK v : Walk(v, a, p, q)
  BY DEF Leads
<1> PICK w : Walk(w, b, q, r)
  BY DEF Leads
<1> DEFINE Act == {"exit", "enter"} \X State
<1>1. /\ a \in Seq(Act) /\ v \in [1..Len(a) + 1 -> Place] /\ v[1] = p /\ v[Len(a) + 1] = q
      /\ \A i \in 1..Len(a) : Moves(a[i], v[i], v[i + 1])
  BY DEF Walk
<1>2. /\ b \in Seq(Act) /\ w \in [1..Len(b) + 1 -> Place] /\ w[1] = q /\ w[Len(b) + 1] = r
      /\ \A i \in 1..Len(b) : Moves(b[i], w[i], w[i + 1])
  BY DEF Walk
<1> HIDE DEF Act
<1> PICK m \in Nat : m = Len(a)
  BY <1>1
<1> PICK n \in Nat : n = Len(b)
  BY <1>2
<1> PICK c : c = a \o b
  OBVIOUS
<1>3. /\ c \in Seq(Act) /\ Len(c) = m + n
      /\ \A i \in 1..m : c[i] = a[i]
      /\ \A i \in 1..n : c[m + i] = b[i]
  BY <1>1, <1>2
<1> PICK u : u = [i \in 1..m + n + 1 |-> IF i <= m THEN v[i] ELSE w[i - m]]
  OBVIOUS
<1>4. ASSUME NEW i \in 1..m + n + 1
      PROVE  /\ u[i] \in Place
             /\ i <= m + 1 => u[i] = v[i]
             /\ i > m => u[i] = w[i - m]
  <2>1. CASE i <= m
    BY <2>1, <1>1
  <2>2. CASE i > m
    <3>1. i - m \in 1..n + 1
      BY <2>2
    <3>2. ASSUME i = m + 1 PROVE v[i] = q /\ w[i - m] = q
      <4>1. i - m = 1
        BY <3>2
      <4> QED  BY <3>2, <4>1, <1>1, <1>2
    <3>3. u[i] = w[i - m]
      BY <2>2
    <3>4. w[i - m] \in Place
      BY <3>1, <1>2
    <3>5. i <= m + 1 => i = m + 1
      BY <2>2
    <3> QED  BY <3>2, <3>3, <3>4, <3>5
  <2> QED  BY <2>1, <2>2
<1>5. u \in [1..m + n + 1 -> Place]
  BY <1>4
<1>6. u[1] = p /\ u[m + n + 1] = r
  <2>1. u[1] = v[1]
    BY <1>4
  <2>2. u[m + n + 1] = w[n + 1]
    BY <1>4
  <2> QED  BY <2>1, <2>2, <1>1, <1>2
<1>7. ASSUME NEW i \in 1..m + n PROVE Moves(c[i], u[i], u[i + 1])
  <2>1. CASE i <= m
    <3>1. u[i] = v[i] /\ u[i + 1] = v[i + 1] /\ c[i] = a[i] /\ i \in 1..m
      BY <2>1, <1>3, <1>4
    <3> QED  BY <3>1, <1>1
  <2>2. CASE i > m
    <3>1. PICK j \in 1..n : i = m + j
      <4>1. i - m \in 1..n /\ i = m + (i - m)
        BY <2>2
      <4> QED  BY <4>1
    <3>2. u[i] = w[j] /\ u[i + 1] = w[j + 1] /\ c[i] = b[j]
      <4>1. i - m = j /\ (i + 1) - m = j + 1 /\ i \in 1..m + n + 1 /\ i + 1 \in 1..m + n + 1
        BY <3>1
      <4>2. i > m /\ i + 1 > m
        BY <2>2
      <4>3. u[i] = w[i - m] /\ u[i + 1] = w[(i + 1) - m]
        BY <4>1, <4>2, <1>4
      <4> QED  BY <4>1, <4>3, <3>1, <1>3
    <3> QED  BY <3>2, <1>2
  <2> QED  BY <2>1, <2>2
<1>8. Walk(u, c, p, r)
  BY <1>3, <1>5, <1>6, <1>7 DEF Walk, Act
<1> QED  BY <1>8 DEF Leads

(* One action, at the head of those still to run. *)
LEMMA WalkBegins ==
  ASSUME NEW acts, acts # <<>>, NEW p, NEW q, Leads(acts, p, q)
  PROVE  /\ acts \in Seq({"exit", "enter"} \X State)
         /\ \E x \in Place : Moves(Head(acts), p, x) /\ Leads(Tail(acts), x, q)
<1> PICK w : Walk(w, acts, p, q)
  BY DEF Leads
<1> DEFINE Act == {"exit", "enter"} \X State
<1>1. /\ acts \in Seq(Act) /\ w \in [1..Len(acts) + 1 -> Place]
      /\ w[1] = p /\ w[Len(acts) + 1] = q
      /\ \A i \in 1..Len(acts) : Moves(acts[i], w[i], w[i + 1])
  BY DEF Walk
<1> HIDE DEF Act
<1> PICK n \in Nat : n = Len(acts) /\ n > 0
  BY <1>1
<1> PICK t : t = Tail(acts)
  OBVIOUS
<1>2. /\ t \in Seq(Act) /\ Len(t) = n - 1 /\ Head(acts) = acts[1]
      /\ \A i \in 1..n - 1 : t[i] = acts[i + 1]
  BY <1>1
<1> PICK v : v = [i \in 1..n |-> w[i + 1]]
  OBVIOUS
<1>3. v \in [1..n -> Place] /\ v[1] = w[2] /\ v[n] = q
  BY <1>1
<1>4. \A i \in 1..n - 1 : Moves(t[i], v[i], v[i + 1])
  <2> SUFFICES ASSUME NEW i \in 1..n - 1 PROVE Moves(t[i], v[i], v[i + 1])
    OBVIOUS
  <2>1. i + 1 \in 1..n /\ t[i] = acts[i + 1] /\ v[i] = w[i + 1] /\ v[i + 1] = w[(i + 1) + 1]
    BY <1>2
  <2> QED  BY <2>1, <1>1
<1>5. Walk(v, t, w[2], q)
  BY <1>2, <1>3, <1>4 DEF Walk, Act
<1>6. Moves(Head(acts), p, w[2]) /\ w[2] \in Place
  <2>1. 1 \in 1..n /\ 2 \in 1..n + 1
    OBVIOUS
  <2> QED  BY <2>1, <1>1, <1>2
<1>7. Leads(t, w[2], q)
  BY <1>5 DEF Leads
<1> QED  BY <1>1, <1>6, <1>7 DEF Act


(* The exits of a path below a place of it lead up to that place, its *)
(* entries lead back.                                                 *)
LEMMA BelowFacts ==
  ASSUME NEW u \in Place, NEW v \in ToSet(Up[u])
  PROVE  \E k \in 1..Len(Up[u]) :
           /\ Up[u][k] = v
           /\ Below(Up[u], v) \in Seq(State)
           /\ Len(Below(Up[u], v)) = k - 1
           /\ \A i \in 1..k - 1 : Below(Up[u], v)[i] = Up[u][i]
<1> PICK path : path = Up[u]
  OBVIOUS
<1>0. PICK n \in Nat : n = Len(path)
  BY UpFacts
<1>1. path \in Seq(Place) /\ DOMAIN path = 1..n /\ \A i \in 1..n - 1 : path[i] \in State
  BY <1>0, UpFacts
<1>2. \E i \in DOMAIN path : path[i] = v
  BY DEF ToSet
<1> PICK k : k = CHOOSE i \in DOMAIN path : path[i] = v
  OBVIOUS
<1>3. k \in 1..n /\ path[k] = v
  BY <1>1, <1>2
<1>4. Below(path, v) = SubSeq(path, 1, k - 1)
  BY DEF Below
<1> PICK b : b = SubSeq(path, 1, k - 1)
  OBVIOUS
<1>5. b \in Seq(State) /\ Len(b) = k - 1 /\ \A i \in 1..k - 1 : b[i] = path[i]
  <2>a. k - 1 \in Int
    BY <1>0, <1>3
  <2>0. PICK m \in Int : m = k - 1
    BY <2>a
  <2>1. \A i \in 1..m : path[i] \in State
    BY <2>0, <1>0, <1>1, <1>3
  <2>2. /\ SubSeq(path, 1, m) \in Seq(State)
        /\ Len(SubSeq(path, 1, m)) = IF 1 <= m THEN m - 1 + 1 ELSE 0
        /\ \A i \in 1..m - 1 + 1 : SubSeq(path, 1, m)[i] = path[1 + i - 1]
    <3>1. 1 \in Int /\ m \in Int
      BY <2>0
    <3> QED  BY <2>1, <3>1, SubSeqProperties
  <2>3. m \in Nat /\ m - 1 + 1 = m /\ \A i \in 1..m : 1 + i - 1 = i
    BY <2>0, <1>0, <1>3
  <2>4. Len(SubSeq(path, 1, m)) = m
    BY <2>2, <2>3
  <2> QED  BY <2>0, <2>2, <2>3, <2>4
<1> QED  BY <1>0, <1>3, <1>4, <1>5

LEMMA ExitsLeadUp ==
  ASSUME NEW u \in Place, NEW v \in ToSet(Up[u])
  PROVE  Leads(Exits(Below(Up[u], v)), u, v)
<1> PICK path : path = Up[u]
  OBVIOUS
<1> PICK b : b = Below(path, v)
  OBVIOUS
<1>1. PICK k \in 1..Len(path) : /\ path[k] = v /\ b \in Seq(State) /\ Len(b) = k - 1
                                /\ \A i \in 1..k - 1 : b[i] = path[i]
  BY BelowFacts
<1> PICK n \in Nat : n = Len(path)
  BY UpFacts
<1>2. /\ path \in Seq(Place) /\ path[1] = u
      /\ \A i \in 1..n - 1 : path[i] \in State /\ path[i + 1] = Parent[path[i]]
  BY UpFacts
<1> PICK acts : acts = Exits(b)
  OBVIOUS
<1>3. acts = [i \in 1..k - 1 |-> <<"exit", b[i]>>]
  BY <1>1 DEF Exits
<1>4. /\ acts \in Seq({"exit", "enter"} \X State) /\ Len(acts) = k - 1
      /\ \A i \in 1..k - 1 : acts[i] = <<"exit", path[i]>>
  <2>1. \A i \in 1..k - 1 : b[i] \in State
    BY <1>1
  <2> PICK m \in Nat : m = k - 1
    BY <1>1
  <2>2. \A i \in 1..m : <<"exit", b[i]>> \in {"exit", "enter"} \X State
    BY <2>1
  <2>3. acts = [i \in 1..m |-> <<"exit", b[i]>>]
    BY <1>3
  <2>4. acts \in Seq({"exit", "enter"} \X State) /\ Len(acts) = m
    BY <2>2, <2>3
  <2> QED  BY <1>1, <2>3, <2>4
<1> PICK w : w = [i \in 1..k |-> path[i]]
  OBVIOUS
<1>5. w \in [1..k -> Place] /\ w[1] = u /\ w[k] = v
  BY <1>1, <1>2
<1>6. ASSUME NEW i \in 1..k - 1 PROVE Moves(acts[i], w[i], w[i + 1])
  <2>1. i \in 1..n - 1 /\ i \in 1..k /\ i + 1 \in 1..k
    BY <1>1
  <2>2. w[i] = path[i] /\ w[i + 1] = path[i + 1] /\ acts[i] = <<"exit", path[i]>>
    BY <2>1, <1>4
  <2>3. path[i] \in State /\ path[i + 1] = Parent[path[i]]
    BY <2>1, <1>2
  <2> QED  BY <2>2, <2>3 DEF Moves
<1>7. Walk(w, acts, u, v)
  <2>1. Len(acts) + 1 = k
    BY <1>1, <1>4
  <2>2. acts \in Seq({"exit", "enter"} \X State)
    BY <1>4
  <2>3. \A i \in 1..Len(acts) : Moves(acts[i], w[i], w[i + 1])
    BY <1>4, <1>6
  <2> QED  BY <2>1, <2>2, <2>3, <1>5 DEF Walk
<1> QED  BY <1>7 DEF Leads

LEMMA EntersLeadDown ==
  ASSUME NEW u \in Place, NEW v \in ToSet(Up[u])
  PROVE  Leads(Enters(Below(Up[u], v)), v, u)
<1> PICK path : path = Up[u]
  OBVIOUS
<1> PICK b : b = Below(path, v)
  OBVIOUS
<1>1. PICK k \in 1..Len(path) : /\ path[k] = v /\ b \in Seq(State) /\ Len(b) = k - 1
                                /\ \A i \in 1..k - 1 : b[i] = path[i]
  BY BelowFacts
<1> PICK n \in Nat : n = Len(path)
  BY UpFacts
<1>2. /\ path \in Seq(Place) /\ path[1] = u
      /\ \A i \in 1..n - 1 : path[i] \in State /\ path[i + 1] = Parent[path[i]]
  BY UpFacts
<1> PICK acts : acts = Enters(b)
  OBVIOUS
<1>3. acts = [i \in 1..k - 1 |-> <<"enter", b[k - i]>>]
  <2>1. Reverse(b) = [i \in 1..k - 1 |-> b[k - i]]
    BY <1>1 DEF Reverse
  <2> QED  BY <2>1 DEF Enters
<1>4. /\ acts \in Seq({"exit", "enter"} \X State) /\ Len(acts) = k - 1
      /\ \A i \in 1..k - 1 : acts[i] = <<"enter", path[k - i]>>
  <2>1. \A i \in 1..k - 1 : k - i \in 1..k - 1 /\ b[k - i] = path[k - i] /\ b[k - i] \in State
    BY <1>1
  <2>2. k - 1 \in Nat
    BY <1>1
  <2> QED  BY <1>1, <1>3, <2>1, <2>2
<1> PICK w : w = [i \in 1..k |-> path[k - i + 1]]
  OBVIOUS
<1>5. w \in [1..k -> Place] /\ w[1] = v /\ w[k] = u
  BY <1>1, <1>2
<1>6. ASSUME NEW i \in 1..k - 1 PROVE Moves(acts[i], w[i], w[i + 1])
  <2> DEFINE j == k - i
  <2>1. /\ j \in 1..k - 1 /\ k - i + 1 = j + 1 /\ k - (i + 1) + 1 = j
        /\ i \in 1..k /\ i + 1 \in 1..k
    BY <1>1
  <2>2. acts[i] = <<"enter", path[j]>>
    BY <1>4
  <2> HIDE DEF j
  <2>3. w[i] = path[j + 1] /\ w[i + 1] = path[j]
    BY <2>1
  <2>4. path[j] \in State /\ path[j + 1] = Parent[path[j]]
    BY <2>1, <1>1, <1>2
  <2> QED  BY <2>2, <2>3, <2>4 DEF Moves
<1>7. Walk(w, acts, v, u)
  <2>1. Len(acts) + 1 = k
    BY <1>1, <1>4
  <2>2. acts \in Seq({"exit", "enter"} \X State)
    BY <1>4
  <2>3. \A i \in 1..Len(acts) : Moves(acts[i], w[i], w[i + 1])
    BY <1>4, <1>6
  <2> QED  BY <2>1, <2>2, <2>3, <1>5 DEF Walk
<1> QED  BY <1>7 DEF Leads


-----------------------------------------------------------------------------
(* The paths the engine computes. *)

LEMMA ClimbIsUp == \A s \in State : Climb(s) = Up[s]
<1> SUFFICES ASSUME NEW s \in State PROVE Climb(s) = Up[s]
  OBVIOUS
<1>1. Up[s] \in Seq(Place)
  BY UpFacts DEF Place
<1>2. Len(Up[s]) <= MAX_DEPTH /\ Len(Up[s]) \in Nat /\ MAX_DEPTH \in Nat
  BY <1>1, DepthAssumption, HierarchyAssumption
<1>3. Climb(s) = SubSeq(Up[s], 1, Len(Up[s]))
  BY <1>2 DEF Climb
<1> QED  BY <1>1, <1>3, SubSeqFull

LEMMA NoneToRun == Exits(<<>>) = <<>> /\ Enters(<<>>) = <<>>
<1>1. Exits(<<>>) = <<>>
  BY DEF Exits
<1>2. Reverse(<<>>) = <<>>
  BY DEF Reverse
<1>3. Enters(<<>>) = <<>>
  BY <1>2 DEF Enters
<1> QED  BY <1>1, <1>3

(* A state left and entered again. *)
LEMMA OneToRun ==
  ASSUME NEW s \in State
  PROVE  /\ Leads(Exits(<<s>>), s, Parent[s])
         /\ Leads(Enters(<<s>>), Parent[s], s)
<1>1. Parent[s] \in Place /\ s \in Place
  BY ParentIsPlace DEF Place
<1>2. Leads(Exits(<<s>>), s, Parent[s])
  <2> PICK acts : acts = << <<"exit", s>> >>
    OBVIOUS
  <2>1. Exits(<<s>>) = acts
    BY DEF Exits
  <2> PICK w : w = [i \in 1..2 |-> IF i = 1 THEN s ELSE Parent[s]]
    OBVIOUS
  <2>2. acts \in Seq({"exit", "enter"} \X State) /\ Len(acts) = 1 /\ acts[1] = <<"exit", s>>
    OBVIOUS
  <2>3. w \in [1..2 -> Place] /\ w[1] = s /\ w[2] = Parent[s]
    BY <1>1
  <2>4. \A i \in 1..1 : Moves(acts[i], w[i], w[i + 1])
    BY <2>2, <2>3 DEF Moves
  <2>5. Walk(w, acts, s, Parent[s])
    BY <2>2, <2>3, <2>4 DEF Walk
  <2> QED  BY <2>1, <2>5 DEF Leads
<1>3. Leads(Enters(<<s>>), Parent[s], s)
  <2> PICK acts : acts = << <<"enter", s>> >>
    OBVIOUS
  <2>1. Enters(<<s>>) = acts
    <3>1. Reverse(<<s>>) = <<s>>
      BY DEF Reverse
    <3> QED  BY <3>1 DEF Enters
  <2> PICK w : w = [i \in 1..2 |-> IF i = 1 THEN Parent[s] ELSE s]
    OBVIOUS
  <2>2. acts \in Seq({"exit", "enter"} \X State) /\ Len(acts) = 1 /\ acts[1] = <<"enter", s>>
    OBVIOUS
  <2>3. w \in [1..2 -> Place] /\ w[1] = Parent[s] /\ w[2] = s
    BY <1>1
  <2>4. \A i \in 1..1 : Moves(acts[i], w[i], w[i + 1])
    BY <2>2, <2>3 DEF Moves
  <2>5. Walk(w, acts, Parent[s], s)
    BY <2>2, <2>3, <2>4 DEF Walk
  <2> QED  BY <2>1, <2>5 DEF Leads
<1> QED  BY <1>2, <1>3

(* EDF_hsm_getTransitionPath() finds a path between any two states, and *)
(* its exits lead from the source to where its entries begin.           *)
LEMMA TransitionPathLeads ==
  ASSUME NEW s \in State, NEW t \in State
  PROVE  /\ TransitionPath(s, t).found
         /\ \E q : /\ Leads(Exits(TransitionPath(s, t).exits), s, q)
                  /\ Leads(Enters(TransitionPath(s, t).enters), q, t)
<1>1. s \in Place /\ t \in Place
  BY DEF Place
<1> PICK path : path = TransitionPath(s, t)
  OBVIOUS
<1>0. Climb(s) = Up[s] /\ Climb(t) = Up[t]
  BY ClimbIsUp
<1> DEFINE e_path == Climb(t)
           x_path == Climb(s)
           common == {i \in DOMAIN x_path : x_path[i] \in ToSet(e_path)}
           x_i    == CHOOSE i \in common : \A j \in common : j <= i
<1>2. path =
        CASE s = t -> Path(<<s>>, <<t>>)
          [] s # t /\ s \in ToSet(e_path) -> Path(<<>>, Below(e_path, s))
          [] s \notin ToSet(e_path) /\ t \in ToSet(x_path) -> Path(Below(x_path, t), <<>>)
          [] OTHER -> IF common = {} THEN NoPath
                      ELSE Path(Below(x_path, x_path[x_i]), Below(e_path, x_path[x_i]))
  BY Zenon DEF TransitionPath
<1>3. s \in ToSet(x_path) /\ t \in ToSet(e_path) /\ TOP \in ToSet(e_path)
  BY <1>0, <1>1, UpFacts
<1>4. CASE s = t
  <2>1. path = Path(<<s>>, <<t>>)
    BY <1>2, <1>3, <1>4
  <2>2. Leads(Exits(<<s>>), s, Parent[s]) /\ Leads(Enters(<<t>>), Parent[s], t)
    BY <1>4, OneToRun
  <2> QED  BY <2>1, <2>2 DEF Path
<1>5. CASE s # t /\ s \in ToSet(e_path)
  <2>1. path = Path(<<>>, Below(e_path, s))
    BY <1>2, <1>5
  <2>2. Leads(Exits(<<>>), s, s)
    BY <1>1, NoneToRun, NoActionLeadsNowhere
  <2>3. Leads(Enters(Below(e_path, s)), s, t)
    BY <1>0, <1>1, <1>5, EntersLeadDown
  <2> QED  BY <2>1, <2>2, <2>3 DEF Path
<1>6. CASE s \notin ToSet(e_path) /\ t \in ToSet(x_path)
  <2>1. path = Path(Below(x_path, t), <<>>)
    BY <1>2, <1>3, <1>6
  <2>2. Leads(Enters(<<>>), t, t)
    BY <1>1, NoneToRun, NoActionLeadsNowhere
  <2>3. Leads(Exits(Below(x_path, t)), s, t)
    BY <1>0, <1>1, <1>6, ExitsLeadUp
  <2> QED  BY <2>1, <2>2, <2>3 DEF Path
<1>7. CASE s # t /\ s \notin ToSet(e_path) /\ t \notin ToSet(x_path)
  <2>1. Len(x_path) \in common /\ \A j \in common : j <= Len(x_path)
    BY <1>0, <1>1, <1>3, UpFacts
  <2>2. x_i \in common
    BY <2>1
  <2> PICK c : c = x_path[x_i]
    OBVIOUS
  <2>3. c \in ToSet(x_path) /\ c \in ToSet(e_path)
    BY <2>2 DEF ToSet
  <2>4. path = Path(Below(x_path, c), Below(e_path, c))
    BY <1>2, <1>7, <2>1
  <2>5. Leads(Exits(Below(x_path, c)), s, c)
    BY <1>0, <1>1, <2>3, ExitsLeadUp
  <2>6. Leads(Enters(Below(e_path, c)), c, t)
    BY <1>0, <1>1, <2>3, EntersLeadDown
  <2>7. path.found /\ path.exits = Below(x_path, c) /\ path.enters = Below(e_path, c)
    BY <2>4 DEF Path
  <2> QED  BY <2>5, <2>6, <2>7, Zenon
<1> QED  BY <1>4, <1>5, <1>6, <1>7

-----------------------------------------------------------------------------
(* The invariant: what is active is the configuration of a place, and what *)
(* is still to run leads from that place to the target.                    *)

HsmInv ==
  /\ phase \in {"settled", "moving"}
  /\ ~stopped
  /\ phase = "settled" =>
       /\ current_state \in State \ DOMAIN InitialOf
       /\ active = Configuration(current_state)
       /\ todo = <<>>
  /\ phase = "moving" =>
       /\ target \in State
       /\ \E p \in Place : active = Configuration(p) /\ Leads(todo, p, target)

LEMMA HsmStarts == HsmInit => HsmInv
<1> SUFFICES ASSUME HsmInit PROVE HsmInv
  OBVIOUS
<1>1. target \in State /\ target \in Place /\ TOP \in Place
  BY HierarchyAssumption DEF HsmInit, Place
<1>2. Leads(todo, TOP, target)
  BY <1>1, UpFacts, EntersLeadDown DEF HsmInit
<1>3. active = Configuration(TOP)
  BY ConfigurationOfTop DEF HsmInit
<1> QED  BY <1>1, <1>2, <1>3 DEF HsmInit, HsmInv

LEMMA TransitKeepsHsm ==
  ASSUME HsmInv, NEW s \in State, NEW t \in State, Transit(s, t)
  PROVE  HsmInv'
<1> PICK c : c = current_state
  OBVIOUS
<1>1. c \in State /\ c \in Place /\ active = Configuration(c)
  BY DEF HsmInv, Transit, Place
<1>2. s \in ToSet(Up[c])
  BY <1>1, ClimbIsUp DEF Transit
<1> PICK path : path = TransitionPath(s, t)
  OBVIOUS
<1>3. path.found
  BY TransitionPathLeads
<1>4. PICK q : Leads(Exits(path.exits), s, q) /\ Leads(Enters(path.enters), q, t)
  BY TransitionPathLeads
<1>5. Leads(Exits(Below(Up[c], s)), c, s)
  BY <1>1, <1>2, ExitsLeadUp
<1>6. Leads(Exits(Below(Up[c], s)) \o Exits(path.exits), c, q)
  BY <1>4, <1>5, WalksCompose
<1>7. Leads(Exits(Below(Up[c], s)) \o Exits(path.exits) \o Enters(path.enters), c, t)
  BY <1>4, <1>6, WalksCompose
<1> PICK acts : acts = Exits(Below(Up[c], s)) \o Exits(path.exits) \o Enters(path.enters)
  OBVIOUS
<1>8. /\ phase' = "moving" /\ target' = t /\ active' = active /\ stopped' = ~path.found
      /\ todo' = acts
  BY DEF Transit
<1>9. Leads(todo', c, target')
  BY <1>7, <1>8
<1> QED  BY <1>1, <1>3, <1>8, <1>9 DEF HsmInv

LEMMA RunActionKeepsHsm ==
  ASSUME HsmInv, RunAction
  PROVE  HsmInv'
<1>1. phase = "moving" /\ target \in State /\ todo # <<>>
  BY DEF HsmInv, RunAction
<1>2. PICK p \in Place : active = Configuration(p) /\ Leads(todo, p, target)
  BY <1>1 DEF HsmInv
<1>3. PICK x \in Place : Moves(Head(todo), p, x) /\ Leads(Tail(todo), x, target)
  BY <1>1, <1>2, WalkBegins
<1>4. active' = Configuration(x)
  <2>1. CASE p \in State /\ Head(todo) = <<"exit", p>> /\ x = Parent[p]
    <3>1. active' = active \ {p}
      BY <2>1 DEF RunAction
    <3> QED  BY <1>2, <2>1, <3>1, ConfigurationGrows
  <2>2. CASE x \in State /\ Head(todo) = <<"enter", x>> /\ p = Parent[x]
    <3>1. active' = active \cup {x}
      BY <2>2 DEF RunAction
    <3> QED  BY <1>2, <2>2, <3>1, ConfigurationGrows
  <2> QED  BY <1>3, <2>1, <2>2 DEF Moves
<1>5. /\ todo' = Tail(todo) /\ phase' = phase /\ target' = target /\ stopped' = stopped
  BY DEF RunAction
<1>6. Leads(todo', x, target')
  BY <1>3, <1>5
<1> QED  BY <1>1, <1>4, <1>5, <1>6 DEF HsmInv

LEMMA InitialTransitionKeepsHsm ==
  ASSUME HsmInv, InitialTransition
  PROVE  HsmInv'
<1> PICK t : t = target
  OBVIOUS
<1> PICK u : u = InitialOf[t]
  OBVIOUS
<1>1. t \in DOMAIN InitialOf /\ phase = "moving" /\ t \in State /\ todo = <<>>
  BY DEF HsmInv, InitialTransition
<1>2. u \in State /\ t \in ToSet(Up[u])
  BY <1>1, HierarchyAssumption, InitialAssumption
<1>3. active = Configuration(t)
  BY <1>1, NoActionLeadsNowhere DEF HsmInv
<1>4. t \in Place /\ u \in Place
  BY <1>1, <1>2 DEF Place
<1>5. Leads(Enters(Below(Climb(u), t)), t, u)
  BY <1>2, <1>4, ClimbIsUp, EntersLeadDown
<1>6. /\ todo' = Enters(Below(Climb(u), t)) /\ target' = u /\ phase' = phase
      /\ active' = active /\ stopped' = stopped
  BY DEF InitialTransition
<1>7. Leads(todo', t, target')
  BY <1>5, <1>6
<1> QED  BY <1>1, <1>2, <1>3, <1>4, <1>6, <1>7 DEF HsmInv

LEMMA SettleKeepsHsm ==
  ASSUME HsmInv, Settle
  PROVE  HsmInv'
<1>1. phase = "moving" /\ target \in State /\ target \notin DOMAIN InitialOf /\ todo = <<>>
  BY DEF HsmInv, Settle
<1>2. active = Configuration(target)
  BY <1>1, NoActionLeadsNowhere DEF HsmInv
<1> QED  BY <1>1, <1>2 DEF HsmInv, Settle

LEMMA HsmNextKeepsHsm ==
  ASSUME HsmInv, HsmNext
  PROVE  HsmInv'
<1>1. CASE Dispatch
  <2>1. PICK arc \in Arcs : Transit(arc[1], arc[2])
    BY <1>1 DEF Dispatch
  <2>2. arc[1] \in State /\ arc[2] \in State
    BY <2>1, HierarchyAssumption
  <2> QED  BY <2>1, <2>2, TransitKeepsHsm
<1> QED
  BY <1>1, RunActionKeepsHsm, InitialTransitionKeepsHsm, SettleKeepsHsm DEF HsmNext

LEMMA UnchangedKeepsHsm ==
  ASSUME HsmInv, UNCHANGED hsmVars
  PROVE  HsmInv'
BY DEF HsmInv, hsmVars

LEMMA HsmInvIsExact == HsmInv => ConfigurationIsExact
<1> SUFFICES ASSUME HsmInv PROVE ConfigurationIsExact
  OBVIOUS
<1>1. ActiveStatesAreCurrent
  BY DEF HsmInv, ActiveStatesAreCurrent, Configuration
<1>2. ActionsNest
  <2> SUFFICES ASSUME todo # <<>>
               PROVE  LET s == Head(todo)[2] IN
                        IF Head(todo)[1] = "exit"
                        THEN s \in active /\ \A c \in active : Parent[c] # s
                        ELSE s \notin active /\ Parent[s] \in active \cup {TOP}
    BY DEF ActionsNest
  <2>1. PICK p \in Place : active = Configuration(p) /\ Leads(todo, p, target)
    BY DEF HsmInv
  <2>2. PICK x \in Place : Moves(Head(todo), p, x)
    BY <2>1, WalkBegins
  <2>3. CASE p \in State /\ Head(todo) = <<"exit", p>>
    BY <2>1, <2>3, ConfigurationGrows
  <2>4. CASE x \in State /\ Head(todo) = <<"enter", x>> /\ p = Parent[x]
    BY <2>1, <2>4, ConfigurationGrows
  <2> QED  BY <2>2, <2>3, <2>4 DEF Moves
<1>3. PathIsFound
  BY DEF HsmInv, PathIsFound
<1> QED  BY <1>1, <1>2, <1>3 DEF ConfigurationIsExact

(* The states entered and not exited are those of the current configuration, *)
(* actions nest and a path is always found (edf_hsm.c), for every hierarchy  *)
(* without cycles that EDF_HSM_MAX_DEPTH covers, and all its transitions.    *)
THEOREM MachineStaysExact == HsmSpec => []ConfigurationIsExact
<1>1. HsmInv /\ [HsmNext]_hsmVars => HsmInv'
  BY HsmNextKeepsHsm, UnchangedKeepsHsm
<1> QED
  BY <1>1, HsmStarts, HsmInvIsExact, PTL DEF HsmSpec

(* The same of the application of the fuzzing example (fuzz_example.c), whose *)
(* handlers take their transitions under their own guards.                    *)
THEOREM ExampleStaysExact == ExampleSpec => []ConfigurationIsExact
<1>1. ExampleInit => HsmInv
  BY HsmStarts DEF ExampleInit
<1>2. ASSUME HsmInv, [ExampleNext]_<<hsmVars, exampleVars>> PROVE HsmInv'
  <2>1. {"operational", "standby", "armed", "collecting"} \subseteq State
    BY ExampleAssumption DEF ExampleStates
  <2>2. CASE HsmNext
    BY <1>2, <2>2, HsmNextKeepsHsm
  <2>3. CASE UNCHANGED hsmVars
    BY <1>2, <2>3, UnchangedKeepsHsm
  <2>4. CASE \/ Transit("standby", "armed") \/ Transit("armed", "collecting")
             \/ Transit("collecting", "standby") \/ Transit("operational", "standby")
    BY <1>2, <2>1, <2>4, TransitKeepsHsm
  <2>5. CASE StartCollection
    BY <2>4, <2>5 DEF StartCollection
  <2>6. CASE Finish
    BY <2>3, <2>4, <2>6 DEF Finish, Halt
  <2>7. CASE Reset
    BY <2>4, <2>7 DEF Reset
  <2>8. ASSUME NEW setup \in Setups, Set(setup) PROVE HsmInv'
    BY <2>3, <2>8 DEF Set, Halt, Handled
  <2>9. ASSUME NEW p \in Steps, BeginCollecting(p) PROVE HsmInv'
    BY <2>4, <2>9 DEF BeginCollecting
  <2>10. ASSUME NEW p \in Steps, Collect(p) PROVE HsmInv'
    BY <2>3, <2>4, <2>10 DEF Collect, Halt, Handled
  <2> QED
    BY <1>2, <2>2, <2>3, <2>5, <2>6, <2>7, <2>8, <2>9, <2>10 DEF ExampleNext
<1> QED
  BY <1>1, <1>2, HsmInvIsExact, PTL DEF ExampleSpec

-----------------------------------------------------------------------------
(* A nonempty set of natural numbers has a least element: the order is *)
(* well-founded.                                                       *)
LEMMA LeastNatural ==
  ASSUME NEW T \in SUBSET Nat, T # {}
  PROVE  \E x \in T : \A y \in T : x <= y
<1> DEFINE Less == OpToRel(<, Nat)
<1>1. IsWellFoundedOn(Less, Nat)
  BY NatLessThanWellFounded
<1>2. \A x, y \in Nat : <<y, x>> \in Less <=> y < x
  BY DEF OpToRel
<1> HIDE DEF Less
<1>3. PICK x \in T : \A y \in T : ~(<<y, x>> \in Less)
  BY <1>1, WFMin
<1>4. ASSUME NEW y \in T PROVE x <= y
  <2>1. x \in Nat /\ y \in Nat
    OBVIOUS
  <2>2. ~(y < x)
    BY <1>2, <1>3, <2>1
  <2> QED  BY <2>1, <2>2
<1> QED  BY <1>4

-----------------------------------------------------------------------------
(* Sums.  The function of Total(): the sums of the first elements. *)

Sums(s, f) == f = [i \in 0..Len(s) |-> IF i = 0 THEN 0 ELSE f[i - 1] + s[i]]

LEMMA SumsUnfold ==
  ASSUME NEW s \in Seq(Nat), NEW f, Sums(s, f)
  PROVE  /\ DOMAIN f = 0..Len(s) /\ f[0] = 0
         /\ \A i \in 1..Len(s) : f[i] = f[i - 1] + s[i]
         /\ \A i \in 0..Len(s) : f[i] \in Nat
<1> PICK n \in Nat : n = Len(s)
  OBVIOUS
<1>1. f = [i \in 0..n |-> IF i = 0 THEN 0 ELSE f[i - 1] + s[i]]
  BY DEF Sums
<1>a. DOMAIN f = 0..n /\ \A i \in 0..n : f[i] = IF i = 0 THEN 0 ELSE f[i - 1] + s[i]
  BY <1>1, Zenon
<1>2. DOMAIN f = 0..n /\ f[0] = 0
  BY <1>a
<1>3. ASSUME NEW i \in 1..n PROVE f[i] = f[i - 1] + s[i]
  BY <1>a
<1> DEFINE Wild == {i \in Nat : i <= n /\ f[i] \notin Nat}
<1>4. Wild = {}
  <2> SUFFICES ASSUME Wild # {} PROVE FALSE
    OBVIOUS
  <2>1. PICK i \in Wild : \A j \in Wild : i <= j
    BY LeastNatural
  <2>2. i \in 1..n
    BY <1>2, <2>1
  <2>3. i - 1 \in Nat /\ i - 1 \notin Wild
    BY <2>1, <2>2
  <2>4. f[i - 1] \in Nat /\ s[i] \in Nat
    BY <2>2, <2>3
  <2> QED  BY <1>3, <2>1, <2>2, <2>4
<1> QED  BY <1>2, <1>3, <1>4

LEMMA SumsAgree ==
  ASSUME NEW s \in Seq(Nat), NEW f, NEW g, Sums(s, f), Sums(s, g)
  PROVE  f[Len(s)] = g[Len(s)]
<1> PICK n \in Nat : n = Len(s)
  OBVIOUS
<1>1. f[0] = 0 /\ \A i \in 1..n : f[i] = f[i - 1] + s[i]
  BY SumsUnfold
<1>2. g[0] = 0 /\ \A i \in 1..n : g[i] = g[i - 1] + s[i]
  BY SumsUnfold
<1> DEFINE Apart == {i \in Nat : i <= n /\ f[i] # g[i]}
<1>3. Apart = {}
  <2> SUFFICES ASSUME Apart # {} PROVE FALSE
    OBVIOUS
  <2>1. PICK i \in Apart : \A j \in Apart : i <= j
    BY LeastNatural
  <2>2. i \in 1..n
    BY <1>1, <1>2, <2>1
  <2>3. i - 1 \in Nat /\ i - 1 \notin Apart
    BY <2>1, <2>2
  <2>4. f[i - 1] = g[i - 1]
    BY <2>2, <2>3
  <2> QED  BY <1>1, <1>2, <2>1, <2>2, <2>4
<1> QED  BY <1>3

LEMMA SumsGrow ==
  ASSUME NEW s \in Seq(Nat), NEW f, Sums(s, f), NEW x \in Nat
  PROVE  \E g : Sums(Append(s, x), g) /\ g[Len(s) + 1] = f[Len(s)] + x
<1> PICK n \in Nat : n = Len(s)
  OBVIOUS
<1> PICK t : t = Append(s, x)
  OBVIOUS
<1>1. Len(t) = n + 1 /\ t[n + 1] = x /\ \A i \in 1..n : t[i] = s[i]
  OBVIOUS
<1>2. f[0] = 0 /\ \A i \in 1..n : f[i] = f[i - 1] + s[i]
  BY SumsUnfold
<1> DEFINE g == [i \in 0..(n + 1) |-> IF i = n + 1 THEN f[n] + x ELSE f[i]]
<1>3. ASSUME NEW i \in 0..(n + 1) PROVE g[i] = IF i = 0 THEN 0 ELSE g[i - 1] + t[i]
  BY <1>1, <1>2
<1>4. g = [i \in 0..(n + 1) |-> IF i = 0 THEN 0 ELSE g[i - 1] + t[i]]
  <2>1. g = [i \in 0..(n + 1) |-> g[i]]
    OBVIOUS
  <2> HIDE DEF g
  <2> QED  BY <1>3, <2>1
<1>5. g[n + 1] = f[n] + x
  OBVIOUS
<1> HIDE DEF g
<1> QED  BY <1>1, <1>4, <1>5 DEF Sums

LEMMA SumsExist == \A s \in Seq(Nat) : \E f : Sums(s, f)
<1> DEFINE Sumless(n) == \E s \in Seq(Nat) : Len(s) = n /\ ~\E f : Sums(s, f)
           Lost == {n \in Nat : Sumless(n)}
<1> SUFFICES ASSUME Lost # {} PROVE FALSE
  OBVIOUS
<1>1. PICK n \in Lost : \A m \in Lost : n <= m
  BY LeastNatural
<1>2. PICK s \in Seq(Nat) : Len(s) = n /\ ~\E f : Sums(s, f)
  BY <1>1
<1>3. CASE n = 0
  <2> DEFINE f == [i \in 0..0 |-> 0]
  <2>1. f = [i \in 0..0 |-> IF i = 0 THEN 0 ELSE f[i - 1] + s[i]]
    OBVIOUS
  <2> HIDE DEF f
  <2> QED  BY <1>2, <1>3, <2>1 DEF Sums
<1>4. CASE n # 0
  <2> PICK k : k = n - 1
    OBVIOUS
  <2> PICK r : r = SubSeq(s, 1, k)
    OBVIOUS
  <2>1. r \in Seq(Nat) /\ Len(r) = n - 1 /\ \A i \in 1..k : r[i] = s[i]
    <3>1. k \in Nat /\ 1 \in Int /\ \A i \in 1..k : s[i] \in Nat
      BY <1>2, <1>4
    <3> QED  BY <1>4, <3>1, SubSeqProperties
  <2>2. s = Append(r, s[n]) /\ s[n] \in Nat
    <3>1. s[n] \in Nat
      BY <1>2, <1>4
    <3> PICK t : t = Append(r, s[n])
      OBVIOUS
    <3>2. t \in Seq(Nat) /\ Len(t) = n /\ t[n] = s[n] /\ \A i \in 1..k : t[i] = s[i]
      BY <1>4, <2>1, <3>1, AppendProperties
    <3>3. ASSUME NEW i \in 1..n PROVE t[i] = s[i]
      <4>1. CASE i = n
        BY <3>2, <4>1
      <4>2. CASE i # n
        <5>1. i \in 1..k
          BY <1>4, <4>2
        <5> QED  BY <2>1, <3>2, <5>1
      <4> QED  BY <4>1, <4>2
    <3> QED  BY <1>2, <3>1, <3>2, <3>3, SeqEqual
  <2>3. k \in Nat /\ k \notin Lost
    BY <1>1, <1>4
  <2>4. PICK f : Sums(r, f)
    BY <2>1, <2>3
  <2>5. \E g : Sums(Append(r, s[n]), g)
    BY <2>1, <2>2, <2>4, SumsGrow
  <2> QED  BY <1>2, <2>2, <2>5
<1> QED  BY <1>3, <1>4

LEMMA TotalIsSum ==
  ASSUME NEW s \in Seq(Nat), NEW n, n = Len(s)
  PROVE  \E f : Sums(s, f) /\ Total(s) = f[n]
<1> DEFINE sum == CHOOSE f : f = [i \in 0..Len(s) |-> IF i = 0 THEN 0 ELSE f[i - 1] + s[i]]
<1>1. \E f : Sums(s, f)
  BY SumsExist
<1>2. \E f : f = [i \in 0..Len(s) |-> IF i = 0 THEN 0 ELSE f[i - 1] + s[i]]
  BY <1>1, Zenon DEF Sums
<1>3. sum = [i \in 0..Len(s) |-> IF i = 0 THEN 0 ELSE sum[i - 1] + s[i]]
  BY <1>2, Zenon
<1>4. Total(s) = sum[Len(s)]
  BY Zenon DEF Total
<1> HIDE DEF sum
<1> QED  BY <1>3, <1>4 DEF Sums

LEMMA TotalFacts ==
  /\ Total(<<>>) = 0
  /\ \A s \in Seq(Nat), x \in Nat :
       /\ Total(s) \in Nat
       /\ Total(Append(s, x)) = Total(s) + x
<1>1. Total(<<>>) = 0
  <2>0. <<>> \in Seq(Nat) /\ Len(<<>>) = 0
    OBVIOUS
  <2>1. PICK f : Sums(<<>>, f) /\ Total(<<>>) = f[0]
    BY <2>0, TotalIsSum
  <2> QED  BY <2>0, <2>1, SumsUnfold
<1>2. ASSUME NEW s \in Seq(Nat), NEW x \in Nat
      PROVE  Total(s) \in Nat /\ Total(Append(s, x)) = Total(s) + x
  <2> PICK n \in Nat : n = Len(s)
    OBVIOUS
  <2> PICK t : t = Append(s, x)
    OBVIOUS
  <2>0. t \in Seq(Nat) /\ Len(t) = n + 1 /\ \A i \in 1..n : t[i] = s[i]
    BY AppendProperties
  <2>1. PICK f : Sums(s, f) /\ Total(s) = f[n]
    BY TotalIsSum
  <2>2. PICK g : Sums(t, g) /\ Total(t) = g[n + 1]
    BY <2>0, TotalIsSum
  <2>3. PICK h : Sums(t, h) /\ h[n + 1] = f[n] + x
    BY <2>0, <2>1, SumsGrow
  <2>4. g[n + 1] = h[n + 1]
    <3>1. Sums(t, g) /\ Sums(t, h) /\ t \in Seq(Nat)
      BY <2>0, <2>2, <2>3
    <3>2. g[Len(t)] = h[Len(t)]
      BY <3>1, SumsAgree, Zenon
    <3> QED  BY <2>0, <3>2
  <2>5. f[n] \in Nat
    BY <2>1, SumsUnfold
  <2> QED  BY <2>0, <2>1, <2>2, <2>3, <2>4, <2>5
<1> QED  BY <1>1, <1>2

-----------------------------------------------------------------------------
(* What the fuzzing example has collected. *)

Bound(place) ==
  \/ phase = "settled" /\ current_state = place
  \/ phase = "moving" /\ target = place

AccountInv ==
  /\ Accepts(runtime.setup)
  /\ taken \in Seq(Nat) /\ cleared \in Nat
  /\ runtime.sum = Total(taken) % 65536
  /\ runtime.count = (cleared + Len(taken)) % 256
  /\ Bound("armed") => taken = <<>> /\ cleared = 0
  /\ Bound("collecting") /\ gated =>
       /\ taken # <<>>
       /\ cleared = 0 => Head(taken) >= runtime.setup.gate

LEMMA SumWraps == \A a, b \in Nat : ((a % 65536) + b) % 65536 = (a + b) % 65536
OBVIOUS

LEMMA CountWraps == \A a \in Nat : ((a % 256) + 1) % 256 = (a + 1) % 256
OBVIOUS

\* Nothing collected, nothing summed.
LEMMA NothingTaken ==
  <<>> \in Seq(Nat) /\ Total(<<>>) % 65536 = 0 /\ (0 + Len(<<>>)) % 256 = 0
BY TotalFacts

LEMMA AccountStarts == ExampleInit => AccountInv
<1> SUFFICES ASSUME ExampleInit PROVE AccountInv
  OBVIOUS
<1>1. /\ runtime = Runtime(DefaultSetup, 0, 0)
      /\ taken = <<>> /\ cleared = 0 /\ gated = FALSE
  BY DEF ExampleInit, resetRuntime
<1>2. Accepts(runtime.setup)
  BY <1>1 DEF Runtime, DefaultSetup, Accepts
<1>3. runtime.count = 0 /\ runtime.sum = 0
  BY <1>1 DEF Runtime
<1> QED  BY <1>1, <1>2, <1>3, NothingTaken DEF AccountInv

(* The engine brings the machine nowhere but where a handler sends it. *)
LEMMA EngineKeepsBound ==
  ASSUME HsmNext \/ UNCHANGED hsmVars, NEW place \in {"armed", "collecting"}, Bound(place)'
  PROVE  Bound(place)
<1>0. ExampleAssumption
  BY ExampleAssumption
<1>1. CASE Dispatch
  <2>1. PICK arc \in Arcs : Transit(arc[1], arc[2])
    BY <1>1 DEF Dispatch
  <2> QED  BY <2>1, <1>0 DEF Transit, Bound, ExampleAssumption, ExampleStates
<1>2. CASE RunAction
  BY <1>2 DEF RunAction, Bound
<1>3. CASE InitialTransition
  BY <1>0, <1>3 DEF InitialTransition, Bound, ExampleAssumption
<1>4. CASE Settle
  BY <1>4 DEF Settle, Bound
<1>5. CASE UNCHANGED hsmVars
  BY <1>5 DEF hsmVars, Bound
<1> QED  BY <1>1, <1>2, <1>3, <1>4, <1>5 DEF HsmNext

LEMMA EngineKeepsAccount ==
  ASSUME AccountInv, HsmNext \/ UNCHANGED hsmVars, UNCHANGED exampleVars
  PROVE  AccountInv'
<1>1. UNCHANGED <<runtime, taken, cleared, gated>>
  BY DEF exampleVars
<1>2. /\ Bound("armed")' => Bound("armed")
      /\ Bound("collecting")' => Bound("collecting")
  BY EngineKeepsBound
<1> QED  BY <1>1, <1>2 DEF AccountInv

(* A handler that sends the machine from one state to another, or nowhere. *)
LEMMA TransitBinds ==
  ASSUME NEW s, NEW t, Transit(s, t), NEW place
  PROVE  Bound(place)' => place = t
BY DEF Transit, Bound

LEMMA AtRest ==
  ASSUME NEW place, In({place})
  PROVE  Bound(place)
BY DEF In, Bound

LEMMA AdjustedIsByte ==
  ASSUME NEW p \in Steps
  PROVE  Adjusted(p) \in 0..255
<1>1. p.value \in 0..255
  BY ExampleAssumption
<1> QED  BY <1>1 DEF Adjusted

LEMMA SetKeepsAccount ==
  ASSUME AccountInv, NEW setup \in Setups, Set(setup)
  PROVE  AccountInv'
<1>1. CASE UNCHANGED <<hsmVars, runtime, taken, cleared, gated>>
  BY <1>1 DEF AccountInv, Bound, hsmVars
<1>2. CASE /\ Accepts(setup) /\ runtime' = Runtime(setup, 0, 0)
           /\ taken' = <<>> /\ cleared' = 0 /\ gated' = FALSE
  <2>1. /\ runtime'.setup = setup /\ runtime'.sum = 0 /\ runtime'.count = 0
        /\ taken' = <<>> /\ cleared' = 0 /\ gated' = FALSE
    BY <1>2 DEF Runtime
  <2> QED  BY <1>2, <2>1, NothingTaken DEF AccountInv
<1> QED  BY <1>1, <1>2 DEF Set, Halt

LEMMA StartKeepsAccount ==
  ASSUME AccountInv, StartCollection \/ Reset
  PROVE  AccountInv'
<1>1. /\ Accepts(runtime'.setup) /\ runtime'.sum = 0 /\ runtime'.count = 0
      /\ taken' = <<>> /\ cleared' = 0 /\ gated' = gated
  BY DEF StartCollection, Reset, Runtime, resetRuntime, DefaultSetup, Accepts, AccountInv
<1>2. ~Bound("collecting")'
  BY TransitBinds DEF StartCollection, Reset
<1> QED  BY <1>1, <1>2, NothingTaken DEF AccountInv

LEMMA BeginKeepsAccount ==
  ASSUME AccountInv, NEW p \in Steps, BeginCollecting(p)
  PROVE  AccountInv'
<1> PICK v : v = Adjusted(p)
  OBVIOUS
<1>1. v \in 0..255 /\ v >= runtime.setup.gate
  BY AdjustedIsByte DEF BeginCollecting
<1>2. /\ runtime'.setup = runtime.setup /\ runtime'.sum = v /\ runtime'.count = 1
      /\ taken' = <<v>> /\ cleared' = 0
  BY DEF BeginCollecting, Runtime
<1>3. taken' \in Seq(Nat) /\ Len(taken') = 1 /\ Head(taken') = v
  BY <1>1, <1>2
<1>4. Total(taken') = v
  <2>1. <<>> \in Seq(Nat) /\ v \in Nat
    BY <1>1
  <2>2. <<v>> = Append(<<>>, v)
    OBVIOUS
  <2>3. taken' = Append(<<>>, v)
    BY <1>2, <2>2
  <2>4. Total(Append(<<>>, v)) = Total(<<>>) + v
    BY <2>1, TotalFacts
  <2> QED  BY <2>1, <2>3, <2>4, TotalFacts
<1>5. ~Bound("armed")'
  BY TransitBinds DEF BeginCollecting
<1>6. v % 65536 = v
  BY <1>1
<1>7. (0 + 1) % 256 = 1 /\ taken' # <<>>
  BY <1>2
<1> QED  BY <1>1, <1>2, <1>3, <1>4, <1>5, <1>6, <1>7 DEF AccountInv

LEMMA CollectKeepsAccount ==
  ASSUME AccountInv, NEW p \in Steps, Collect(p)
  PROVE  AccountInv'
<1> PICK v : v = Adjusted(p)
  OBVIOUS
<1> PICK n : n = runtime.count
  OBVIOUS
<1>1. CASE Halt("hang")
  BY <1>1 DEF Halt, AccountInv, Bound, hsmVars
<1>2. CASE ~Halt("hang")
  <2>0. taken \in Seq(Nat) /\ cleared \in Nat /\ n = (cleared + Len(taken)) % 256
    BY DEF AccountInv
  <2>1. PICK old, kept, gone :
          /\ \/ old = <<>> /\ kept = 0 /\ gone = cleared + Len(taken)
             \/ old = taken /\ kept = runtime.sum /\ gone = cleared
          /\ runtime' = Runtime(runtime.setup, (kept + v) % 65536, (n + 1) % 256)
          /\ taken' = old \o <<v>> /\ cleared' = gone
    <3>1. CASE "clear" \in p.flags
      <4>1. /\ runtime' = Runtime(runtime.setup, (0 + v) % 65536, (n + 1) % 256)
            /\ taken' = <<>> \o <<v>> /\ cleared' = cleared + Len(taken)
        BY <1>2, <3>1 DEF Collect
      <4> WITNESS <<>>, 0, cleared + Len(taken)
      <4> QED  BY <4>1
    <3>2. CASE "clear" \notin p.flags
      <4>1. /\ runtime' = Runtime(runtime.setup, (runtime.sum + v) % 65536, (n + 1) % 256)
            /\ taken' = taken \o <<v>> /\ cleared' = cleared
        BY <1>2, <3>2 DEF Collect
      <4> WITNESS taken, runtime.sum, cleared
      <4> QED  BY <4>1
    <3> QED  BY <3>1, <3>2
  <2>2. v \in Nat
    BY AdjustedIsByte
  <2>3. old \in Seq(Nat) /\ Len(old) \in Nat
    <3>1. <<>> \in Seq(Nat) /\ taken \in Seq(Nat)
      BY <2>0
    <3>2. old = <<>> \/ old = taken
      BY <2>1
    <3>3. old \in Seq(Nat)
      BY <3>1, <3>2
    <3> QED  BY <3>3, LenProperties
  <2>4. gone \in Nat /\ n = (gone + Len(old)) % 256
    <3>0. \/ old = <<>> /\ gone = cleared + Len(taken)
          \/ old = taken /\ gone = cleared
      BY <2>1
    <3>1. CASE old = <<>> /\ gone = cleared + Len(taken)
      <4>1. Len(old) = 0
        BY <3>1
      <4>2. Len(taken) \in Nat
        BY <2>0, LenProperties
      <4>3. gone \in Nat
        BY <2>0, <3>1, <4>2
      <4>4. gone + Len(old) = gone
        BY <4>1, <4>3
      <4>5. n = gone % 256
        BY <2>0, <3>1, Zenon
      <4> QED  BY <4>3, <4>4, <4>5, Zenon
    <3>2. CASE old = taken /\ gone = cleared
      BY <2>0, <3>2, Zenon
    <3> QED  BY <3>0, <3>1, <3>2, Zenon
  <2>5. /\ runtime'.setup = runtime.setup /\ runtime'.sum = (kept + v) % 65536
        /\ runtime'.count = (n + 1) % 256 /\ gated' = gated
    BY <1>2, <2>1 DEF Collect, Runtime
  <2>6. taken' = Append(old, v)
    BY <2>1, <2>2, <2>3, AppendIsConcat
  <2>7. /\ taken' \in Seq(Nat) /\ Len(taken') = Len(old) + 1 /\ taken' # <<>>
        /\ old # <<>> => Head(taken') = Head(old)
    BY <2>2, <2>3, <2>6
  <2>8. runtime'.count = (cleared' + Len(taken')) % 256
    <3>1. gone + Len(old) \in Nat
      BY <2>3, <2>4
    <3>2. ((n + 1) % 256) = ((gone + Len(old)) + 1) % 256
      BY <2>4, <3>1, CountWraps
    <3>3. (gone + Len(old)) + 1 = gone + Len(taken')
      BY <2>3, <2>4, <2>7
    <3> QED  BY <2>1, <2>5, <3>2, <3>3
  <2>9. runtime'.sum = Total(taken') % 65536
    <3>0. runtime.sum = Total(taken) % 65536 /\ Total(<<>>) % 65536 = 0
      BY TotalFacts DEF AccountInv
    <3>1. kept = Total(old) % 65536
      BY <2>1, <3>0
    <3>2. Total(old) \in Nat /\ Total(taken') = Total(old) + v
      BY <2>2, <2>3, <2>6, TotalFacts
    <3> QED  BY <2>2, <2>5, <3>1, <3>2, SumWraps
  <2>10. ~Bound("armed")'
    <3>1. CASE Transit("collecting", "standby")
      BY <3>1, TransitBinds
    <3>2. CASE UNCHANGED hsmVars
      BY <3>2 DEF Collect, In, Bound, hsmVars
    <3> QED  BY <1>2, <3>1, <3>2 DEF Collect, Handled
  <2>11. ASSUME gated, cleared' = 0 PROVE Head(taken') >= runtime.setup.gate
    <3>1. Bound("collecting")
      BY DEF Collect, In, Bound
    <3>2. taken # <<>> /\ (cleared = 0 => Head(taken) >= runtime.setup.gate)
      BY <2>11, <3>1 DEF AccountInv
    <3>3. Len(taken) \in Nat /\ Len(taken) # 0
      BY <2>0, <3>2
    <3>4. old = taken /\ cleared = 0
      BY <2>0, <2>1, <2>11, <3>3
    <3> QED  BY <2>7, <3>2, <3>4
  <2> QED
    BY <2>1, <2>4, <2>5, <2>7, <2>8, <2>9, <2>10, <2>11 DEF AccountInv
<1> QED  BY <1>1, <1>2

LEMMA FinishKeepsAccount ==
  ASSUME AccountInv, Finish
  PROVE  AccountInv'
<1>1. CASE Halt("crash")
  BY <1>1 DEF Halt, AccountInv, Bound, hsmVars
<1>2. CASE Transit("collecting", "standby") /\ UNCHANGED exampleVars
  <2>1. ~Bound("armed")' /\ ~Bound("collecting")'
    BY <1>2, TransitBinds
  <2>2. UNCHANGED <<runtime, taken, cleared, gated>>
    BY <1>2 DEF exampleVars
  <2> QED  BY <2>1, <2>2 DEF AccountInv
<1> QED  BY <1>1, <1>2 DEF Finish

(* The sum is that of what was collected and the count that of how much, in *)
(* 16 and in 8 bits, and the gates were respected (fuzz_example.c), through *)
(* every order of setups, starts, steps, finishes and resets.  The count of *)
(* an uint8_t wraps, however much is collected: the bounds of the runs are  *)
(* any numbers here.                                                        *)
THEOREM RuntimeStaysAccounted == ExampleSpec => []RuntimeIsAccounted
<1>1. ASSUME AccountInv, [ExampleNext]_<<hsmVars, exampleVars>> PROVE AccountInv'
  <2>1. CASE (HsmNext \/ UNCHANGED hsmVars) /\ UNCHANGED exampleVars
    BY <1>1, <2>1, EngineKeepsAccount
  <2>2. CASE StartCollection \/ Reset
    BY <1>1, <2>2, StartKeepsAccount
  <2>3. CASE Finish
    BY <1>1, <2>3, FinishKeepsAccount
  <2>4. ASSUME NEW setup \in Setups, Set(setup) PROVE AccountInv'
    BY <1>1, <2>4, SetKeepsAccount
  <2>5. ASSUME NEW p \in Steps, BeginCollecting(p) PROVE AccountInv'
    BY <1>1, <2>5, BeginKeepsAccount
  <2>6. ASSUME NEW p \in Steps, Collect(p) PROVE AccountInv'
    BY <1>1, <2>6, CollectKeepsAccount
  <2> QED
    BY <1>1, <2>1, <2>2, <2>3, <2>4, <2>5, <2>6 DEF ExampleNext
<1>2. AccountInv => RuntimeIsAccounted
  BY DEF AccountInv, RuntimeIsAccounted, Bound
<1> QED
  BY <1>1, <1>2, AccountStarts, PTL DEF ExampleSpec

-----------------------------------------------------------------------------
(* Time events, and the timers of the platform. *)

\* The values a counter can have.
Count == {0} \cup UNION {0..n : n \in Start \cup Period}

\* Counters count down within the range of what they are loaded with.
LEMMA CountFacts ==
  /\ 0 \in Count /\ Start \subseteq Count /\ Period \subseteq Count /\ Count \subseteq Nat
  /\ \A c \in Count : c > 1 => c - 1 \in Count
<1>1. 0 \in Count
  BY DEF Count
<1>2. \A n \in Start \cup Period : n \in Nat /\ n \in 0..n /\ 0..n \subseteq Nat
  BY TimeEventAssumption
<1>3. \A n \in Start \cup Period : 0..n \subseteq Count
  BY DEF Count
<1>4. Start \subseteq Count /\ Period \subseteq Count
  BY <1>2, <1>3
<1>5. Count \subseteq Nat
  BY <1>2 DEF Count
<1>6. ASSUME NEW c \in Count, c > 1 PROVE c - 1 \in Count
  <2>1. PICK n \in Start \cup Period : c \in 0..n
    BY <1>6 DEF Count
  <2>2. c - 1 \in 0..n
    BY <1>2, <1>6, <2>1
  <2> QED  BY <1>3, <2>2
<1> QED  BY <1>1, <1>4, <1>5, <1>6

-----------------------------------------------------------------------------
(* Type correctness. *)

\* Linking a time event keeps the types of the lists,
LEMMA LinkNewTypes ==
  ASSUME TypeOK, NEW te \in TimeEvent, LinkNew(te)
  PROVE  is_linked' \in [TimeEvent -> BOOLEAN] /\ next' \in [Link -> TimeEvent \cup {NULL}]
BY DEF TypeOK, LinkNew, Link

\* as does attaching the new list to the armed one,
LEMMA AttachedTypes ==
  ASSUME TypeOK
  PROVE  Attached \in [Link -> TimeEvent \cup {NULL}]
BY DEF TypeOK, Attached, Link

\* and the step of the walk that follows.
LEMMA UnlinkTypes ==
  ASSUME TypeOK, NEW te \in TimeEvent, Unlink(te) \/ Advance(te)
  PROVE  /\ is_linked' \in [TimeEvent -> BOOLEAN] /\ next' \in [Link -> TimeEvent \cup {NULL}]
         /\ te_link' \in TimeEvent \cup {ARMED_HEAD}
<1>1. CASE Unlink(te)
  BY <1>1, AttachedTypes DEF TypeOK, Unlink, Link
<1>2. CASE Advance(te)
  BY <1>2, AttachedTypes DEF TypeOK, Advance, Link
<1> QED  BY <1>1, <1>2

\* The type of the counters, by the name it has here.
LEMMA CntType == TypeOK <=> TypeOK /\ cnt \in [TimeEvent -> Count]
BY DEF TypeOK, Count

\* A use of a time event from any context keeps the types.
LEMMA UsesTypes ==
  ASSUME TypeOK, NEW te \in TimeEvent, Uses(te)
  PROVE  TypeOK'
<1>1. cnt \in [TimeEvent -> Count] /\ 0 \in Count /\ Start \subseteq Count
  BY CntType, CountFacts
<1>2. ASSUME NEW start \in Start, NEW p \in Period, Arm(te, start, p)
      PROVE  TypeOK'
  <2>1. cnt' \in [TimeEvent -> Count]
    BY <1>1, <1>2 DEF Arm
  <2>2. is_linked' \in [TimeEvent -> BOOLEAN] /\ next' \in [Link -> TimeEvent \cup {NULL}]
    BY <1>2, LinkNewTypes DEF Arm
  <2>3. period' \in [TimeEvent -> {0} \cup Period]
    BY <1>2 DEF Arm, TypeOK
  <2> QED  BY <1>2, <2>1, <2>2, <2>3 DEF TypeOK, Arm, Count
<1>3. ASSUME NEW start \in Start, Rearm(te, start)
      PROVE  TypeOK'
  <2>1. cnt' \in [TimeEvent -> Count]
    BY <1>1, <1>3 DEF Rearm
  <2>2. is_linked' \in [TimeEvent -> BOOLEAN] /\ next' \in [Link -> TimeEvent \cup {NULL}]
    BY <1>3, LinkNewTypes DEF Rearm, TypeOK
  <2> QED  BY <1>3, <2>1, <2>2 DEF TypeOK, Rearm, Count
<1>4. ASSUME Disarm(te) PROVE TypeOK'
  <2>1. cnt' \in [TimeEvent -> Count]
    BY <1>1, <1>4 DEF Disarm
  <2> QED  BY <1>4, <2>1 DEF TypeOK, Disarm, Count
<1> QED  BY <1>2, <1>3, <1>4 DEF Uses

\* A visit of the walk keeps the types.
LEMMA VisitTypes ==
  ASSUME TypeOK, NEW te \in TimeEvent, Visit(te)
  PROVE  TypeOK'
<1>1. /\ cnt \in [TimeEvent -> Count] /\ 0 \in Count /\ Period \subseteq Count
      /\ \A c \in Count : c > 1 => c - 1 \in Count
  BY CntType, CountFacts
<1>2. CASE Retires(te)
  <2>1. TypeOK /\ Unlink(te)
    BY <1>2 DEF Retires
  <2> QED  BY <1>2, <2>1, UnlinkTypes DEF TypeOK, Visit, Retires
<1>3. CASE Expires(te)
  <2>1. Unlink(te) \/ Advance(te)
    BY <1>3 DEF Expires
  <2>2. period[te] \in Count
    BY <1>1 DEF TypeOK
  <2>3. cnt' \in [TimeEvent -> Count]
    BY <1>1, <1>3, <2>2 DEF Expires
  <2>4. posting' \in TimeEvent \cup {NULL} /\ posting' # NULL /\ pc' = "post"
    BY <1>3, TimeEventAssumption DEF Expires
  <2> QED  BY <2>1, <2>3, <2>4, UnlinkTypes DEF TypeOK, Visit, Count
<1>4. CASE CountsDown(te)
  <2>1. cnt[te] \in Count /\ cnt[te] > 1
    BY <1>1, <1>4 DEF CountsDown
  <2>2. cnt' \in [TimeEvent -> Count]
    BY <1>1, <1>4, <2>1 DEF CountsDown
  <2>3. Unlink(te) \/ Advance(te)
    BY <1>4 DEF CountsDown
  <2> QED  BY <1>4, <2>2, <2>3, UnlinkTypes DEF TypeOK, Visit, CountsDown, Count
<1> QED  BY <1>2, <1>3, <1>4 DEF Visit

\* The fields of the time events, their links and the state of the tick keep their types:
\* no count falls below 0 or exceeds what it was armed with, and a time event waits to be
\* posted exactly between its expiration and its post.
THEOREM TypeCorrect == Spec => []TypeOK
<1>1. Init => TypeOK
  BY TimeEventAssumption DEF Init, TypeOK, Link
<1>2. TypeOK /\ [Next]_vars => TypeOK'
  <2> SUFFICES ASSUME TypeOK, [Next]_vars PROVE TypeOK'
    OBVIOUS
  <2>1. CASE UNCHANGED vars
    BY <2>1 DEF TypeOK, vars
  <2>2. CASE TickBegins
    BY <2>2 DEF TypeOK, TickBegins
  <2>3. CASE Post
    BY <2>3 DEF TypeOK, Post
  <2>4. CASE TickEnds
    BY <2>4 DEF TypeOK, TickEnds
  <2> QED  BY <2>1, <2>2, <2>3, <2>4, VisitTypes, UsesTypes DEF Next, Tick
<1> QED  BY <1>1, <1>2, PTL DEF Spec

-----------------------------------------------------------------------------
(* None is forgotten. *)

\* A time event that is armed hangs on a list, so that every tick counts it: it loses its
\* link only where its count is, or becomes, 0.
THEOREM NoneIsForgotten == Spec => []ArmedIsLinked
<1>1. Init => ArmedIsLinked
  BY DEF Init, ArmedIsLinked
<1>2. TypeOK /\ ArmedIsLinked /\ [Next]_vars => ArmedIsLinked'
  <2> SUFFICES ASSUME TypeOK, ArmedIsLinked, [Next]_vars, NEW x \in TimeEvent, cnt'[x] # 0
               PROVE  is_linked'[x]
    BY DEF ArmedIsLinked
  <2> USE DEF ArmedIsLinked, TypeOK
  <2>1. CASE UNCHANGED vars
    BY <2>1 DEF vars
  <2>2. CASE TickBegins \/ Post \/ TickEnds
    BY <2>2 DEF TickBegins, Post, TickEnds
  <2>3. ASSUME NEW te \in TimeEvent, Visit(te) PROVE is_linked'[x]
    <3>1. CASE Retires(te)
      BY <3>1 DEF Retires, Unlink
    <3>2. CASE Expires(te)
      BY <3>2 DEF Expires, Unlink, Advance
    <3>3. CASE CountsDown(te)
      BY <3>3 DEF CountsDown, Advance
    <3> QED  BY <2>3, <3>1, <3>2, <3>3 DEF Visit
  <2>4. ASSUME NEW te \in TimeEvent, Uses(te) PROVE is_linked'[x]
    <3>1. ASSUME NEW start \in Start, NEW p \in Period, Arm(te, start, p) PROVE is_linked'[x]
      BY <3>1 DEF Arm, LinkNew
    <3>2. ASSUME NEW start \in Start, Rearm(te, start) PROVE is_linked'[x]
      BY <3>2 DEF Rearm, LinkNew
    <3>3. CASE Disarm(te)
      BY <3>3 DEF Disarm
    <3> QED  BY <2>4, <3>1, <3>2, <3>3 DEF Uses
  <2> QED  BY <2>1, <2>2, <2>3, <2>4 DEF Next, Tick
<1> QED  BY <1>1, <1>2, TypeCorrect, PTL DEF Spec

-----------------------------------------------------------------------------
(* The lists.  Each lemma is about pointers nx, as next, Attached and next' are. *)

Pointers == [Link -> TimeEvent \cup {NULL}]
Closed(nx, l, chain) == \A m \in {l} \cup chain : nx[m] # NULL => nx[m] \in chain
Chain(nx, l) ==
  {te \in TimeEvent : \A chain \in SUBSET TimeEvent : Closed(nx, l, chain) => te \in chain}
Hung(nx) == Chain(nx, ARMED_HEAD) \cup Chain(nx, NEW_HEAD)
Live(nx) == {ARMED_HEAD, NEW_HEAD} \cup Hung(nx)

(* Two lists, apart, of which no two pointers lead to one time event. *)
TwoLists(nx) ==
  /\ \A l, m \in Live(nx) : nx[l] = nx[m] /\ nx[l] # NULL => l = m
  /\ Chain(nx, ARMED_HEAD) \cap Chain(nx, NEW_HEAD) = {}

(* What hangs on a link is closed under the pointers, and the least such set. *)
LEMMA ChainIsLeast ==
  ASSUME NEW nx \in Pointers, NEW l \in Link
  PROVE  /\ Chain(nx, l) \subseteq TimeEvent
         /\ Closed(nx, l, Chain(nx, l))
         /\ \A S \in SUBSET TimeEvent : Closed(nx, l, S) => Chain(nx, l) \subseteq S
<1>1. Chain(nx, l) \subseteq TimeEvent
  BY DEF Chain
<1>2. ASSUME NEW m \in {l} \cup Chain(nx, l), nx[m] # NULL PROVE nx[m] \in Chain(nx, l)
  <2>1. nx[m] \in TimeEvent
    BY <1>2, TimeEventAssumption DEF Pointers, Link, Chain
  <2>2. ASSUME NEW S \in SUBSET TimeEvent, Closed(nx, l, S) PROVE nx[m] \in S
    <3>1. m \in {l} \cup S
      BY <2>2 DEF Chain
    <3> QED  BY <1>2, <2>2, <3>1 DEF Closed
  <2> QED  BY <2>1, <2>2 DEF Chain
<1>3. ASSUME NEW S \in SUBSET TimeEvent, Closed(nx, l, S) PROVE Chain(nx, l) \subseteq S
  BY <1>3 DEF Chain
<1> QED  BY <1>1, <1>2, <1>3 DEF Closed

(* Only the pointers of what hangs on a link matter to it. *)
LEMMA ChainIsLocal ==
  ASSUME NEW nx \in Pointers, NEW ny \in Pointers, NEW l \in Link,
         \A m \in {l} \cup Chain(nx, l) : ny[m] = nx[m]
  PROVE  Chain(ny, l) = Chain(nx, l)
<1>1. /\ Chain(nx, l) \subseteq TimeEvent /\ Closed(nx, l, Chain(nx, l))
      /\ Chain(ny, l) \subseteq TimeEvent /\ Closed(ny, l, Chain(ny, l))
  BY ChainIsLeast
<1>2. Closed(ny, l, Chain(nx, l))
  BY <1>1 DEF Closed
<1>3. Chain(ny, l) \subseteq Chain(nx, l)
  BY <1>1, <1>2, ChainIsLeast
<1>4. Closed(nx, l, Chain(ny, l))
  BY <1>1, <1>3 DEF Closed
<1>5. Chain(nx, l) \subseteq Chain(ny, l)
  BY <1>1, <1>4, ChainIsLeast
<1> QED  BY <1>3, <1>5

(* What hangs on a link is what it points to, and what hangs on that. *)
LEMMA ChainUnfolds ==
  ASSUME NEW nx \in Pointers, NEW l \in Link
  PROVE  /\ nx[l] = NULL => Chain(nx, l) = {}
         /\ nx[l] # NULL => /\ nx[l] \in TimeEvent
                            /\ Chain(nx, l) = {nx[l]} \cup Chain(nx, nx[l])
<1>1. ASSUME nx[l] = NULL PROVE Chain(nx, l) = {}
  <2>1. Closed(nx, l, {})
    BY <1>1 DEF Closed
  <2> QED  BY <2>1, ChainIsLeast
<1>2. ASSUME nx[l] # NULL
      PROVE nx[l] \in TimeEvent /\ Chain(nx, l) = {nx[l]} \cup Chain(nx, nx[l])
  <2>1. nx[l] \in TimeEvent /\ nx[l] \in Link
    BY <1>2 DEF Pointers, Link
  <2>2. /\ Chain(nx, l) \subseteq TimeEvent /\ Closed(nx, l, Chain(nx, l))
        /\ Chain(nx, nx[l]) \subseteq TimeEvent /\ Closed(nx, nx[l], Chain(nx, nx[l]))
    BY <2>1, ChainIsLeast
  <2>3. Closed(nx, l, {nx[l]} \cup Chain(nx, nx[l]))
    BY <2>2 DEF Closed
  <2>4. Chain(nx, l) \subseteq {nx[l]} \cup Chain(nx, nx[l])
    BY <2>1, <2>2, <2>3, ChainIsLeast
  <2>5. nx[l] \in Chain(nx, l)
    BY <1>2, <2>2 DEF Closed
  <2>6. Closed(nx, nx[l], Chain(nx, l))
    BY <2>2, <2>5 DEF Closed
  <2>7. Chain(nx, nx[l]) \subseteq Chain(nx, l)
    BY <2>1, <2>2, <2>6, ChainIsLeast
  <2> QED  BY <2>1, <2>4, <2>5, <2>7
<1> QED  BY <1>1, <1>2

LEMMA ChainIsTransitive ==
  ASSUME NEW nx \in Pointers, NEW l \in Link, NEW m \in Chain(nx, l)
  PROVE  Chain(nx, m) \subseteq Chain(nx, l)
<1>1. Chain(nx, l) \subseteq TimeEvent /\ Closed(nx, l, Chain(nx, l)) /\ m \in Link
  BY ChainIsLeast DEF Link
<1>2. Closed(nx, m, Chain(nx, l))
  BY <1>1 DEF Closed
<1> QED  BY <1>1, <1>2, ChainIsLeast

LEMMA ChainHasPredecessors ==
  ASSUME NEW nx \in Pointers, NEW l \in Link, NEW x \in Chain(nx, l)
  PROVE  \E m \in {l} \cup Chain(nx, l) : nx[m] = x
<1> SUFFICES ASSUME \A m \in {l} \cup Chain(nx, l) : nx[m] # x PROVE FALSE
  OBVIOUS
<1>1. Chain(nx, l) \subseteq TimeEvent /\ Closed(nx, l, Chain(nx, l))
  BY ChainIsLeast
<1>2. Closed(nx, l, Chain(nx, l) \ {x})
  BY <1>1 DEF Closed
<1>3. Chain(nx, l) \ {x} \in SUBSET TimeEvent
  BY <1>1
<1> QED  BY <1>2, <1>3, ChainIsLeast

(* No time event hangs on itself: a circle would have to be entered by a second pointer. *)
LEMMA ListsAreOpen ==
  ASSUME NEW nx \in Pointers, TwoLists(nx), NEW h \in {ARMED_HEAD, NEW_HEAD},
         NEW x \in {h} \cup Chain(nx, h)
  PROVE  x \notin Chain(nx, x)
<1>1. /\ h \in Link /\ h \notin TimeEvent
      /\ Chain(nx, h) \subseteq TimeEvent /\ Closed(nx, h, Chain(nx, h))
  BY ChainIsLeast, TimeEventAssumption DEF Link
<1>2. CASE x = h
  BY <1>1, <1>2
<1>3. ASSUME x \in Chain(nx, h), x \in Chain(nx, x) PROVE FALSE
  <2> DEFINE circle == Chain(nx, x)
  <2>1. x \in Link /\ circle \subseteq Chain(nx, h)
    BY <1>1, <1>3, ChainIsTransitive DEF Link
  <2>2. \A y \in circle : \E m \in circle : nx[m] = y
    BY <1>3, <2>1, ChainHasPredecessors
  <2>3. \A m \in {h} \cup Chain(nx, h) : nx[m] \in circle => m \in circle
    <3> SUFFICES ASSUME NEW m \in {h} \cup Chain(nx, h), nx[m] \in circle PROVE m \in circle
      OBVIOUS
    <3>1. PICK k \in circle : nx[k] = nx[m]
      BY <2>2
    <3>2. nx[m] # NULL
      BY <1>1, <2>1, TimeEventAssumption
    <3>3. m \in Live(nx) /\ k \in Live(nx)
      BY <2>1 DEF Live, Hung
    <3>4. m = k
      BY <3>1, <3>2, <3>3 DEF TwoLists
    <3> QED  BY <3>4
  <2>4. Closed(nx, h, Chain(nx, h) \ circle)
    BY <1>1, <2>1, <2>3 DEF Closed
  <2>5. Chain(nx, h) \subseteq Chain(nx, h) \ circle
    BY <1>1, <2>4, ChainIsLeast
  <2> QED  BY <1>3, <2>5
<1> QED  BY <1>2, <1>3


(* Facts cited by each of the operations on the lists. *)
LEMMA HeadsAreLinks ==
  /\ {ARMED_HEAD, NEW_HEAD} \subseteq Link /\ TimeEvent \subseteq Link
  /\ ARMED_HEAD # NEW_HEAD /\ ARMED_HEAD \notin TimeEvent /\ NEW_HEAD \notin TimeEvent
  /\ NULL \notin TimeEvent
BY TimeEventAssumption DEF Link

(* A time event that hangs on neither list becomes the first of the new one. *)
Prepended(nx, te) == [nx EXCEPT ![te] = nx[NEW_HEAD], ![NEW_HEAD] = te]
LEMMA PrependKeepsLists ==
  ASSUME NEW nx \in Pointers, TwoLists(nx), NEW te \in TimeEvent, te \notin Hung(nx)
  PROVE  LET ny == Prepended(nx, te) IN
         /\ ny \in Pointers /\ TwoLists(ny)
         /\ Chain(ny, NEW_HEAD) = Chain(nx, NEW_HEAD) \cup {te}
         /\ \A l \in {ARMED_HEAD} \cup Chain(nx, ARMED_HEAD) : Chain(ny, l) = Chain(nx, l)
<1> DEFINE ny == Prepended(nx, te)
           A == Chain(nx, ARMED_HEAD)
           N == Chain(nx, NEW_HEAD)
<1>1. /\ ny \in Pointers /\ ny[te] = nx[NEW_HEAD] /\ ny[NEW_HEAD] = te
      /\ \A m \in Link \ {te, NEW_HEAD} : ny[m] = nx[m]
  BY HeadsAreLinks DEF Prepended, Pointers
<1>2. A \subseteq TimeEvent /\ N \subseteq TimeEvent
  BY ChainIsLeast, HeadsAreLinks
<1> HIDE DEF ny
<1>3. ASSUME NEW l \in {ARMED_HEAD} \cup A PROVE Chain(ny, l) = Chain(nx, l)
  <2>1. l \in Link /\ Chain(nx, l) \subseteq A
    BY <1>2, HeadsAreLinks, ChainIsTransitive
  <2>2. \A m \in {l} \cup Chain(nx, l) : m \in Link \ {te, NEW_HEAD}
    BY <1>2, <2>1, HeadsAreLinks DEF Hung
  <2> QED  BY <1>1, <2>1, <2>2, ChainIsLocal
<1>4. Chain(ny, NEW_HEAD) = N \cup {te}
  <2>1. Chain(ny, NEW_HEAD) = {te} \cup Chain(ny, te)
    BY <1>1, HeadsAreLinks, ChainUnfolds
  <2>2. CASE nx[NEW_HEAD] = NULL
    BY <1>1, <2>1, <2>2, HeadsAreLinks, ChainUnfolds
  <2>3. CASE nx[NEW_HEAD] # NULL
    <3> DEFINE first == nx[NEW_HEAD]
    <3>1. first \in TimeEvent /\ N = {first} \cup Chain(nx, first)
      BY <2>3, HeadsAreLinks, ChainUnfolds
    <3>2. \A m \in {first} \cup Chain(nx, first) : m \in Link \ {te, NEW_HEAD}
      BY <1>2, <3>1, HeadsAreLinks DEF Hung
    <3>3. Chain(ny, first) = Chain(nx, first)
      BY <1>1, <3>1, <3>2, HeadsAreLinks, ChainIsLocal
    <3>4. Chain(ny, te) = {first} \cup Chain(ny, first)
      BY <1>1, <2>3, HeadsAreLinks, ChainUnfolds
    <3> QED  BY <2>1, <3>1, <3>3, <3>4
  <2> QED  BY <2>2, <2>3
<1>5. Chain(ny, ARMED_HEAD) = A
  BY <1>3
<1>6. TwoLists(ny)
  <2>1. Live(ny) = Live(nx) \cup {te}
    BY <1>4, <1>5 DEF Live, Hung
  <2>2. ASSUME NEW l \in Live(ny), NEW m \in Live(ny), ny[l] = ny[m], ny[l] # NULL
        PROVE  l = m
    <3>1. Live(nx) \subseteq Link /\ te \notin Live(nx) /\ NEW_HEAD \in Live(nx)
      BY <1>2, HeadsAreLinks DEF Live, Hung
    <3>2. \A k \in Live(nx) : nx[k] # te
      BY <1>2, HeadsAreLinks, ChainIsLeast DEF Closed, Live, Hung
    <3>3. \A k \in Live(nx) \ {NEW_HEAD} : ny[k] = nx[k]
      BY <1>1, <3>1
    <3> QED  BY <1>1, <2>1, <2>2, <3>1, <3>2, <3>3 DEF TwoLists
  <2>3. A \cap N = {} /\ te \notin A
    BY DEF TwoLists, Hung
  <2> QED  BY <1>4, <1>5, <2>2, <2>3 DEF TwoLists
<1> QED  BY <1>1, <1>3, <1>4, <1>6 DEF ny

(* The new list is attached where the armed one ends. *)
Joined(nx, l) == [nx EXCEPT ![l] = nx[NEW_HEAD], ![NEW_HEAD] = NULL]
LEMMA JoinKeepsLists ==
  ASSUME NEW nx \in Pointers, TwoLists(nx),
         NEW l \in {ARMED_HEAD} \cup Chain(nx, ARMED_HEAD), nx[l] = NULL
  PROVE  LET ny == Joined(nx, l) IN
         /\ ny \in Pointers /\ TwoLists(ny)
         /\ Chain(ny, ARMED_HEAD) = Hung(nx) /\ Chain(ny, NEW_HEAD) = {}
         /\ Chain(ny, l) = Chain(nx, NEW_HEAD)
<1> DEFINE ny == Joined(nx, l)
           A == Chain(nx, ARMED_HEAD)
           N == Chain(nx, NEW_HEAD)
<1>1. A \subseteq TimeEvent /\ N \subseteq TimeEvent /\ A \cap N = {}
  BY ChainIsLeast, HeadsAreLinks DEF TwoLists
<1>2. l \in Link /\ l # NEW_HEAD /\ l \notin N
  BY <1>1, HeadsAreLinks
<1>3. /\ ny \in Pointers /\ ny[l] = nx[NEW_HEAD] /\ ny[NEW_HEAD] = NULL
      /\ \A m \in Link \ {l, NEW_HEAD} : ny[m] = nx[m]
  BY <1>2, HeadsAreLinks DEF Joined, Pointers
<1> HIDE DEF ny
<1>4. Chain(ny, NEW_HEAD) = {}
  BY <1>3, HeadsAreLinks, ChainUnfolds
<1>5. Chain(ny, l) = N
  <2>1. CASE nx[NEW_HEAD] = NULL
    BY <1>2, <1>3, <2>1, HeadsAreLinks, ChainUnfolds
  <2>2. CASE nx[NEW_HEAD] # NULL
    <3> DEFINE first == nx[NEW_HEAD]
    <3>1. first \in TimeEvent /\ N = {first} \cup Chain(nx, first)
      BY <2>2, HeadsAreLinks, ChainUnfolds
    <3>2. \A m \in {first} \cup Chain(nx, first) : m \in Link \ {l, NEW_HEAD}
      BY <1>1, <1>2, <3>1, HeadsAreLinks
    <3>3. Chain(ny, first) = Chain(nx, first)
      BY <1>3, <3>1, <3>2, HeadsAreLinks, ChainIsLocal
    <3>4. Chain(ny, l) = {first} \cup Chain(ny, first)
      BY <1>2, <1>3, <2>2, ChainUnfolds
    <3> QED  BY <3>1, <3>3, <3>4
  <2> QED  BY <2>1, <2>2
<1>6. Chain(ny, ARMED_HEAD) = A \cup N
  <2> DEFINE S == Chain(ny, ARMED_HEAD)
  <2>1. /\ S \subseteq TimeEvent /\ Closed(ny, ARMED_HEAD, S)
        /\ Closed(nx, ARMED_HEAD, A) /\ Closed(nx, NEW_HEAD, N)
    BY <1>3, ChainIsLeast, HeadsAreLinks
  <2> HIDE DEF S
  <2>2. Closed(ny, ARMED_HEAD, A \cup N)
    BY <1>1, <1>2, <1>3, <2>1, HeadsAreLinks DEF Closed
  <2>3. S \subseteq A \cup N
    BY <1>1, <1>3, <2>2, ChainIsLeast, HeadsAreLinks DEF S
  <2>4. Closed(nx, ARMED_HEAD, S)
    BY <1>3, <2>1, HeadsAreLinks DEF Closed
  <2>5. A \subseteq S
    BY <2>1, <2>4, ChainIsLeast, HeadsAreLinks
  <2>6. l = ARMED_HEAD \/ l \in S
    BY <2>5
  <2>7. N \subseteq S
    <3>1. CASE l = ARMED_HEAD
      BY <1>5, <3>1 DEF S
    <3>2. CASE l \in S
      BY <1>3, <1>5, <3>2, ChainIsTransitive, HeadsAreLinks DEF S
    <3> QED  BY <2>6, <3>1, <3>2
  <2> QED  BY <2>3, <2>5, <2>7 DEF S
<1>7. TwoLists(ny)
  <2>1. Live(ny) = Live(nx)
    BY <1>4, <1>6 DEF Live, Hung
  <2>2. ASSUME NEW k \in Live(ny), NEW m \in Live(ny), ny[k] = ny[m], ny[k] # NULL
        PROVE  k = m
    <3>1. Live(nx) \subseteq Link /\ NEW_HEAD \in Live(nx) /\ l \in Live(nx)
      BY <1>1, HeadsAreLinks DEF Live, Hung
    <3> QED  BY <1>3, <2>1, <2>2, <3>1 DEF TwoLists
  <2> QED  BY <1>4, <2>2 DEF TwoLists
<1> QED  BY <1>3, <1>4, <1>5, <1>6, <1>7 DEF ny, Hung

(* A time event of the armed list is unlinked. *)
Unhooked(nx, l) == [nx EXCEPT ![l] = nx[nx[l]]]
LEMMA UnhookKeepsLists ==
  ASSUME NEW nx \in Pointers, TwoLists(nx),
         NEW l \in {ARMED_HEAD} \cup Chain(nx, ARMED_HEAD), nx[l] # NULL
  PROVE  LET ny == Unhooked(nx, l) IN
         /\ ny \in Pointers /\ TwoLists(ny)
         /\ Chain(ny, ARMED_HEAD) = Chain(nx, ARMED_HEAD) \ {nx[l]}
         /\ Chain(ny, NEW_HEAD) = Chain(nx, NEW_HEAD)
         /\ Chain(ny, l) = Chain(nx, l) \ {nx[l]}
         /\ l = ARMED_HEAD \/ l \in Chain(ny, ARMED_HEAD)
         /\ nx[l] \in Chain(nx, ARMED_HEAD) /\ nx[l] # l
         /\ Chain(nx, nx[l]) = Chain(nx, l) \ {nx[l]}
<1> DEFINE ny == Unhooked(nx, l)
           te == nx[l]
           A == Chain(nx, ARMED_HEAD)
           N == Chain(nx, NEW_HEAD)
<1>1. A \subseteq TimeEvent /\ N \subseteq TimeEvent /\ A \cap N = {}
  BY ChainIsLeast, HeadsAreLinks DEF TwoLists
<1>2. l \in Link /\ l # NEW_HEAD /\ l \notin N
  BY <1>1, HeadsAreLinks
<1>3. te \in TimeEvent /\ Chain(nx, l) = {te} \cup Chain(nx, te)
  BY <1>2, ChainUnfolds
<1>4. te \in A /\ Chain(nx, l) \subseteq A /\ Chain(nx, te) \subseteq A
  <2>1. te \in Chain(nx, l)
    BY <1>3
  <2>2. CASE l = ARMED_HEAD
    BY <1>3, <2>1, <2>2
  <2>3. CASE l \in A
    BY <1>3, <2>1, <2>3, ChainIsTransitive, HeadsAreLinks
  <2> QED  BY <2>2, <2>3
<1>5. l \notin Chain(nx, l) /\ te \notin Chain(nx, te)
  BY <1>4, ListsAreOpen
<1>6. l # te
  BY <1>3, <1>5
<1>7. /\ ny \in Pointers /\ ny[l] = nx[te]
      /\ \A m \in Link \ {l} : ny[m] = nx[m]
  BY <1>2, <1>3, HeadsAreLinks DEF Unhooked, Pointers
<1> HIDE DEF ny, te
<1>8. Chain(ny, NEW_HEAD) = N
  <2>1. \A m \in {NEW_HEAD} \cup N : m \in Link \ {l}
    BY <1>1, <1>2, HeadsAreLinks
  <2> QED  BY <1>7, <2>1, ChainIsLocal, HeadsAreLinks
<1>9. Chain(ny, te) = Chain(nx, te)
  <2>1. \A m \in {te} \cup Chain(nx, te) : m \in Link \ {l}
    BY <1>1, <1>3, <1>4, <1>5, <1>6, HeadsAreLinks
  <2> QED  BY <1>3, <1>7, <2>1, ChainIsLocal, HeadsAreLinks
<1>10. Chain(ny, l) = Chain(nx, te)
  <2>1. te \in Link /\ ny[te] = nx[te] /\ ny[te] = ny[l]
    BY <1>3, <1>6, <1>7, HeadsAreLinks
  <2>2. Chain(ny, l) = Chain(ny, te)
    <3>0. /\ ny[l] = NULL => Chain(ny, l) = {} /\ Chain(ny, te) = {}
          /\ ny[l] # NULL => /\ Chain(ny, l) = {ny[l]} \cup Chain(ny, ny[l])
                             /\ Chain(ny, te) = {ny[te]} \cup Chain(ny, ny[te])
      BY <1>2, <1>7, <2>1, ChainUnfolds
    <3>1. CASE ny[l] = NULL
      BY <3>0, <3>1
    <3>2. CASE ny[l] # NULL
      <4>1. ny[te] = ny[l]
        BY <2>1
      <4> QED  BY <3>0, <3>2, <4>1
    <3> QED  BY <3>1, <3>2
  <2> QED  BY <1>9, <2>2
<1>11. \A m \in Live(nx) : nx[m] = te => m = l
  <2>1. l \in Live(nx) /\ te # NULL
    BY <1>3, HeadsAreLinks DEF Live, Hung
  <2> QED  BY <2>1 DEF TwoLists, te
<1>12. Chain(ny, ARMED_HEAD) = A \ {te} /\ (l = ARMED_HEAD \/ l \in Chain(ny, ARMED_HEAD))
  <2> DEFINE S == Chain(ny, ARMED_HEAD)
  <2>1. /\ S \subseteq TimeEvent /\ Closed(ny, ARMED_HEAD, S)
        /\ Closed(nx, ARMED_HEAD, A) /\ Closed(nx, l, Chain(nx, l))
        /\ Closed(nx, te, Chain(nx, te))
    BY <1>2, <1>3, <1>7, ChainIsLeast, HeadsAreLinks
  <2> HIDE DEF S
  <2>2. Closed(ny, ARMED_HEAD, A \ {te})
    <3> SUFFICES ASSUME NEW m \in {ARMED_HEAD} \cup (A \ {te}), ny[m] # NULL
                 PROVE  ny[m] \in A \ {te}
      BY DEF Closed
    <3>1. CASE m = l
      <4>1. nx[te] \in Chain(nx, te)
        BY <1>7, <2>1, <3>1 DEF Closed
      <4> QED  BY <1>4, <1>5, <1>7, <3>1, <4>1
    <3>2. CASE m # l
      <4>1. m \in Link \ {l} /\ m \in Live(nx)
        BY <1>1, <3>2, HeadsAreLinks DEF Live, Hung
      <4> QED  BY <1>7, <1>11, <2>1, <4>1 DEF Closed
    <3> QED  BY <3>1, <3>2
  <2>3. S \subseteq A \ {te}
    BY <1>1, <1>7, <2>2, ChainIsLeast, HeadsAreLinks DEF S
  <2>4. Closed(nx, ARMED_HEAD, S \cup Chain(nx, l))
    <3> SUFFICES ASSUME NEW m \in {ARMED_HEAD} \cup S \cup Chain(nx, l), nx[m] # NULL
                 PROVE  nx[m] \in S \cup Chain(nx, l)
      BY DEF Closed
    <3>1. CASE m = l \/ m \in Chain(nx, l)
      BY <2>1, <3>1 DEF Closed
    <3>2. CASE m # l /\ m \in {ARMED_HEAD} \cup S
      <4>1. m \in Link \ {l}
        BY <2>1, <3>2, HeadsAreLinks
      <4> QED  BY <1>7, <2>1, <3>2, <4>1 DEF Closed
    <3> QED  BY <3>1, <3>2
  <2>5. A \subseteq S \cup Chain(nx, l)
    BY <1>1, <1>4, <2>1, <2>4, ChainIsLeast, HeadsAreLinks
  <2>6. l = ARMED_HEAD \/ l \in S
    BY <1>5, <2>5
  <2>7. Chain(nx, te) \subseteq S
    <3>1. Chain(ny, l) \subseteq S
      BY <1>7, <2>6, ChainIsTransitive, HeadsAreLinks DEF S
    <3> QED  BY <1>10, <3>1
  <2> QED  BY <1>3, <2>3, <2>5, <2>6, <2>7 DEF S
<1>13. TwoLists(ny)
  <2>1. Live(ny) = Live(nx) \ {te}
    BY <1>1, <1>3, <1>4, <1>8, <1>12, HeadsAreLinks DEF Live, Hung
  <2>2. ASSUME NEW k \in Live(ny), NEW m \in Live(ny), ny[k] = ny[m], ny[k] # NULL
        PROVE  k = m
    <3>1. Live(nx) \subseteq Link /\ l \in Live(nx) /\ te \in Live(nx)
      BY <1>1, <1>4, HeadsAreLinks DEF Live, Hung
    <3> QED  BY <1>7, <2>1, <2>2, <3>1 DEF TwoLists
  <2> QED  BY <1>1, <1>8, <1>12, <2>2 DEF TwoLists
<1>14. Chain(nx, te) = Chain(nx, l) \ {te}
  BY <1>3, <1>5
<1> QED  BY <1>4, <1>6, <1>7, <1>8, <1>10, <1>12, <1>13, <1>14 DEF ny, te


-----------------------------------------------------------------------------
(* The lists of the time events. *)

Linked == {te \in TimeEvent : is_linked[te]}
Uncounted == Chain(next, te_link) \cup Chain(next, NEW_HEAD)

(* ListsAreSound in the terms above. *)
SoundLists ==
  /\ next \in Pointers /\ TwoLists(next) /\ Hung(next) = Linked
  /\ pc # "idle" => te_link \in {ARMED_HEAD} \cup Chain(next, ARMED_HEAD)

LEMMA ReachedIsChain ==
  /\ \A l \in Link : Reached(l) = Chain(next, l)
  /\ \A l \in Link : Reached(l)' = Chain(next', l)
BY DEF Reached, Follows, Chain, Closed

LEMMA SoundListsAre ==
  /\ TypeOK => (ListsAreSound <=> SoundLists)
  /\ TypeOK' => (ListsAreSound' <=> SoundLists')
<1>1. /\ Reached(ARMED_HEAD) = Chain(next, ARMED_HEAD)
      /\ Reached(NEW_HEAD) = Chain(next, NEW_HEAD)
      /\ Reached(ARMED_HEAD)' = Chain(next', ARMED_HEAD)
      /\ Reached(NEW_HEAD)' = Chain(next', NEW_HEAD)
  BY ReachedIsChain, HeadsAreLinks
<1> DEFINE L == {l \in Link : l \in {ARMED_HEAD, NEW_HEAD} \/ is_linked[l]}
<1>2. ASSUME TypeOK PROVE ListsAreSound <=> SoundLists
  <2>1. next \in Pointers
    BY <1>2 DEF TypeOK, Pointers
  <2>2. Chain(next, ARMED_HEAD) \subseteq TimeEvent /\ Chain(next, NEW_HEAD) \subseteq TimeEvent
    BY DEF Chain
  <2>3. Hung(next) = Linked => \A l : l \in Live(next) <=>
          l \in Link /\ (l \in {ARMED_HEAD, NEW_HEAD} \/ (l \in TimeEvent /\ is_linked[l]))
    BY HeadsAreLinks DEF Live, Linked
  <2>4. Hung(next) = Linked => (TwoLists(next) <=>
          /\ \A l, m \in L : next[l] = next[m] /\ next[l] # NULL => l = m
          /\ Chain(next, ARMED_HEAD) \cap Chain(next, NEW_HEAD) = {})
    BY <2>3, HeadsAreLinks DEF TwoLists, Link
  <2> QED  BY <1>1, <2>1, <2>4 DEF ListsAreSound, SoundLists, Hung, Linked
<1>3. ASSUME TypeOK' PROVE ListsAreSound' <=> SoundLists'
  <2>1. next' \in Pointers
    BY <1>3 DEF TypeOK, Pointers
  <2>2. Chain(next', ARMED_HEAD) \subseteq TimeEvent /\ Chain(next', NEW_HEAD) \subseteq TimeEvent
    BY DEF Chain
  <2>3. Hung(next') = Linked' => \A l : l \in Live(next') <=>
          l \in Link /\ (l \in {ARMED_HEAD, NEW_HEAD} \/ (l \in TimeEvent /\ is_linked'[l]))
    BY HeadsAreLinks DEF Live, Linked
  <2>4. Hung(next') = Linked' => (TwoLists(next') <=>
          /\ \A l, m \in L' : next'[l] = next'[m] /\ next'[l] # NULL => l = m
          /\ Chain(next', ARMED_HEAD) \cap Chain(next', NEW_HEAD) = {})
    BY <2>3, HeadsAreLinks DEF TwoLists, Link
  <2> QED  BY <1>1, <2>1, <2>4 DEF ListsAreSound, SoundLists, Hung, Linked, TwoLists
<1> QED  BY <1>2, <1>3

(* The invariant: no part of it is inductive by itself. *)
ListInv == TypeOK /\ SoundLists /\ ArmedIsLinked

(* To be linked, wherever the walk has come to: what is behind its link stays so. *)
LEMMA LinkNewIs ==
  ASSUME ListInv, NEW te \in TimeEvent, LinkNew(te)
  PROVE  /\ next' \in Pointers /\ TwoLists(next')
         /\ Hung(next') = Linked' /\ Linked' = Linked \cup {te}
         /\ Chain(next', NEW_HEAD) = IF te \in Linked THEN Chain(next, NEW_HEAD)
                                     ELSE Chain(next, NEW_HEAD) \cup {te}
         /\ \A l \in {ARMED_HEAD} \cup Chain(next, ARMED_HEAD) :
              Chain(next', l) = Chain(next, l)
<1>1. next \in Pointers /\ TwoLists(next) /\ Hung(next) = Linked
  BY DEF ListInv, SoundLists
<1>2. CASE is_linked[te]
  BY <1>1, <1>2 DEF LinkNew, Linked
<1>3. CASE ~is_linked[te]
  <2>1. next' = Prepended(next, te) /\ is_linked' = [is_linked EXCEPT ![te] = TRUE]
    BY <1>3 DEF LinkNew, Prepended
  <2>2. te \notin Hung(next) /\ Linked' = Linked \cup {te}
    BY <1>1, <1>3, <2>1 DEF Linked, ListInv, TypeOK
  <2>3. /\ next' \in Pointers /\ TwoLists(next')
        /\ Chain(next', NEW_HEAD) = Chain(next, NEW_HEAD) \cup {te}
        /\ \A l \in {ARMED_HEAD} \cup Chain(next, ARMED_HEAD) : Chain(next', l) = Chain(next, l)
    BY <1>1, <2>1, <2>2, PrependKeepsLists
  <2>4. Hung(next') = Linked'
    BY <1>1, <2>2, <2>3 DEF Hung
  <2> QED  BY <1>1, <2>2, <2>3, <2>4
<1> QED  BY <1>2, <1>3

(* Where the walk looks for the next time event. *)
LEMMA AttachedIs ==
  ASSUME ListInv, pc # "idle"
  PROVE  /\ Attached \in Pointers /\ TwoLists(Attached) /\ Hung(Attached) = Linked
         /\ te_link \in {ARMED_HEAD} \cup Chain(Attached, ARMED_HEAD)
         /\ Chain(Attached, te_link) \cup Chain(Attached, NEW_HEAD) = Uncounted
         /\ \A m \in TimeEvent \ {te_link} : Attached[m] = next[m]
<1>1. /\ next \in Pointers /\ TwoLists(next) /\ Hung(next) = Linked
      /\ te_link \in {ARMED_HEAD} \cup Chain(next, ARMED_HEAD)
  BY DEF ListInv, SoundLists
<1>2. CASE next[te_link] # NULL
  <2>1. Attached = next
    BY <1>2 DEF Attached
  <2> QED  BY <1>1, <2>1 DEF Uncounted
<1>3. CASE next[te_link] = NULL
  <2>1. Attached = Joined(next, te_link)
    BY <1>3 DEF Attached, Joined
  <2>2. /\ Attached \in Pointers /\ TwoLists(Attached)
        /\ Chain(Attached, ARMED_HEAD) = Hung(next) /\ Chain(Attached, NEW_HEAD) = {}
        /\ Chain(Attached, te_link) = Chain(next, NEW_HEAD)
    BY <1>1, <1>3, <2>1, JoinKeepsLists
  <2>3. te_link \in Link
    BY <1>1, HeadsAreLinks DEF Chain
  <2>4. Chain(next, te_link) = {}
    BY <1>1, <1>3, <2>3, ChainUnfolds
  <2>5. \A m \in TimeEvent \ {te_link} : Attached[m] = next[m]
    BY <1>1, <2>1, <2>3, HeadsAreLinks DEF Joined, Pointers
  <2> QED  BY <1>1, <2>2, <2>4, <2>5 DEF Hung, Uncounted
<1> QED  BY <1>2, <1>3

(* A round of the walk: it attends to one that was uncounted, and to that alone. *)
LEMMA RoundIs ==
  ASSUME ListInv, pc # "idle", NEW te \in TimeEvent, te = Attached[te_link],
         Unlink(te) \/ Advance(te)
  PROVE  /\ te \in Uncounted /\ te \in Linked
         /\ next' \in Pointers /\ TwoLists(next') /\ Hung(next') = Linked'
         /\ te_link' \in {ARMED_HEAD} \cup Chain(next', ARMED_HEAD)
         /\ Uncounted' = Uncounted \ {te}
         /\ Linked' = IF Unlink(te) THEN Linked \ {te} ELSE Linked
<1>1. /\ Attached \in Pointers /\ TwoLists(Attached) /\ Hung(Attached) = Linked
      /\ te_link \in {ARMED_HEAD} \cup Chain(Attached, ARMED_HEAD)
      /\ Chain(Attached, te_link) \cup Chain(Attached, NEW_HEAD) = Uncounted
      /\ \A m \in TimeEvent \ {te_link} : Attached[m] = next[m]
  BY AttachedIs
<1> DEFINE nx == Attached
           ny == Unhooked(nx, te_link)
<1>2. nx[te_link] # NULL
  BY HeadsAreLinks
<1>3. /\ ny \in Pointers /\ TwoLists(ny)
      /\ Chain(ny, ARMED_HEAD) = Chain(nx, ARMED_HEAD) \ {te}
      /\ Chain(ny, NEW_HEAD) = Chain(nx, NEW_HEAD)
      /\ Chain(ny, te_link) = Chain(nx, te_link) \ {te}
      /\ te_link = ARMED_HEAD \/ te_link \in Chain(ny, ARMED_HEAD)
      /\ te \in Chain(nx, ARMED_HEAD) /\ te # te_link
      /\ Chain(nx, te) = Chain(nx, te_link) \ {te}
  BY <1>1, <1>2, UnhookKeepsLists
<1>4. te_link \in Link /\ te \in Chain(nx, te_link)
  <2>1. te_link \in Link
    BY <1>1, HeadsAreLinks DEF Chain
  <2> QED  BY <1>1, <1>2, <2>1, ChainUnfolds
<1>5. te \in Uncounted /\ te \in Linked /\ te \notin Chain(nx, NEW_HEAD)
  BY <1>1, <1>3, <1>4 DEF Hung, TwoLists
<1>6. CASE Unlink(te)
  <2>1. next' = ny /\ te_link' = te_link /\ is_linked' = [is_linked EXCEPT ![te] = FALSE]
    BY <1>1, <1>3, <1>6 DEF Unlink, Unhooked
  <2>2. Linked' = Linked \ {te}
    BY <2>1 DEF Linked, ListInv, TypeOK
  <2>3. Hung(next') = Linked'
    BY <1>1, <1>3, <1>5, <2>1, <2>2 DEF Hung
  <2>4. Uncounted' = Uncounted \ {te}
    BY <1>1, <1>3, <1>5, <2>1 DEF Uncounted
  <2> QED  BY <1>3, <1>5, <1>6, <2>1, <2>2, <2>3, <2>4
<1>7. CASE Advance(te) /\ ~Unlink(te)
  <2>1. next' = nx /\ te_link' = te /\ Linked' = Linked
    BY <1>7 DEF Advance, Linked
  <2>2. Uncounted' = Uncounted \ {te}
    BY <1>1, <1>3, <1>5, <2>1 DEF Uncounted
  <2> QED  BY <1>1, <1>3, <1>5, <1>7, <2>1, <2>2
<1> QED  BY <1>6, <1>7


(* A use of a time event keeps the lists, and all that is uncounted so. *)
LEMMA UsesAre ==
  ASSUME ListInv, NEW te \in TimeEvent, Uses(te)
  PROVE  SoundLists'
<1>1. next \in Pointers /\ pc' = pc /\ te_link' = te_link
  BY DEF ListInv, SoundLists, Uses, Arm, Rearm, Disarm
<1>2. CASE LinkNew(te)
  <2>1. /\ next' \in Pointers /\ TwoLists(next') /\ Hung(next') = Linked'
        /\ \A l \in {ARMED_HEAD} \cup Chain(next, ARMED_HEAD) : Chain(next', l) = Chain(next, l)
    BY <1>2, LinkNewIs
  <2>2. Chain(next', ARMED_HEAD) = Chain(next, ARMED_HEAD)
    BY <2>1
  <2>3. pc # "idle" => te_link \in {ARMED_HEAD} \cup Chain(next, ARMED_HEAD)
    BY DEF ListInv, SoundLists
  <2> QED  BY <1>1, <2>1, <2>2, <2>3 DEF SoundLists
<1>3. CASE UNCHANGED <<is_linked, next>>
  BY <1>1, <1>3 DEF ListInv, SoundLists, Linked
<1>4. LinkNew(te) \/ UNCHANGED <<is_linked, next>>
  BY DEF Uses, Arm, Rearm, Disarm
<1> QED  BY <1>2, <1>3, <1>4

LEMMA SoundListsHold == Spec => []ListInv
<1>1. Init => SoundLists
  <2> SUFFICES ASSUME Init PROVE SoundLists
    OBVIOUS
  <2>1. next \in Pointers /\ \A l \in Link : next[l] = NULL
    BY DEF Init, Pointers
  <2>2. Chain(next, ARMED_HEAD) = {} /\ Chain(next, NEW_HEAD) = {}
    BY <2>1, ChainUnfolds, HeadsAreLinks
  <2>3. Hung(next) = Linked
    BY <2>2 DEF Hung, Linked, Init
  <2>4. TwoLists(next)
    BY <2>1, <2>2, HeadsAreLinks DEF TwoLists, Live, Hung
  <2> QED  BY <2>1, <2>3, <2>4 DEF SoundLists, Init
<1>2. ListInv /\ [Next]_vars => SoundLists'
  <2> SUFFICES ASSUME ListInv, [Next]_vars PROVE SoundLists'
    OBVIOUS
  <2>1. CASE UNCHANGED vars
    BY <2>1 DEF ListInv, SoundLists, Linked, vars
  <2>2. CASE TickBegins
    BY <2>2 DEF ListInv, SoundLists, Linked, TickBegins
  <2>3. CASE Post
    BY <2>3 DEF ListInv, SoundLists, Linked, Post
  <2>4. CASE TickEnds
    BY <2>4 DEF ListInv, SoundLists, Linked, TickEnds
  <2>5. ASSUME NEW te \in TimeEvent, Visit(te) PROVE SoundLists'
    <3>1. pc # "idle" /\ te = Attached[te_link] /\ (Unlink(te) \/ Advance(te))
      BY <2>5 DEF Visit, Retires, Expires, CountsDown
    <3> QED  BY <3>1, RoundIs DEF SoundLists
  <2>6. ASSUME NEW te \in TimeEvent, Uses(te) PROVE SoundLists'
    BY <2>6, UsesAre
  <2> QED  BY <2>1, <2>2, <2>3, <2>4, <2>5, <2>6 DEF Next, Tick
<1>3. Spec => []SoundLists
  <2>1. SoundLists /\ (TypeOK /\ ArmedIsLinked) /\ [Next]_vars => SoundLists'
    BY <1>2 DEF ListInv
  <2> QED  BY <1>1, <2>1, TypeCorrect, NoneIsForgotten, PTL DEF Spec
<1> QED  BY <1>3, TypeCorrect, NoneIsForgotten, PTL DEF ListInv

\* The armed and the new list stay lists, apart from each other, of exactly the time events
\* marked as linked, and the link a tick has come to is on the armed one when it goes on,
\* whatever is armed, disarmed or re-armed between two rounds of its walk.
THEOREM ListsStaySound == Spec => []ListsAreSound
<1>1. ListInv => ListsAreSound
  BY SoundListsAre DEF ListInv
<1> QED  BY <1>1, SoundListsHold, PTL

-----------------------------------------------------------------------------
(* The refinement: what is uncounted hangs behind the link the walk has come to, or on *)
(* the new list. *)

LEMMA CountsAre ==
  /\ ListInv => (IF pc = "idle" THEN {} ELSE Reached(te_link) \cup Reached(NEW_HEAD))
                = (IF pc = "idle" THEN {} ELSE Uncounted)
  /\ ListInv' => (IF pc' = "idle" THEN {} ELSE Reached(te_link)' \cup Reached(NEW_HEAD)')
                 = (IF pc' = "idle" THEN {} ELSE Uncounted')
<1>1. ListInv => te_link \in Link
  BY HeadsAreLinks DEF ListInv, TypeOK
<1>2. ListInv' => te_link' \in Link
  BY HeadsAreLinks DEF ListInv, TypeOK
<1>3. /\ \A l \in Link : Reached(l) = Chain(next, l)
      /\ \A l \in Link : Reached(l)' = Chain(next', l)
  BY ReachedIsChain
<1>4. ListInv' => Reached(te_link)' = Chain(next', te_link')
  BY <1>2 DEF Reached, Follows, Chain, Closed
<1> QED  BY <1>1, <1>2, <1>3, <1>4, HeadsAreLinks DEF Uncounted


LEMMA UsesRefine ==
  ASSUME ListInv, ListInv', NEW te \in TimeEvent, Uses(te)
  PROVE  Counts!Next
<1> DEFINE U == IF pc = "idle" THEN {} ELSE Reached(te_link) \cup Reached(NEW_HEAD)
           V == IF pc' = "idle" THEN {} ELSE Reached(te_link)' \cup Reached(NEW_HEAD)'
<1>1. /\ U = (IF pc = "idle" THEN {} ELSE Uncounted)
      /\ V = (IF pc' = "idle" THEN {} ELSE Uncounted')
  BY CountsAre
<1>2. pc' = pc /\ te_link' = te_link /\ posting' = posting
  BY DEF Uses, Arm, Rearm, Disarm
<1>3. pc # "idle" => te_link \in {ARMED_HEAD} \cup Chain(next, ARMED_HEAD)
  BY DEF ListInv, SoundLists
<1>4. ASSUME LinkNew(te)
      PROVE  /\ Linked' = Linked \cup {te}
             /\ V = IF pc # "idle" /\ te \notin Linked THEN U \cup {te} ELSE U
  <2>1. /\ Linked' = Linked \cup {te}
        /\ Chain(next', NEW_HEAD) = IF te \in Linked THEN Chain(next, NEW_HEAD)
                                    ELSE Chain(next, NEW_HEAD) \cup {te}
        /\ \A l \in {ARMED_HEAD} \cup Chain(next, ARMED_HEAD) : Chain(next', l) = Chain(next, l)
    BY <1>4, LinkNewIs
  <2>2. pc # "idle" => Chain(next', te_link) = Chain(next, te_link)
    BY <1>3, <2>1
  <2> QED  BY <1>1, <1>2, <2>1, <2>2 DEF Uncounted
<1>5. ASSUME UNCHANGED <<is_linked, next>>
      PROVE  Linked' = Linked /\ V = U
  BY <1>1, <1>2, <1>5 DEF Linked, Uncounted
<1> HIDE DEF U, V
<1>6. ASSUME NEW start \in Start, NEW p \in Period, Arm(te, start, p)
      PROVE  Counts!Arm(te, start, p)
  <2>1. LinkNew(te)
    BY <1>6 DEF Arm
  <2>2. /\ Linked' = Linked \cup {te}
        /\ V = IF pc # "idle" /\ te \notin Linked THEN U \cup {te} ELSE U
    BY <1>4, <2>1
  <2>3. Counts!List(te)
    BY <1>2, <2>2 DEF Counts!List, Linked, U, V
  <2> QED  BY <1>2, <1>6, <2>3 DEF Counts!Arm, Arm
<1>7. ASSUME NEW start \in Start, Rearm(te, start)
      PROVE  Counts!Rearm(te, start)
  <2>1. CASE cnt[te] = 0
    <3>1. LinkNew(te)
      BY <1>7, <2>1 DEF Rearm
    <3>2. /\ Linked' = Linked \cup {te}
          /\ V = IF pc # "idle" /\ te \notin Linked THEN U \cup {te} ELSE U
      BY <1>4, <3>1
    <3>3. Counts!List(te)
      BY <1>2, <3>2 DEF Counts!List, Linked, U, V
    <3> QED  BY <1>2, <1>7, <3>3 DEF Counts!Rearm, Rearm
  <2>2. CASE cnt[te] # 0
    <3>1. Linked' = Linked /\ V = U /\ te \in Linked
      BY <1>5, <1>7, <2>2 DEF Rearm, ListInv, ArmedIsLinked, Linked
    <3>2. Counts!List(te)
      BY <1>2, <3>1 DEF Counts!List, Linked, U, V
    <3> QED  BY <1>2, <1>7, <3>2 DEF Counts!Rearm, Rearm
  <2> QED  BY <2>1, <2>2
<1>8. ASSUME Disarm(te) PROVE Counts!Disarm(te)
  <2>1. Linked' = Linked /\ V = U
    BY <1>5, <1>8 DEF Disarm
  <2> QED  BY <1>2, <1>8, <2>1 DEF Counts!Disarm, Disarm, Linked, U, V
<1> QED  BY <1>6, <1>7, <1>8 DEF Uses, Counts!Next

LEMMA VisitRefines ==
  ASSUME ListInv, ListInv', NEW te \in TimeEvent, Visit(te)
  PROVE  Counts!Next
<1> DEFINE U == IF pc = "idle" THEN {} ELSE Reached(te_link) \cup Reached(NEW_HEAD)
           V == IF pc' = "idle" THEN {} ELSE Reached(te_link)' \cup Reached(NEW_HEAD)'
<1>1. /\ U = (IF pc = "idle" THEN {} ELSE Uncounted)
      /\ V = (IF pc' = "idle" THEN {} ELSE Uncounted')
  BY CountsAre
<1>2. /\ pc = "walk" /\ pc' # "idle" /\ te = Attached[te_link] /\ period' = period
      /\ Unlink(te) \/ Advance(te)
      /\ posting = NULL
  BY DEF Visit, Retires, Expires, CountsDown, ListInv, TypeOK
<1>3. /\ te \in Uncounted /\ te \in Linked /\ Uncounted' = Uncounted \ {te}
      /\ Linked' = IF Unlink(te) THEN Linked \ {te} ELSE Linked
  BY <1>2, RoundIs
<1>4. te \in U /\ V = U \ {te}
  BY <1>1, <1>2, <1>3
<1>5. Advance(te) /\ Unlink(te) => Linked' = Linked
  BY DEF Advance, Linked
<1> HIDE DEF U, V
<1>6. Counts!Expires(te) \/ Counts!CountsDown(te) \/ Counts!Retires(te)
  <2>1. CASE Retires(te)
    BY <1>3, <2>1 DEF Retires, Counts!Retires, Linked
  <2>2. CASE Expires(te)
    <3>1. Linked' = IF period[te] = 0 THEN Linked \ {te} ELSE Linked
      BY <1>3, <1>5, <2>2 DEF Expires
    <3> QED  BY <2>2, <3>1 DEF Expires, Counts!Expires, Linked
  <2>3. CASE CountsDown(te)
    <3>1. Linked' = Linked
      BY <1>3, <1>5, <2>3 DEF CountsDown
    <3> QED  BY <2>3, <3>1 DEF CountsDown, Counts!CountsDown, Linked
  <2> QED  BY <2>1, <2>2, <2>3 DEF Visit
<1>7. Counts!Attend(te)
  BY <1>2, <1>4, <1>6 DEF Counts!Attend, U, V
<1> QED  BY <1>7 DEF Counts!Next

\* The linked lists implement the count-down: a call of the tick counts each time event on
\* its lists exactly once, and one more time each that is linked while it runs, also when it
\* was counted and taken off the lists in the same call; it posts one exactly when its count
\* runs out, whatever is armed, disarmed or re-armed between the rounds.
THEOREM ListsImplementCountdown == Spec => CountsOncePerLinking
<1>1. Init => Counts!Init
  BY DEF Init, Counts!Init
<1>2. ASSUME ListInv, ListInv', [Next]_vars PROVE [Counts!Next]_(Counts!vars)
  <2> DEFINE U == IF pc = "idle" THEN {} ELSE Reached(te_link) \cup Reached(NEW_HEAD)
             V == IF pc' = "idle" THEN {} ELSE Reached(te_link)' \cup Reached(NEW_HEAD)'
  <2>1. /\ U = (IF pc = "idle" THEN {} ELSE Uncounted)
        /\ V = (IF pc' = "idle" THEN {} ELSE Uncounted')
    BY <1>2, CountsAre
  <2> HIDE DEF U, V
  <2>2. CASE UNCHANGED vars
    <3>1. V = U
      BY <2>1, <2>2 DEF vars, Uncounted
    <3> QED  BY <2>2, <3>1 DEF vars, Counts!vars, U, V
  <2>3. CASE TickBegins
    <3>1. U = {} /\ V = Linked
      BY <1>2, <2>1, <2>3 DEF TickBegins, Uncounted, ListInv, SoundLists, Hung
    <3>2. Counts!TickBegins
      BY <2>3, <3>1 DEF TickBegins, Counts!TickBegins, Linked, U, V
    <3> QED  BY <3>2 DEF Counts!Next
  <2>4. CASE Post
    <3>1. V = U /\ posting # NULL
      BY <1>2, <2>1, <2>4 DEF Post, Uncounted, ListInv, TypeOK
    <3>2. Counts!Post
      BY <1>2, <2>4, <3>1 DEF Post, Counts!Post, U, V, ListInv, TypeOK
    <3> QED  BY <3>2 DEF Counts!Next
  <2>5. CASE TickEnds
    <3>1. Uncounted = {}
      <4>1. /\ Attached \in Pointers /\ te_link \in Link
            /\ Chain(Attached, te_link) \cup Chain(Attached, NEW_HEAD) = Uncounted
            /\ Attached[te_link] = NULL
        BY <1>2, <2>5, AttachedIs, HeadsAreLinks DEF TickEnds, ListInv, TypeOK
      <4>2. next[te_link] = NULL
        BY <4>1 DEF Attached
      <4>3. Chain(Attached, te_link) = {}
        BY <4>1, ChainUnfolds
      <4>4. Attached[NEW_HEAD] = NULL
        BY <1>2, <4>2, HeadsAreLinks DEF Attached, ListInv, TypeOK
      <4>5. Chain(Attached, NEW_HEAD) = {}
        BY <4>1, <4>4, ChainUnfolds, HeadsAreLinks
      <4> QED  BY <4>1, <4>3, <4>5
    <3>2. U = {} /\ V = {}
      BY <2>1, <2>5, <3>1 DEF TickEnds
    <3>3. Counts!TickEnds
      BY <1>2, <2>5, <3>2 DEF TickEnds, Counts!TickEnds, ListInv, TypeOK, U, V
    <3> QED  BY <3>3 DEF Counts!Next
  <2>6. ASSUME NEW te \in TimeEvent, Visit(te) PROVE Counts!Next
    BY <1>2, <2>6, VisitRefines
  <2>7. ASSUME NEW te \in TimeEvent, Uses(te) PROVE Counts!Next
    BY <1>2, <2>7, UsesRefine
  <2> QED  BY <1>2, <2>2, <2>3, <2>4, <2>5, <2>6, <2>7 DEF Next, Tick
<1> QED  BY <1>1, <1>2, SoundListsHold, PTL DEF Spec, CountsOncePerLinking, Counts!Spec


-----------------------------------------------------------------------------
(* The timers of the platform: a step of theirs is one of the time events, or leaves them *)
(* alone. *)

LEMMA TimersAreTimeEvents == EitherSpec => Spec
<1>1. TimerInit => Init
  BY DEF TimerInit
<1>2. [EitherNext]_timerVars => [Next]_vars
  <2> SUFFICES ASSUME [EitherNext]_timerVars PROVE [Next]_vars
    OBVIOUS
  <2>1. CASE UNCHANGED timerVars
    BY <2>1 DEF timerVars
  <2>2. CASE TimePasses
    BY <2>2 DEF TimePasses
  <2>3. CASE Wakes \/ CallsBack \/ SleepsAgain
    BY <2>3 DEF Wakes, CallsBack, SleepsAgain, Next, Tick
  <2>4. ASSUME NEW te \in TimeEvent, TimerDisarm(te) \/ TickerVisits(te) PROVE Next
    BY <2>4 DEF TimerDisarm, TickerVisits, Next, Tick, Uses
  <2>5. ASSUME NEW te \in TimeEvent, NEW time \in Time, TimerRearm(te, time) PROVE Next
    <3>1. NsToTicks(time) \in Start
      BY <2>5, PlatformTimerAssumption DEF TimerRearm
    <3> QED  BY <2>5, <3>1 DEF TimerRearm, Next, Uses
  <2>6. ASSUME NEW te \in TimeEvent, NEW time \in Time, NEW p \in Time, TimerArm(te, time, p)
        PROVE  Next
    <3>1. NsToTicks(time) \in Start /\ NsToTicks(p) \in Period
      BY <2>6, PlatformTimerAssumption DEF TimerArm
    <3> QED  BY <2>6, <3>1 DEF TimerArm, Next, Uses
  <2>7. CASE Next
    BY <2>7
  <2> QED  BY <2>1, <2>2, <2>3, <2>4, <2>5, <2>6, <2>7 DEF EitherNext, TimerNext
<1> QED  BY <1>1, <1>2, PTL DEF EitherSpec, Spec

\* The timers of the POSIX platform (epf_timer.c), beside the time events of the framework:
\* their lists stay lists, none that is armed is forgotten, and each is counted exactly
\* once per linking whenever the ticker walks them.
THEOREM TimersKeepTheirLists ==
  EitherSpec => []ListsAreSound /\ []ArmedIsLinked /\ CountsOncePerLinking
BY TimersAreTimeEvents, ListsStaySound, NoneIsForgotten, ListsImplementCountdown, PTL

=============================================================================
