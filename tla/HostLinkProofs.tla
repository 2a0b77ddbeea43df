----------------------------- MODULE HostLinkProofs -----------------------------
(***************************************************************************)
(* For every line, host and size of the buffers: the serial link strands   *)
(* no byte, and publishes exactly the requests that came through it.       *)
(* Framing needs the assembly to be what lies behind the last delimiter of *)
(* the bytes consumed, and each request published to be a frame of them.   *)
(* With a host that waits nothing overflows, as one frame yields one       *)
(* response; an error that the USART detects stops the program even then.  *)
(***************************************************************************)
EXTENDS HostLink, WellFoundedInduction, FiniteSetTheorems, SequenceTheorems, TLAPS

(* The handler's position fixes what it holds. *)
Positioned ==
  /\ pc = "read" => rxFifo # <<>>
  /\ pc = "publish" <=> request # NONE

LInv ==
  /\ TypeOK
  /\ Positioned
  /\ NoByteStranded
  /\ NoResponseStranded

(* What the provers need of the capacities. *)
LEMMA Capacities ==
  /\ ResponseLength \in Nat \ {0} /\ TX_FIFO_CAPACITY \in Nat \ {0}
  /\ RX_FIFO_CAPACITY \in Nat \ {0} /\ RX_FRAME_CAPACITY \in Nat \ {0}
  /\ QUEUE_CAPACITY \in Nat \ {0}
  /\ MAX_FRAMES \in Nat /\ MAX_FAULTS \in Nat /\ MAX_REPORTS \in Nat
  BY HostLinkAssumption

LEMMA NoneIsNoRequest == NONE \notin Request
  BY HostLinkAssumption

LEMMA EncodedType == \A r \in Request : Encoded(r) \in Seq(Byte)
  <1> TAKE r \in Request
  <1>1. FrameLength[r] \in Nat
    BY HostLinkAssumption
  <1> DEFINE body == [i \in 1..FrameLength[r] |-> <<r, i>>]
  <1>2. body \in Seq(Byte)
    BY <1>1 DEF Byte
  <1>3. DELIMITER \in Byte
    BY DEF Byte
  <1> HIDE DEF body
  <1>4. Append(body, DELIMITER) \in Seq(Byte)
    BY <1>2, <1>3
  <1> QED
    BY <1>4 DEF Encoded, body

LEMMA MinOfTwo == \A n \in Nat : Min({2, n}) \in 0..n
  <1> TAKE n \in Nat
  <1>1. \E x \in {2, n} : \A y \in {2, n} : x <= y
    OBVIOUS
  <1>2. Min({2, n}) \in {2, n} /\ \A y \in {2, n} : Min({2, n}) <= y
    BY <1>1, Zenon DEF Min
  <1> QED
    BY <1>2

(* The transmitter only empties the TX FIFO, and stays enabled until it has. *)
LEMMA TransmitsType ==
  ASSUME TypeOK, NoResponseStranded, Transmits
  PROVE  /\ txFifo' \in 0..TX_FIFO_CAPACITY /\ txeie' \in BOOLEAN
         /\ NoResponseStranded'
  <1>1. PICK n \in 0..Min({2, txFifo}) :
          txFifo' = txFifo - n /\ txeie' = (txeie /\ txFifo' > 0)
    BY DEF Transmits
  <1>2. n \in 0..txFifo
    BY <1>1, MinOfTwo DEF TypeOK
  <1> QED
    BY <1>1, <1>2, Capacities DEF TypeOK, NoResponseStranded

LEMMA InitLInv == Init => LInv
  <1> SUFFICES ASSUME Init PROVE LInv
    OBVIOUS
  <1> USE DEF Init
  <1>1. TypeOK
    <2>1. \A S : <<>> \in Seq(S) /\ Len(<<>>) = 0
      OBVIOUS
    <2>2. /\ wire \in Seq(Byte) /\ received \in Seq(Byte) /\ executed \in Seq(Request)
          /\ rxFifo \in Seq(Byte) /\ Len(rxFifo) <= RX_FIFO_CAPACITY
          /\ rx_frame \in Seq(Byte) /\ Len(rx_frame) <= RX_FRAME_CAPACITY
          /\ queue \in Seq({"data", "response", "report"}) /\ Len(queue) <= QUEUE_CAPACITY
      BY <2>1, Capacities
    <2>3. /\ txFifo \in 0..TX_FIFO_CAPACITY /\ frames \in 0..MAX_FRAMES
          /\ faults \in 0..MAX_FAULTS /\ reports \in 0..MAX_REPORTS
      BY Capacities
    <2> QED
      BY <2>2, <2>3 DEF TypeOK
  <1>2. Positioned /\ NoByteStranded /\ NoResponseStranded
    BY DEF Positioned, NoByteStranded, NoResponseStranded
  <1> QED
    BY <1>1, <1>2 DEF LInv

-----------------------------------------------------------------------------
LEMMA LineKeepsLInv ==
  ASSUME LInv, (\E r \in Request : HostSends(r)) \/ LineFault
  PROVE  LInv'
  <1> USE DEF LInv
  <1>1. CASE \E r \in Request : HostSends(r)
    <2>1. PICK r \in Request : HostSends(r)
      BY <1>1
    <2>2. wire' \in Seq(Byte)
      BY <2>1, EncodedType DEF HostSends, TypeOK
    <2>3. TypeOK'
      BY <2>1, <2>2, Capacities DEF HostSends, TypeOK
    <2> QED
      BY <2>1, <2>3 DEF HostSends, Positioned, NoByteStranded, NoResponseStranded
  <1>2. CASE LineFault
    <2>1. wire' \in Seq(Byte)
      <3>1. Tail(wire) \in Seq(Byte)
        BY <1>2 DEF LineFault, TypeOK
      <3>2. \A byte \in {JUNK, DELIMITER, FLAWED} : <<byte>> \in Seq(Byte)
        BY DEF Byte
      <3>3. \A byte \in {JUNK, DELIMITER, FLAWED} : <<byte>> \o Tail(wire) \in Seq(Byte)
        BY <3>1, <3>2, ConcatProperties
      <3> QED
        BY <1>2, <3>1, <3>3 DEF LineFault
    <2>2. TypeOK'
      BY <1>2, <2>1, Capacities DEF LineFault, TypeOK
    <2> QED
      BY <1>2, <2>2 DEF LineFault, Positioned, NoByteStranded, NoResponseStranded
  <1> QED
    BY <1>1, <1>2

LEMMA FailKeepsLInv ==
  ASSUME LInv, NEW reason \in {"line", "rx", "tx", "queue"}, Fail(reason)
  PROVE  LInv'
  BY DEF LInv, Fail, TypeOK, Positioned, NoByteStranded, NoResponseStranded

LEMMA UsartKeepsLInv ==
  ASSUME LInv, UsartReceives \/ UsartTransmits
  PROVE  LInv'
  <1> USE DEF LInv
  <1>1. CASE UsartTransmits
    BY <1>1, TransmitsType DEF UsartTransmits, TypeOK, Positioned, NoByteStranded
  <1>2. CASE UsartReceives
    <2>1. CASE Fail("line") \/ Fail("rx") \/ Fail("queue")
      BY <2>1, FailKeepsLInv
    <2>2. CASE ~(Fail("line") \/ Fail("rx") \/ Fail("queue"))
      <3>1. /\ rxFifo' = Append(rxFifo, Head(wire)) /\ wire # <<>>
            /\ Len(rxFifo) # RX_FIFO_CAPACITY /\ (rxFifo = <<>> => Fits)
            /\ queue' = IF rxFifo = <<>> THEN Append(queue, "data") ELSE queue
            /\ received' = Append(received, Head(wire)) /\ wire' = Tail(wire)
            /\ Transmits
            /\ UNCHANGED <<conditions, rx_frame, pc, request, failed, executed, frames,
                           faults, reports>>
        BY <1>2, <2>2, Zenon DEF UsartReceives
      <3>2. /\ rxFifo' \in Seq(Byte) /\ Len(rxFifo') <= RX_FIFO_CAPACITY
            /\ received' \in Seq(Byte) /\ wire' \in Seq(Byte)
        <4>1. /\ wire \in Seq(Byte) /\ received \in Seq(Byte) /\ rxFifo \in Seq(Byte)
              /\ Len(rxFifo) <= RX_FIFO_CAPACITY /\ RX_FIFO_CAPACITY \in Nat
          BY Capacities DEF TypeOK
        <4>2. Head(wire) \in Byte /\ wire' \in Seq(Byte)
          BY <3>1, <4>1
        <4>3. received' \in Seq(Byte)
          BY <3>1, <4>1, <4>2
        <4>4. rxFifo' \in Seq(Byte) /\ Len(rxFifo') = Len(rxFifo) + 1
          BY <3>1, <4>1, <4>2
        <4> QED
          BY <3>1, <4>1, <4>2, <4>3, <4>4
      <3>3. queue' \in Seq({"data", "response", "report"}) /\ Len(queue') <= QUEUE_CAPACITY
        <4>1. /\ queue \in Seq({"data", "response", "report"})
              /\ Len(queue) <= QUEUE_CAPACITY /\ QUEUE_CAPACITY \in Nat
          BY Capacities DEF TypeOK
        <4>2. CASE rxFifo = <<>>
          <5>1. queue' = Append(queue, "data") /\ Len(queue) < QUEUE_CAPACITY
            BY <3>1, <4>2 DEF Fits
          <5> QED
            BY <4>1, <5>1
        <4>3. CASE rxFifo # <<>>
          BY <3>1, <4>1, <4>3
        <4> QED
          BY <4>2, <4>3
      <3>4. TypeOK'
        BY <3>1, <3>2, <3>3, TransmitsType DEF TypeOK
      <3>5. Positioned'
        <4>1. rxFifo' # <<>>
          BY <3>1 DEF TypeOK
        <4> QED
          BY <3>1, <4>1 DEF Positioned
      <3>6. NoByteStranded'
        <4>1. CASE rxFifo = <<>>
          <5>1. Len(queue) + 1 \in DOMAIN queue' /\ queue'[Len(queue) + 1] = "data"
            BY <3>1, <4>1 DEF TypeOK
          <5> QED
            BY <5>1 DEF NoByteStranded
        <4>2. CASE rxFifo # <<>>
          BY <3>1, <4>2 DEF NoByteStranded
        <4> QED
          BY <4>1, <4>2
      <3> QED
        BY <3>1, <3>4, <3>5, <3>6, TransmitsType
    <2> QED
      BY <2>1, <2>2
  <1> QED
    BY <1>1, <1>2

LEMMA TakeKeepsLInv ==
  ASSUME LInv, Take \/ GetAvailableBytes
  PROVE  LInv'
  <1> USE DEF LInv
  <1>1. CASE Take
    <2>1. /\ queue' = Tail(queue) /\ queue # <<>> /\ request = NONE /\ pc = "idle"
          /\ pc' = IF Head(queue) = "data" THEN "loop" ELSE "respond"
          /\ UNCHANGED <<conditions, wire, rxFifo, txFifo, txeie, rx_frame, request, failed,
                         received, executed, frames, faults, reports>>
      BY <1>1 DEF Take, Positioned
    <2>2. /\ queue' \in Seq({"data", "response", "report"}) /\ Len(queue') <= QUEUE_CAPACITY
          /\ DOMAIN queue = 1..Len(queue) /\ DOMAIN queue' = 1..(Len(queue) - 1)
          /\ \A i \in DOMAIN queue' : queue'[i] = queue[i + 1]
          /\ Len(queue) \in Nat
      BY <2>1, Capacities DEF TypeOK
    <2>3. TypeOK' /\ Positioned' /\ NoResponseStranded'
      BY <2>1, <2>2 DEF TypeOK, Positioned, NoResponseStranded
    <2>4. NoByteStranded'
      <3> SUFFICES ASSUME rxFifo # <<>>, Head(queue) # "data"
                   PROVE  \E i \in DOMAIN queue' : queue'[i] = "data"
        BY <2>1 DEF NoByteStranded
      <3>1. PICK i \in DOMAIN queue : queue[i] = "data"
        BY <2>1 DEF NoByteStranded
      <3>2. i # 1
        BY <2>1, <3>1 DEF TypeOK
      <3>3. i - 1 \in DOMAIN queue' /\ queue'[i - 1] = "data"
        BY <2>2, <3>1, <3>2
      <3> QED
        BY <3>3
    <2> QED
      BY <2>3, <2>4
  <1>2. CASE GetAvailableBytes
    BY <1>2 DEF GetAvailableBytes, TypeOK, Positioned, NoByteStranded, NoResponseStranded
  <1> QED
    BY <1>1, <1>2

LEMMA AssembledType ==
  ASSUME TypeOK, NEW byte \in Byte
  PROVE  Assembled(byte) \in Seq(Byte) /\ Len(Assembled(byte)) <= RX_FRAME_CAPACITY
  BY Capacities DEF TypeOK, Assembled

LEMMA ReadKeepsLInv ==
  ASSUME LInv, Read
  PROVE  LInv'
  <1> USE DEF LInv
  <1> DEFINE byte == Head(rxFifo)
             complete == byte = DELIMITER /\ Valid(Assembled(byte))
  <1>1. /\ pc = "read" /\ rxFifo # <<>> /\ rxFifo' = Tail(rxFifo)
        /\ rx_frame' = IF byte = DELIMITER THEN <<>> ELSE Assembled(byte)
        /\ request' = IF complete THEN Decoded(Assembled(byte)) ELSE NONE
        /\ pc' = IF complete THEN "publish" ELSE "loop"
        /\ UNCHANGED <<conditions, wire, txFifo, txeie, queue, failed, received, executed,
                       frames, faults, reports>>
    BY DEF Read, Positioned
  <1>2. byte \in Byte /\ rxFifo' \in Seq(Byte) /\ Len(rxFifo') <= RX_FIFO_CAPACITY
    <2>1. rxFifo \in Seq(Byte) /\ rxFifo # <<>> /\ Len(rxFifo) <= RX_FIFO_CAPACITY
      BY <1>1 DEF TypeOK
    <2>2. Head(rxFifo) \in Byte /\ Tail(rxFifo) \in Seq(Byte) /\ Len(Tail(rxFifo)) = Len(rxFifo) - 1
      BY <2>1
    <2> QED
      BY <1>1, <2>1, <2>2, Capacities
  <1>3. rx_frame' \in Seq(Byte) /\ Len(rx_frame') <= RX_FRAME_CAPACITY
    BY <1>1, <1>2, AssembledType, Capacities
  <1>4. complete => Decoded(Assembled(byte)) \in Request
    BY DEF Valid, Decoded
  <1> HIDE DEF complete, byte
  <1>5. TypeOK' /\ Positioned'
    BY <1>1, <1>2, <1>3, <1>4, NoneIsNoRequest DEF TypeOK, Positioned
  <1> QED
    BY <1>1, <1>5 DEF NoByteStranded, NoResponseStranded

LEMMA PublishKeepsLInv ==
  ASSUME LInv, PublishRequest \/ RfReports
  PROVE  LInv'
  <1> USE DEF LInv
  <1>1. CASE Fail("queue")
    BY <1>1, FailKeepsLInv
  <1>2. CASE PublishRequest /\ ~Fail("queue")
    <2>1. /\ pc = "publish" /\ (request \in Answered => Fits)
          /\ queue' = IF request \in Answered THEN Append(queue, "response") ELSE queue
          /\ executed' = Append(executed, request) /\ request' = NONE /\ pc' = "loop"
          /\ UNCHANGED <<conditions, wire, rxFifo, txFifo, txeie, rx_frame, failed,
                         received, frames, faults, reports>>
      BY <1>2, Zenon DEF PublishRequest
    <2>2. request \in Request
      BY <2>1 DEF Positioned, TypeOK
    <2>3. queue' \in Seq({"data", "response", "report"}) /\ Len(queue') <= QUEUE_CAPACITY
      BY <2>1, Capacities DEF TypeOK, Fits
    <2>4. executed' \in Seq(Request)
      BY <2>1, <2>2 DEF TypeOK
    <2>5. TypeOK'
      BY <2>1, <2>3, <2>4 DEF TypeOK
    <2> QED
      BY <2>1, <2>5 DEF Positioned, NoByteStranded, NoResponseStranded
  <1>3. CASE RfReports /\ ~Fail("queue")
    <2>1. /\ Fits /\ queue' = Append(queue, "report") /\ reports < MAX_REPORTS
          /\ reports' = reports + 1
          /\ UNCHANGED <<conditions, wire, rxFifo, txFifo, txeie, rx_frame, pc,
                         request, failed, received, executed, frames, faults>>
      BY <1>3, Zenon DEF RfReports
    <2>2. /\ queue' \in Seq({"data", "response", "report"}) /\ Len(queue') <= QUEUE_CAPACITY
          /\ \A i \in DOMAIN queue : i \in DOMAIN queue' /\ queue'[i] = queue[i]
      BY <2>1, Capacities DEF TypeOK, Fits
    <2>3. reports' \in 0..MAX_REPORTS
      BY <2>1, Capacities DEF TypeOK
    <2>4. TypeOK'
      BY <2>1, <2>2, <2>3 DEF TypeOK
    <2> QED
      BY <2>1, <2>2, <2>4 DEF Positioned, NoByteStranded, NoResponseStranded
  <1> QED
    BY <1>1, <1>2, <1>3

LEMMA RespondKeepsLInv ==
  ASSUME LInv, Respond
  PROVE  LInv'
  <1> USE DEF LInv
  <1>1. CASE Fail("tx")
    BY <1>1, FailKeepsLInv
  <1>2. CASE ~Fail("tx")
    <2>1. /\ pc = "respond" /\ ~(ResponseLength > TX_FIFO_CAPACITY - txFifo)
          /\ txFifo' = txFifo + ResponseLength /\ txeie' = (txeie \/ txFifo = 0)
          /\ pc' = "idle"
          /\ UNCHANGED <<conditions, wire, rxFifo, rx_frame, queue, request, failed,
                         received, executed, frames, faults, reports>>
      BY <1>2, Zenon DEF Respond, Write
    <2>2. txFifo' \in 0..TX_FIFO_CAPACITY /\ (txFifo > 0 \/ txFifo = 0)
      BY <2>1, Capacities DEF TypeOK
    <2>4. NoResponseStranded' /\ txeie' \in BOOLEAN
      BY <2>1, <2>2 DEF NoResponseStranded
    <2>3. TypeOK' /\ Positioned' /\ NoByteStranded'
      BY <2>1, <2>2 DEF TypeOK, Positioned, NoByteStranded
    <2> QED
      BY <2>3, <2>4
  <1> QED
    BY <1>1, <1>2

LEMMA LinkInductive == Spec => []LInv
  <1>1. ASSUME LInv, [Next]_vars PROVE LInv'
    <2>1. CASE (\E r \in Request : HostSends(r)) \/ LineFault
      BY <1>1, <2>1, LineKeepsLInv
    <2>2. CASE UsartReceives \/ UsartTransmits
      BY <1>1, <2>2, UsartKeepsLInv
    <2>3. CASE RfReports
      BY <1>1, <2>3, PublishKeepsLInv
    <2>4. CASE Manager
      BY <1>1, <2>4, TakeKeepsLInv, ReadKeepsLInv, PublishKeepsLInv, RespondKeepsLInv
      DEF Manager
    <2>5. CASE UNCHANGED vars
      BY <1>1, <2>5
      DEF vars, LInv, TypeOK, Positioned, NoByteStranded, NoResponseStranded
    <2> QED
      BY <1>1, <2>1, <2>2, <2>3, <2>4, <2>5 DEF Next
  <1> QED
    BY InitLInv, <1>1, PTL DEF Spec

-----------------------------------------------------------------------------
(* Framing: frames within a stream of bytes, and a stream that grows by one.    *)

Delimiters(s, i) == {0} \cup {j \in 1..(i - 1) : s[j] = DELIMITER}

(* A nonempty set of natural numbers that has a bound has a greatest        *)
(* element, which Max returns: the order of the distances from the bound is *)
(* well-founded.                                                            *)
LEMMA GreatestBelow ==
  ASSUME NEW n \in Nat, NEW S \in SUBSET (0..n), S # {}
  PROVE  Max(S) \in S /\ \A y \in S : y <= Max(S)
  <1> DEFINE T == {n - x : x \in S}
  <1>1. T \in SUBSET Nat /\ T # {}
    <2>1. \A x \in S : n - x \in Nat
      OBVIOUS
    <2>2. PICK x \in S : TRUE
      OBVIOUS
    <2>3. n - x \in T
      BY <2>2
    <2> QED
      BY <2>1, <2>3
  <1> DEFINE Less == OpToRel(<, Nat)
  <1>2. IsWellFoundedOn(Less, Nat)
    BY NatLessThanWellFounded
  <1>3. \A x, y \in Nat : <<y, x>> \in Less <=> y < x
    BY DEF OpToRel
  <1> HIDE DEF Less
  <1>4. PICK t \in T : \A y \in T : ~(<<y, t>> \in Less)
    <2> HIDE DEF T
    <2> QED
      BY <1>1, <1>2, WFMin
  <1>5. PICK x \in S : t = n - x
    OBVIOUS
  <1>6. \A y \in S : x >= y
    <2> TAKE y \in S
    <2>1. n - y \in T /\ n - y \in Nat /\ n - x \in Nat
      OBVIOUS
    <2>2. ~(n - y < n - x)
      BY <1>3, <1>4, <1>5, <2>1
    <2> QED
      BY <2>2
  <1>7. Max(S) \in S /\ \A y \in S : Max(S) >= y
    BY <1>6, Zenon DEF Max
  <1> QED
    BY <1>7

LEMMA LastDelimiter ==
  ASSUME NEW s \in Seq(Byte), NEW i \in 1..(Len(s) + 1)
  PROVE  /\ Max(Delimiters(s, i)) \in Delimiters(s, i)
         /\ Max(Delimiters(s, i)) \in 0..(i - 1)
         /\ \A j \in 1..(i - 1) : s[j] = DELIMITER => j <= Max(Delimiters(s, i))
  <1>1. Delimiters(s, i) \in SUBSET (0..(i - 1)) /\ Delimiters(s, i) # {} /\ i - 1 \in Nat
    BY DEF Delimiters
  <1>2. /\ Max(Delimiters(s, i)) \in Delimiters(s, i)
        /\ \A y \in Delimiters(s, i) : y <= Max(Delimiters(s, i))
    BY <1>1, GreatestBelow
  <1>3. \A j \in 1..(i - 1) : s[j] = DELIMITER => j \in Delimiters(s, i)
    BY DEF Delimiters
  <1> QED
    BY <1>1, <1>2, <1>3

(* The frame that ends at a position does not depend on what follows. *)
LEMMA FrameEndingKept ==
  ASSUME NEW s \in Seq(Byte), NEW b \in Byte, NEW i \in 1..Len(s)
  PROVE  FrameEndingAt(Append(s, b), i) = FrameEndingAt(s, i)
  <1> DEFINE t == Append(s, b)
             m == Max(Delimiters(s, i))
  <1>1. t \in Seq(Byte) /\ Len(t) = Len(s) + 1 /\ \A j \in 1..Len(s) : t[j] = s[j]
    OBVIOUS
  <1>2. Delimiters(t, i) = Delimiters(s, i)
    BY <1>1 DEF Delimiters
  <1>3. m \in 0..(i - 1)
    BY LastDelimiter
  <1>4. FrameEndingAt(s, i) = SubSeq(s, m + 1, i)
    BY DEF FrameEndingAt, Delimiters
  <1>5. FrameEndingAt(t, i) = SubSeq(t, Max(Delimiters(t, i)) + 1, i)
    BY DEF FrameEndingAt, Delimiters
  <1>6. FrameEndingAt(t, i) = SubSeq(t, m + 1, i)
    BY <1>2, <1>5
  <1> HIDE DEF t, m
  <1>7. /\ Len(SubSeq(s, m + 1, i)) = i - m /\ Len(SubSeq(t, m + 1, i)) = i - m
        /\ \A k \in 1..(i - m) : SubSeq(s, m + 1, i)[k] = s[m + k]
        /\ \A k \in 1..(i - m) : SubSeq(t, m + 1, i)[k] = t[m + k]
        /\ SubSeq(s, m + 1, i) \in Seq(Byte) /\ SubSeq(t, m + 1, i) \in Seq(Byte)
    BY <1>1, <1>3
  <1>8. \A k \in 1..(i - m) : s[m + k] = t[m + k]
    BY <1>1, <1>3
  <1>9. SubSeq(s, m + 1, i) = SubSeq(t, m + 1, i)
    BY <1>7, <1>8, <1>3, SeqEqual
  <1> QED
    BY <1>4, <1>6, <1>9 DEF t

IsFrame(s, i) ==
  s[i] = DELIMITER /\ Len(FrameEndingAt(s, i)) <= RX_FRAME_CAPACITY /\ Valid(FrameEndingAt(s, i))

(* A byte more makes one frame more at most: the one it ends. *)
LEMMA FramesOfAppend ==
  ASSUME NEW s \in Seq(Byte), NEW b \in Byte
  PROVE  LET t == Append(s, b) IN
         /\ \A i \in FramesOf(s) : i \in 1..Len(s)
         /\ IsFrame(t, Len(t)) => FramesOf(t) = FramesOf(s) \cup {Len(s) + 1}
         /\ ~IsFrame(t, Len(t)) => FramesOf(t) = FramesOf(s)
  <1> DEFINE t == Append(s, b)
  <1>1. t \in Seq(Byte) /\ Len(t) = Len(s) + 1 /\ \A j \in 1..Len(s) : t[j] = s[j]
    OBVIOUS
  <1>2. \A i \in 1..Len(s) : FrameEndingAt(t, i) = FrameEndingAt(s, i)
    BY FrameEndingKept
  <1>3. FramesOf(s) = {i \in 1..Len(s) : IsFrame(s, i)}
    BY DEF FramesOf, IsFrame
  <1>4. FramesOf(t) = {i \in 1..(Len(s) + 1) : IsFrame(t, i)}
    BY <1>1 DEF FramesOf, IsFrame
  <1>5. \A i \in 1..Len(s) : IsFrame(t, i) <=> IsFrame(s, i)
    BY <1>1, <1>2 DEF IsFrame
  <1> HIDE DEF t
  <1> QED
    BY <1>1, <1>3, <1>4, <1>5 DEF t

LEMMA FramesAreFinite ==
  ASSUME NEW s \in Seq(Byte), NEW T \in SUBSET FramesOf(s)
  PROVE  IsFiniteSet(T) /\ Cardinality(T) \in Nat
  <1>1. T \in SUBSET (1..Len(s)) /\ Len(s) \in Nat
    BY DEF FramesOf
  <1>2. IsFiniteSet(1..Len(s))
    BY <1>1, FS_Interval
  <1> QED
    BY <1>1, <1>2, FS_Subset, FS_CardinalityType

(* The place of a frame among the frames of a stream. *)
Rank(s, i) == Cardinality({j \in FramesOf(s) : j <= i})

LEMMA RankIsInjective ==
  ASSUME NEW s \in Seq(Byte), NEW i \in FramesOf(s), NEW k \in FramesOf(s),
         Rank(s, i) = Rank(s, k)
  PROVE  i = k
  <1> DEFINE below(x) == {j \in FramesOf(s) : j <= x}
  <1>0. FramesOf(s) \subseteq Nat
    BY DEF FramesOf
  <1>1. ASSUME NEW x \in FramesOf(s), NEW y \in FramesOf(s), x < y,
               Cardinality(below(x)) = Cardinality(below(y))
        PROVE  FALSE
    <2>1. below(x) \in SUBSET below(y) /\ y \in below(y) /\ y \notin below(x)
      BY <1>0, <1>1
    <2>2. IsFiniteSet(below(y))
      BY FramesAreFinite
    <2>3. below(x) = below(y)
      BY <1>1, <2>1, <2>2, FS_Subset
    <2> QED
      BY <2>1, <2>3
  <1>2. i \in Nat /\ k \in Nat
    BY <1>0
  <1>3. ~(i < k) /\ ~(k < i)
    BY <1>1 DEF Rank
  <1> QED
    BY <1>2, <1>3

(* The requests published are the frames of the stream, in their order. *)
PublishedIs(s, e) ==
  /\ e \in Seq(Request) /\ Len(e) = Cardinality(FramesOf(s))
  /\ \A k \in 1..Len(e) :
       \E i \in FramesOf(s) : Rank(s, i) = k /\ e[k] = Decoded(FrameEndingAt(s, i))

LEMMA PublishedDetermines ==
  ASSUME NEW s \in Seq(Byte), NEW e, PublishedIs(s, e)
  PROVE  e = Requested(s)
  <1>1. /\ Len(e) \in Nat /\ Len(e) = Cardinality(FramesOf(s))
        /\ e = [k \in 1..Len(e) |-> e[k]]
    BY DEF PublishedIs
  <1>2. ASSUME NEW k \in 1..Len(e)
        PROVE  e[k] = Decoded(FrameEndingAt(s, NthFrame(s, k)))
    <2>1. PICK i \in FramesOf(s) : Rank(s, i) = k /\ e[k] = Decoded(FrameEndingAt(s, i))
      BY DEF PublishedIs
    <2>2. NthFrame(s, k) \in FramesOf(s) /\ Rank(s, NthFrame(s, k)) = k
      BY <2>1, Zenon DEF NthFrame, Rank
    <2>3. NthFrame(s, k) = i
      BY <2>1, <2>2, RankIsInjective
    <2> QED
      BY <2>1, <2>3
  <1>3. [k \in 1..Len(e) |-> e[k]]
          = [k \in 1..Len(e) |-> Decoded(FrameEndingAt(s, NthFrame(s, k)))]
    BY <1>2
  <1> QED
    BY <1>1, <1>3 DEF Requested

(* A frame more is published last, and the frames before it keep their places. *)
LEMMA PublishedOfAppend ==
  ASSUME NEW s \in Seq(Byte), NEW b \in Byte, NEW e, PublishedIs(s, e)
  PROVE  LET t == Append(s, b) IN
         /\ ~IsFrame(t, Len(t)) => PublishedIs(t, e)
         /\ IsFrame(t, Len(t)) =>
              PublishedIs(t, Append(e, Decoded(FrameEndingAt(t, Len(t)))))
  <1> DEFINE t == Append(s, b)
             n == Len(s) + 1
  <1>1. t \in Seq(Byte) /\ Len(t) = n /\ n \in Nat
    OBVIOUS
  <1>2. /\ \A i \in FramesOf(s) : i \in 1..Len(s) /\ FrameEndingAt(t, i) = FrameEndingAt(s, i)
        /\ IsFrame(t, n) => FramesOf(t) = FramesOf(s) \cup {n}
        /\ ~IsFrame(t, n) => FramesOf(t) = FramesOf(s)
    BY <1>1, FramesOfAppend, FrameEndingKept
  <1> HIDE DEF t
  <1>3. ASSUME ~IsFrame(t, n)
        PROVE  PublishedIs(t, e)
    <2>1. FramesOf(t) = FramesOf(s)
      BY <1>2, <1>3
    <2>2. \A i \in FramesOf(s) : Rank(t, i) = Rank(s, i)
      BY <2>1 DEF Rank
    <2> QED
      BY <1>2, <2>1, <2>2 DEF PublishedIs
  <1>4. ASSUME IsFrame(t, n)
        PROVE  PublishedIs(t, Append(e, Decoded(FrameEndingAt(t, n))))
    <2> DEFINE r == Decoded(FrameEndingAt(t, n))
               count == Cardinality(FramesOf(s))
    <2>1. FramesOf(t) = FramesOf(s) \cup {n} /\ n \notin FramesOf(s)
      BY <1>2, <1>4
    <2>2. r \in Request
      BY <1>4 DEF IsFrame, Valid, Decoded
    <2>3. Cardinality(FramesOf(t)) = count + 1 /\ count \in Nat
      BY <2>1, FramesAreFinite, FS_AddElement
    <2>4. ASSUME NEW i \in FramesOf(s)
          PROVE  Rank(t, i) = Rank(s, i)
      <3>1. i < n
        BY <1>2
      <3>2. {j \in FramesOf(t) : j <= i} = {j \in FramesOf(s) : j <= i}
        BY <1>2, <2>1, <3>1
      <3> QED
        BY <3>2 DEF Rank
    <2>5. Rank(t, n) = count + 1
      <3>1. {j \in FramesOf(t) : j <= n} = FramesOf(t)
        BY <1>2, <2>1
      <3> QED
        BY <2>3, <3>1 DEF Rank
    <2> HIDE DEF r, count
    <2>6. /\ Append(e, r) \in Seq(Request) /\ Len(Append(e, r)) = count + 1
          /\ Append(e, r)[count + 1] = r
          /\ \A k \in 1..count : Append(e, r)[k] = e[k]
      BY <2>2, <2>3 DEF PublishedIs, count
    <2>7. ASSUME NEW k \in 1..(count + 1)
          PROVE  \E i \in FramesOf(t) :
                   Rank(t, i) = k /\ Append(e, r)[k] = Decoded(FrameEndingAt(t, i))
      <3>1. CASE k = count + 1
        BY <2>1, <2>5, <2>6, <3>1 DEF r
      <3>2. CASE k # count + 1
        <4>1. k \in 1..count
          BY <2>3, <3>2
        <4>2. PICK i \in FramesOf(s) : Rank(s, i) = k /\ e[k] = Decoded(FrameEndingAt(s, i))
          BY <4>1 DEF PublishedIs, count
        <4> QED
          BY <1>2, <2>1, <2>4, <2>6, <4>1, <4>2
      <3> QED
        BY <3>1, <3>2
    <2> QED
      BY <2>3, <2>6, <2>7 DEF PublishedIs, r, count
  <1> QED
    BY <1>1, <1>3, <1>4 DEF t

(* The assembly holds what lies behind the last delimiter, as far as it fits. *)
Fitting(n) == IF n <= RX_FRAME_CAPACITY THEN n ELSE RX_FRAME_CAPACITY

Assembling(s, f) ==
  \E d \in 0..Len(s) :
    /\ d = 0 \/ s[d] = DELIMITER
    /\ \A j \in (d + 1)..Len(s) : s[j] # DELIMITER
    /\ f \in Seq(Byte) /\ Len(f) = Fitting(Len(s) - d)
    /\ \A i \in 1..Len(f) : f[i] = s[d + i]

Added(f, b) == IF Len(f) < RX_FRAME_CAPACITY THEN Append(f, b) ELSE f

LEMMA EncodedEnds ==
  ASSUME NEW r \in Request
  PROVE  Len(Encoded(r)) \in Nat \ {0} /\ Encoded(r)[Len(Encoded(r))] = DELIMITER
  <1>1. FrameLength[r] \in Nat
    BY HostLinkAssumption
  <1> DEFINE body == [i \in 1..FrameLength[r] |-> <<r, i>>]
  <1>2. body \in Seq(Byte)
    BY <1>1 DEF Byte
  <1> HIDE DEF body
  <1>3. Len(Append(body, DELIMITER)) \in Nat \ {0}
        /\ Append(body, DELIMITER)[Len(Append(body, DELIMITER))] = DELIMITER
    BY <1>2
  <1> QED
    BY <1>3 DEF Encoded, body

(* Appending to a suffix of a stream is appending to the stream. *)
LEMMA AppendShifted ==
  ASSUME NEW s \in Seq(Byte), NEW b \in Byte, NEW d \in 0..Len(s),
         NEW f \in Seq(Byte), Len(f) = Len(s) - d, \A i \in 1..Len(f) : f[i] = s[d + i]
  PROVE  /\ Append(f, b) \in Seq(Byte) /\ Len(Append(f, b)) = (Len(s) + 1) - d
         /\ \A i \in 1..((Len(s) + 1) - d) : Append(f, b)[i] = Append(s, b)[d + i]
  <1> DEFINE l == Len(s)
             m == Len(f)
  <1>1. l \in Nat /\ m \in Nat /\ m = l - d /\ d \in Nat /\ d <= l
    OBVIOUS
  <1>2. /\ Append(f, b) \in Seq(Byte) /\ Len(Append(f, b)) = m + 1
        /\ Append(f, b)[m + 1] = b /\ \A i \in 1..m : Append(f, b)[i] = f[i]
        /\ Append(s, b)[l + 1] = b /\ \A i \in 1..l : Append(s, b)[i] = s[i]
        /\ \A i \in 1..m : f[i] = s[d + i]
    OBVIOUS
  <1> HIDE DEF l, m
  <1>3. m + 1 = (l + 1) - d
    BY <1>1
  <1>4. ASSUME NEW i \in 1..((l + 1) - d) PROVE Append(f, b)[i] = Append(s, b)[d + i]
    <2>1. CASE i = m + 1
      <3>1. d + i = l + 1
        BY <1>1, <2>1
      <3> QED
        BY <1>2, <2>1, <3>1
    <2>2. CASE i # m + 1
      <3>1. i \in 1..m /\ d + i \in 1..l
        BY <1>1, <2>2
      <3> QED
        BY <1>2, <3>1
    <2> QED
      BY <2>1, <2>2
  <1> QED
    BY <1>2, <1>3, <1>4 DEF l, m

(* A delimiter finds a valid assembly exactly where the stream has a frame. *)
LEMMA AssemblyEnds ==
  ASSUME NEW s \in Seq(Byte), NEW f, Assembling(s, f)
  PROVE  LET t == Append(s, DELIMITER) IN
         /\ IsFrame(t, Len(t)) <=> Valid(Added(f, DELIMITER))
         /\ IsFrame(t, Len(t)) => FrameEndingAt(t, Len(t)) = Added(f, DELIMITER)
  <1> DEFINE t == Append(s, DELIMITER)
             n == Len(s) + 1
             frame == FrameEndingAt(t, n)
  <1>0. DELIMITER \in Byte
    BY DEF Byte
  <1>1. t \in Seq(Byte) /\ Len(t) = n /\ n \in Nat /\ t[n] = DELIMITER
        /\ \A j \in 1..Len(s) : t[j] = s[j]
    BY <1>0
  <1>2. PICK d \in 0..Len(s) :
          /\ d = 0 \/ s[d] = DELIMITER
          /\ \A j \in (d + 1)..Len(s) : s[j] # DELIMITER
          /\ f \in Seq(Byte) /\ Len(f) = Fitting(Len(s) - d)
          /\ \A i \in 1..Len(f) : f[i] = s[d + i]
    BY DEF Assembling
  <1> HIDE DEF t
  <1>3. Max(Delimiters(t, n)) = d
    <2>1. d \in Delimiters(t, n)
      BY <1>1, <1>2 DEF Delimiters
    <2>2. /\ Max(Delimiters(t, n)) \in Delimiters(t, n)
          /\ Max(Delimiters(t, n)) \in 0..(n - 1)
          /\ \A j \in 1..(n - 1) : t[j] = DELIMITER => j <= Max(Delimiters(t, n))
      BY <1>1, LastDelimiter
    <2>3. Max(Delimiters(t, n)) <= d
      BY <1>1, <1>2, <2>2 DEF Delimiters
    <2>4. d <= Max(Delimiters(t, n))
      BY <1>1, <1>2, <2>2 DEF Delimiters
    <2> QED
      BY <2>2, <2>3, <2>4
  <1>4. frame = SubSeq(t, d + 1, n)
    BY <1>3 DEF FrameEndingAt, Delimiters
  <1>5. /\ frame \in Seq(Byte) /\ Len(frame) = n - d
        /\ \A i \in 1..(n - d) : frame[i] = t[d + i]
    <2>1. d + 1 \in Int /\ n \in Int /\ d + 1 <= n
      BY <1>1, <1>2
    <2>2. \A i \in (d + 1)..n : t[i] \in Byte
      BY <1>1, <1>2
    <2>3. /\ SubSeq(t, d + 1, n) \in Seq(Byte)
          /\ Len(SubSeq(t, d + 1, n)) = n - (d + 1) + 1
          /\ \A i \in 1..(n - (d + 1) + 1) : SubSeq(t, d + 1, n)[i] = t[d + 1 + i - 1]
      BY <2>1, <2>2, SubSeqProperties
    <2>4. n - (d + 1) + 1 = n - d /\ \A i \in 1..(n - d) : d + 1 + i - 1 = d + i
      BY <1>1, <1>2
    <2> QED
      BY <1>4, <2>3, <2>4
  <1> HIDE DEF frame
  <1>6. CASE Len(s) - d < RX_FRAME_CAPACITY
    <2>1. Len(f) = Len(s) - d /\ Added(f, DELIMITER) = Append(f, DELIMITER)
      BY <1>2, <1>6, Capacities DEF Fitting, Added
    <2>2. /\ Append(f, DELIMITER) \in Seq(Byte) /\ Len(Append(f, DELIMITER)) = n - d
          /\ \A i \in 1..(n - d) : Append(f, DELIMITER)[i] = t[d + i]
      <3>1. /\ f \in Seq(Byte) /\ Len(f) = Len(s) - d
            /\ \A i \in 1..Len(f) : f[i] = s[d + i]
        BY <1>2, <2>1
      <3> QED
        BY <1>0, <3>1, AppendShifted, Zenon DEF t
    <2>3. frame = Append(f, DELIMITER)
      BY <1>5, <2>2, SeqEqual
    <2>4. Len(frame) <= RX_FRAME_CAPACITY
      BY <1>2, <1>5, <1>6, Capacities
    <2> QED
      BY <1>1, <2>1, <2>3, <2>4 DEF IsFrame, frame, t
  <1>7. CASE ~(Len(s) - d < RX_FRAME_CAPACITY)
    <2>1. Len(f) = RX_FRAME_CAPACITY /\ Added(f, DELIMITER) = f
      BY <1>2, <1>7, Capacities DEF Fitting, Added
    <2>2. ~(Len(frame) <= RX_FRAME_CAPACITY)
      BY <1>2, <1>5, <1>7, Capacities
    <2>3. f[Len(f)] # DELIMITER
      BY <1>2, <1>7, <2>1, Capacities
    <2>4. ~Valid(f)
      BY <2>3, EncodedEnds DEF Valid
    <2> QED
      BY <1>1, <2>1, <2>2, <2>4 DEF IsFrame, frame, t
  <1> QED
    BY <1>6, <1>7, <1>2

(* Any other byte extends the assembly, while there is room. *)
LEMMA AssemblyOfAppend ==
  ASSUME NEW s \in Seq(Byte), NEW f, Assembling(s, f), NEW b \in Byte
  PROVE  Assembling(Append(s, b), IF b = DELIMITER THEN <<>> ELSE Added(f, b))
  <1> DEFINE t == Append(s, b)
             n == Len(s) + 1
  <1>1. t \in Seq(Byte) /\ Len(t) = n /\ n \in Nat /\ t[n] = b
        /\ \A j \in 1..Len(s) : t[j] = s[j]
    OBVIOUS
  <1> HIDE DEF t
  <1>2. CASE b = DELIMITER
    <2>1. <<>> \in Seq(Byte) /\ Len(<<>>) = Fitting(n - n)
      BY <1>1, Capacities DEF Fitting
    <2> QED
      BY <1>1, <1>2, <2>1 DEF Assembling, t
  <1>3. CASE b # DELIMITER
    <2>1. PICK d \in 0..Len(s) :
            /\ d = 0 \/ s[d] = DELIMITER
            /\ \A j \in (d + 1)..Len(s) : s[j] # DELIMITER
            /\ f \in Seq(Byte) /\ Len(f) = Fitting(Len(s) - d)
            /\ \A i \in 1..Len(f) : f[i] = s[d + i]
      BY DEF Assembling
    <2>2. /\ Added(f, b) \in Seq(Byte) /\ Len(Added(f, b)) = Fitting(n - d)
          /\ \A i \in 1..Len(Added(f, b)) : Added(f, b)[i] = t[d + i]
      <3>1. CASE Len(f) < RX_FRAME_CAPACITY
        <4>1. Len(f) = Len(s) - d /\ Added(f, b) = Append(f, b)
          BY <2>1, <3>1, Capacities DEF Fitting, Added
        <4>2. /\ Append(f, b) \in Seq(Byte) /\ Len(Append(f, b)) = n - d
              /\ \A i \in 1..(n - d) : Append(f, b)[i] = t[d + i]
          <5>1. /\ f \in Seq(Byte) /\ Len(f) = Len(s) - d
                /\ \A i \in 1..Len(f) : f[i] = s[d + i]
            BY <2>1, <4>1
          <5> QED
            BY <5>1, AppendShifted, Zenon DEF t
        <4>3. Fitting(n - d) = n - d
          BY <2>1, <3>1, <4>1, <4>2, Capacities DEF Fitting
        <4> QED
          BY <4>1, <4>2, <4>3
      <3>2. CASE ~(Len(f) < RX_FRAME_CAPACITY)
        <4>1. Added(f, b) = f /\ Len(f) = RX_FRAME_CAPACITY /\ Len(s) - d >= RX_FRAME_CAPACITY
          BY <2>1, <3>2, Capacities DEF Fitting, Added
        <4> QED
          BY <1>1, <2>1, <4>1, Capacities DEF Fitting
      <3> QED
        BY <3>1, <3>2
    <2>3. \A j \in (d + 1)..Len(t) : t[j] # DELIMITER
      BY <1>1, <1>3, <2>1
    <2>4. d \in 0..Len(t) /\ (d = 0 \/ t[d] = DELIMITER)
      BY <1>1, <2>1
    <2> QED
      BY <1>1, <1>3, <2>2, <2>3, <2>4 DEF Assembling, t
  <1> QED
    BY <1>2, <1>3

-----------------------------------------------------------------------------
(* Framing: the behaviour. *)

(* The bytes received are those consumed and those in the RX FIFO. *)
FifoIsTail ==
  /\ Len(rxFifo) <= Len(received)
  /\ \A i \in 1..Len(rxFifo) : rxFifo[i] = received[(Len(received) - Len(rxFifo)) + i]

FInv ==
  /\ FifoIsTail
  /\ Assembling(Consumed, rx_frame)
  /\ PublishedIs(Consumed, Published)

LEMMA ConsumedType ==
  ASSUME TypeOK, FifoIsTail
  PROVE  /\ Consumed \in Seq(Byte) /\ Len(Consumed) = Len(received) - Len(rxFifo)
         /\ \A i \in 1..(Len(received) - Len(rxFifo)) : Consumed[i] = received[i]
  BY DEF TypeOK, FifoIsTail, Consumed

LEMMA InitFInv == Init => FInv
  <1> SUFFICES ASSUME Init PROVE FInv
    OBVIOUS
  <1> USE DEF Init
  <1>1. FifoIsTail
    BY DEF FifoIsTail
  <1>2. Consumed = <<>> /\ Published = <<>>
    BY DEF Consumed, Published
  <1>3. <<>> \in Seq(Byte) /\ <<>> \in Seq(Request) /\ Len(<<>>) = 0
    OBVIOUS
  <1>4. Assembling(<<>>, <<>>)
    BY <1>3, Capacities DEF Assembling, Fitting
  <1>5. FramesOf(<<>>) = {}
    BY DEF FramesOf
  <1>6. PublishedIs(<<>>, <<>>)
    BY <1>3, <1>5, FS_EmptySet DEF PublishedIs
  <1> QED
    BY <1>1, <1>2, <1>4, <1>6 DEF FInv

LEMMA UnchangedKeepsFInv ==
  ASSUME FInv, UNCHANGED <<received, rxFifo, rx_frame, executed, request>>
  PROVE  FInv'
  BY DEF FInv, FifoIsTail, Consumed, Published

LEMMA ReceiveKeepsFInv ==
  ASSUME LInv, FInv, UsartReceives
  PROVE  FInv'
  <1> USE DEF LInv
  <1>1. CASE Fail("line") \/ Fail("rx") \/ Fail("queue")
    BY <1>1, UnchangedKeepsFInv DEF Fail
  <1>2. CASE ~(Fail("line") \/ Fail("rx") \/ Fail("queue"))
    <2>1. /\ rxFifo' = Append(rxFifo, Head(wire)) /\ wire # <<>>
          /\ received' = Append(received, Head(wire))
          /\ UNCHANGED <<rx_frame, request, executed>>
      BY <1>2, Zenon DEF UsartReceives
    <2>2. Head(wire) \in Byte
      BY <2>1 DEF TypeOK
    <2> DEFINE l == Len(received)
               m == Len(rxFifo)
    <2>3. /\ l \in Nat /\ m \in Nat /\ m <= l
          /\ Len(received') = l + 1 /\ Len(rxFifo') = m + 1
          /\ \A i \in 1..l : received'[i] = received[i]
          /\ \A i \in 1..m : rxFifo'[i] = rxFifo[i]
          /\ received'[l + 1] = Head(wire) /\ rxFifo'[m + 1] = Head(wire)
          /\ received' \in Seq(Byte) /\ rxFifo' \in Seq(Byte)
      BY <2>1, <2>2 DEF TypeOK, FInv, FifoIsTail
    <2>4. \A i \in 1..m : rxFifo[i] = received[(l - m) + i]
      BY DEF FInv, FifoIsTail
    <2>5. Consumed' = SubSeq(received', 1, (l + 1) - (m + 1))
      BY <2>3 DEF Consumed
    <2> HIDE DEF l, m
    <2>6. FifoIsTail'
      <3>1. (l + 1) - (m + 1) = l - m
        BY <2>3
      <3>2. ASSUME NEW i \in 1..(m + 1) PROVE rxFifo'[i] = received'[(l - m) + i]
        <4>1. CASE i = m + 1
          <5>1. (l - m) + (m + 1) = l + 1
            BY <2>3
          <5> QED
            BY <2>3, <4>1, <5>1
        <4>2. CASE i # m + 1
          <5>1. i \in 1..m /\ (l - m) + i \in 1..l
            BY <2>3, <4>2
          <5> QED
            BY <2>3, <2>4, <5>1
        <4> QED
          BY <4>1, <4>2
      <3> QED
        BY <2>3, <3>1, <3>2 DEF FifoIsTail
    <2>7. Consumed' = Consumed
      <3>1. Consumed' = SubSeq(received', 1, l - m) /\ Consumed = SubSeq(received, 1, l - m)
        <4>1. (l + 1) - (m + 1) = l - m
          BY <2>3
        <4> QED
          BY <2>5, <4>1 DEF Consumed, l, m
      <3>2. received \in Seq(Byte) /\ Len(received) = l
        BY DEF TypeOK, l
      <3>3. /\ SubSeq(received, 1, l - m) \in Seq(Byte)
            /\ Len(SubSeq(received, 1, l - m)) = l - m
            /\ \A i \in 1..(l - m) : SubSeq(received, 1, l - m)[i] = received[i]
        BY <2>3, <3>2
      <3>4. /\ SubSeq(received', 1, l - m) \in Seq(Byte)
            /\ Len(SubSeq(received', 1, l - m)) = l - m
            /\ \A i \in 1..(l - m) : SubSeq(received', 1, l - m)[i] = received'[i]
        BY <2>3
      <3>5. \A i \in 1..(l - m) : received'[i] = received[i]
        BY <2>3
      <3> QED
        BY <3>1, <3>3, <3>4, <3>5, SeqEqual
    <2> QED
      BY <2>1, <2>6, <2>7 DEF FInv, Published
  <1> QED
    BY <1>1, <1>2

\* A byte more: Append keeps what was there.
LEMMA OneMore ==
  ASSUME NEW s \in Seq(Byte), NEW b \in Byte
  PROVE  /\ Append(s, b) \in Seq(Byte)
         /\ Len(Append(s, b)) = Len(s) + 1
         /\ \A i \in 1..Len(s) : Append(s, b)[i] = s[i]
         /\ Append(s, b)[Len(s) + 1] = b
<1> HIDE DEF Byte
<1> QED
  OBVIOUS

LEMMA ReadKeepsFInv ==
  ASSUME LInv, FInv, Read
  PROVE  FInv'
  <1> USE DEF LInv
  <1> DEFINE byte == Head(rxFifo)
             complete == byte = DELIMITER /\ Valid(Assembled(byte))
             l == Len(received)
             m == Len(rxFifo)
  <1>1. /\ pc = "read" /\ rxFifo # <<>> /\ rxFifo' = Tail(rxFifo) /\ request = NONE
        /\ rx_frame' = IF byte = DELIMITER THEN <<>> ELSE Assembled(byte)
        /\ request' = IF complete THEN Decoded(Assembled(byte)) ELSE NONE
        /\ UNCHANGED <<received, executed>>
    BY DEF Read, Positioned
  <1>2. /\ byte \in Byte /\ byte = rxFifo[1] /\ m \in Nat \ {0} /\ l \in Nat /\ m <= l
        /\ rxFifo' \in Seq(Byte) /\ Len(rxFifo') = m - 1
        /\ \A i \in 1..(m - 1) : rxFifo'[i] = rxFifo[i + 1]
        /\ \A i \in 1..m : rxFifo[i] = received[(l - m) + i]
        /\ received \in Seq(Byte) /\ Len(received') = l
    BY <1>1 DEF TypeOK, FInv, FifoIsTail
  <1>3. /\ Consumed \in Seq(Byte) /\ Len(Consumed) = l - m
        /\ \A i \in 1..(l - m) : Consumed[i] = received[i]
    BY ConsumedType DEF FInv
  <1>4. Consumed' = SubSeq(received, 1, l - (m - 1))
    BY <1>1, <1>2 DEF Consumed
  <1>5. Assembled(byte) = Added(rx_frame, byte)
    BY DEF Assembled, Added
  <1> HIDE DEF l, m, byte
  <1>6. FifoIsTail'
    <2>1. ASSUME NEW i \in 1..(m - 1)
          PROVE  rxFifo'[i] = received'[(l - (m - 1)) + i]
      <3>1. i + 1 \in 1..m /\ (l - m) + (i + 1) = (l - (m - 1)) + i
        BY <1>2
      <3> QED
        BY <1>1, <1>2, <3>1
    <2>2. m - 1 <= l
      BY <1>2
    <2> QED
      BY <1>2, <2>1, <2>2 DEF FifoIsTail
  <1>7. Consumed' = Append(Consumed, byte)
    <2> DEFINE k == l - m
    <2>1. k \in Nat /\ l - (m - 1) = k + 1 /\ k + 1 <= Len(received) /\ received[k + 1] = byte
      <3>1. l - m \in Nat /\ l - (m - 1) = (l - m) + 1 /\ (l - m) + 1 <= l
        BY <1>2
      <3>2. received[(l - m) + 1] = byte
        BY <1>2
      <3> QED
        BY <3>1, <3>2 DEF l
    <2>2. Len(Consumed) = k /\ \A i \in 1..k : Consumed[i] = received[i]
      BY <1>3
    <2> HIDE DEF k
    <2>3. /\ SubSeq(received, 1, k + 1) \in Seq(Byte) /\ Len(SubSeq(received, 1, k + 1)) = k + 1
          /\ \A i \in 1..(k + 1) : SubSeq(received, 1, k + 1)[i] = received[i]
      BY <1>2, <2>1
    <2>4. /\ Append(Consumed, byte) \in Seq(Byte) /\ Len(Append(Consumed, byte)) = k + 1
          /\ Append(Consumed, byte)[k + 1] = byte
          /\ \A i \in 1..k : Append(Consumed, byte)[i] = Consumed[i]
      <3>1. Consumed \in Seq(Byte) /\ byte \in Byte
        BY <1>2, <1>3
      <3>2. /\ Append(Consumed, byte) \in Seq(Byte)
            /\ Len(Append(Consumed, byte)) = Len(Consumed) + 1
            /\ \A i \in 1..Len(Consumed) : Append(Consumed, byte)[i] = Consumed[i]
            /\ Append(Consumed, byte)[Len(Consumed) + 1] = byte
        BY <3>1, OneMore, Zenon
      <3>3. Len(Consumed) = k
        BY <2>2
      <3> HIDE DEF k
      <3> QED
        BY <3>2, <3>3, Zenon
    <2>5. \A i \in 1..(k + 1) : SubSeq(received, 1, k + 1)[i] = Append(Consumed, byte)[i]
      BY <2>1, <2>2, <2>3, <2>4
    <2> QED
      BY <1>4, <2>1, <2>3, <2>4, <2>5, SeqEqual
  <1>8. Assembling(Consumed', rx_frame')
    BY <1>1, <1>2, <1>3, <1>5, <1>7, AssemblyOfAppend DEF FInv
  <1>9. PublishedIs(Consumed', Published')
    <2>1. Published = executed \o <<>> /\ Published = executed
      BY <1>1 DEF Published, TypeOK
    <2>2. Len(Consumed') = (l - m) + 1 /\ Consumed' \in Seq(Byte)
          /\ Consumed'[Len(Consumed')] = byte
      BY <1>2, <1>3, <1>7
    <2>3. CASE complete
      <3>1. IsFrame(Consumed', Len(Consumed'))
            /\ FrameEndingAt(Consumed', Len(Consumed')) = Assembled(byte)
        BY <1>3, <1>5, <1>7, <2>3, AssemblyEnds DEF FInv
      <3>2. request' = Decoded(Assembled(byte)) /\ request' \in Request
        BY <1>1, <2>3 DEF Valid, Decoded
      <3>3. Published' = executed \o <<request'>>
        BY <1>1, <3>2, NoneIsNoRequest DEF Published
      <3>4. Published' = Append(executed, request')
        BY <3>2, <3>3 DEF TypeOK
      <3> QED
        BY <1>2, <1>3, <1>7, <2>1, <3>1, <3>2, <3>4, PublishedOfAppend DEF FInv
    <2>4. CASE ~complete
      <3>1. Published' = executed \o <<>> /\ Published' = Published
        BY <1>1, <2>1, <2>4 DEF Published
      <3>2. ~IsFrame(Consumed', Len(Consumed'))
        <4>1. CASE byte = DELIMITER
          BY <1>3, <1>5, <1>7, <2>4, <4>1, AssemblyEnds DEF FInv
        <4>2. CASE byte # DELIMITER
          BY <2>2, <4>2 DEF IsFrame
        <4> QED
          BY <4>1, <4>2
      <3> QED
        BY <1>2, <1>3, <1>7, <3>1, <3>2, PublishedOfAppend DEF FInv
    <2> QED
      BY <2>3, <2>4
  <1> QED
    BY <1>6, <1>8, <1>9 DEF FInv

LEMMA PublishKeepsFInv ==
  ASSUME LInv, FInv, PublishRequest
  PROVE  FInv'
  <1> USE DEF LInv
  <1>1. CASE Fail("queue")
    BY <1>1, UnchangedKeepsFInv DEF Fail
  <1>2. CASE ~Fail("queue")
    <2>1. /\ executed' = Append(executed, request) /\ request' = NONE /\ pc = "publish"
          /\ UNCHANGED <<received, rxFifo, rx_frame>>
      BY <1>2, Zenon DEF PublishRequest
    <2>2. request \in Request /\ request # NONE
      BY <2>1 DEF Positioned, TypeOK
    <2>3. Published' = Append(executed, request) \o <<>> /\ Published = executed \o <<request>>
      BY <2>1, <2>2 DEF Published
    <2>4. Published' = Published
      BY <2>2, <2>3 DEF TypeOK
    <2> QED
      BY <2>1, <2>4 DEF FInv, FifoIsTail, Consumed
  <1> QED
    BY <1>1, <1>2

LEMMA FramingInductive == Spec => []FInv
  <1>1. ASSUME LInv, FInv, [Next]_vars PROVE FInv'
    <2>1. CASE (\E r \in Request : HostSends(r)) \/ LineFault \/ UsartTransmits
      BY <1>1, <2>1, UnchangedKeepsFInv DEF HostSends, LineFault, UsartTransmits
    <2>2. CASE UsartReceives
      BY <1>1, <2>2, ReceiveKeepsFInv
    <2>3. CASE RfReports \/ Take \/ GetAvailableBytes \/ Respond
      BY <1>1, <2>3, UnchangedKeepsFInv
      DEF RfReports, Take, GetAvailableBytes, Respond, Fail
    <2>4. CASE Read
      BY <1>1, <2>4, ReadKeepsFInv
    <2>5. CASE PublishRequest
      BY <1>1, <2>5, PublishKeepsFInv
    <2>6. CASE UNCHANGED vars
      BY <1>1, <2>6, UnchangedKeepsFInv DEF vars
    <2> QED
      BY <1>1, <2>1, <2>2, <2>3, <2>4, <2>5, <2>6 DEF Next, Manager
  <1> QED
    BY InitFInv, LinkInductive, <1>1, PTL DEF Spec

-----------------------------------------------------------------------------
(* Every variable of the link keeps to its type, and to the capacity of its     *)
(* FIFO, assembly or queue: what does not fit is refused.                       *)
THEOREM LinkTypeCorrect == Spec => []TypeOK
  <1>1. LInv => TypeOK
    BY DEF LInv
  <1> QED
    BY <1>1, LinkInductive, PTL

(* Bytes in either FIFO have a reader or a transmitter at work, or an event     *)
(* that announces them: USART2_IRQHandler, the drain loop and                   *)
(* hostCommandManagerHal_write, in every interleaving.                          *)
THEOREM LinkStrandsNothing == Spec => []NothingIsStranded
  <1>1. LInv => NothingIsStranded
    BY DEF LInv, NothingIsStranded
  <1> QED
    BY <1>1, LinkInductive, PTL

(* Whatever the line does, the requests published are the valid frames of the   *)
(* bytes consumed, once and in order: frame assembly loses and invents none.    *)
THEOREM LinkFramesExactly == Spec => []FramingIsExact
  <1>1. LInv /\ FInv => FramingIsExact
    BY ConsumedType, PublishedDetermines DEF LInv, FInv, FramingIsExact
  <1> QED
    BY <1>1, LinkInductive, FramingInductive, PTL
-----------------------------------------------------------------------------
(* Overflow, with a host that waits: one frame is in flight, and one response. *)

Alone == ~conditions.pipelined /\ conditions.slowLine /\ ~conditions.reporting

(* What the buffers have to hold: the longest request with its delimiter, and    *)
(* three events.                                                                 *)
Sized == (\A r \in Request : FrameLength[r] < RX_FIFO_CAPACITY) /\ QUEUE_CAPACITY >= 3

(* Only the next byte to be read can be the first of a request, since a frame is *)
(* sent when all bytes before it are read; no fault makes another.               *)
IsFirst(byte) == \E r \in Request : byte = <<r, 1>>
NoFirst(s) == \A i \in 1..Len(s) : ~IsFirst(s[i])
OneFrame ==
  /\ Len(rxFifo) + Len(wire) <= RX_FIFO_CAPACITY
  /\ \A i \in 1..Len(rxFifo) : IsFirst(rxFifo[i]) => i = 1
  /\ \A i \in 1..Len(wire) : IsFirst(wire[i]) => i = 1 /\ rxFifo = <<>>

(* No valid frame can be completed before the host sends the next. *)
Spent == NoFirst(rx_frame) /\ NoFirst(rxFifo) /\ NoFirst(wire)

(* What the queue holds with the object in its drain loop, or at rest over an    *)
(* empty FIFO: an event of a kind at most.  What it holds while the object       *)
(* responds; and what becomes of either when a byte arrives.                     *)
OneOfEach(kinds) == {q \in Seq(kinds) : \A i, j \in 1..Len(q) : q[i] = q[j] => i = j}
Drained == OneOfEach({"data", "response"})
Responding == OneOfEach({"data"})
Announced(queues) == {Append(q, "data") : q \in queues}
HasResponse(q) == \E i \in 1..Len(q) : q[i] = "response"

Shapes ==
  /\ pc \in {"loop", "read"} => queue \in Drained
  /\ pc = "idle" => queue \in IF rxFifo = <<>> THEN Drained ELSE Announced(Drained)
  /\ pc = "respond" => queue \in IF rxFifo = <<>> THEN Responding ELSE Announced(Responding)
  /\ pc = "publish" => queue = <<>> \/ (queue = <<"data">> /\ rxFifo # <<>>)
  /\ ~Spent => queue = IF pc = "idle" /\ rxFifo # <<>> THEN <<"data">> ELSE <<>>

OneResponse ==
  /\ pc \in {"publish", "respond"} \/ txFifo > 0 => Spent
  /\ pc \in {"publish", "respond"} \/ HasResponse(queue) => txFifo = 0

AloneInv == failed = "no" /\ OneFrame /\ Shapes /\ OneResponse
OverflowInv == Alone => failed = "line" \/ AloneInv

LEMMA DrainedIs ==
  ASSUME NEW q \in Drained
  PROVE  /\ q \in Seq({"data", "response"}) /\ Len(q) <= 2
         /\ q # <<>> => IF Head(q) = "data"
                        THEN Tail(q) \in Drained /\ Append(Tail(q), "data") \in Drained
                        ELSE Tail(q) \in Responding
  <1>1. /\ q \in Seq({"data", "response"}) /\ Len(q) \in Nat
        /\ \A i, j \in 1..Len(q) : q[i] = q[j] => i = j
        /\ \A i \in 1..Len(q) : q[i] \in {"data", "response"}
    BY DEF Drained, OneOfEach
  <1>2. Len(q) <= 2
    <2> SUFFICES ASSUME Len(q) >= 3 PROVE FALSE
      BY <1>1
    <2>1. 1 \in 1..Len(q) /\ 2 \in 1..Len(q) /\ 3 \in 1..Len(q)
      BY <1>1
    <2>2. q[1] # q[2] /\ q[1] # q[3] /\ q[2] # q[3]
      BY <1>1, <2>1
    <2> QED
      BY <1>1, <2>1, <2>2
  <1>3. ASSUME q # <<>>
        PROVE  IF Head(q) = "data"
               THEN Tail(q) \in Drained /\ Append(Tail(q), "data") \in Drained
               ELSE Tail(q) \in Responding
    <2> DEFINE t == Tail(q)
    <2>1. /\ t \in Seq({"data", "response"}) /\ Len(t) = Len(q) - 1 /\ Len(t) \in Nat
          /\ \A i \in 1..Len(t) : i + 1 \in 1..Len(q) /\ t[i] = q[i + 1]
          /\ Head(q) = q[1] /\ 1 \in 1..Len(q)
      BY <1>1, <1>3
    <2> HIDE DEF t
    <2>2. ASSUME NEW i \in 1..Len(t), NEW j \in 1..Len(t), t[i] = t[j]
          PROVE  i = j
      BY <1>1, <2>1, <2>2
    <2>3. \A i \in 1..Len(t) : t[i] # Head(q)
      <3> TAKE i \in 1..Len(t)
      <3>1. i + 1 \in 1..Len(q) /\ i + 1 # 1
        BY <2>1
      <3> QED
        BY <1>1, <2>1, <3>1
    <2>4. t \in Drained
      BY <2>1, <2>2 DEF Drained, OneOfEach
    <2>5. ASSUME Head(q) # "data"
          PROVE  t \in Responding
      <3>1. \A i \in 1..Len(t) : t[i] = "data"
        <4> TAKE i \in 1..Len(t)
        <4>1. t[i] \in {"data", "response"} /\ Head(q) \in {"data", "response"}
          BY <1>1, <2>1
        <4> QED
          BY <2>3, <2>5, <4>1
      <3>2. t \in Seq({"data"})
        BY <2>1, <3>1
      <3> QED
        BY <2>2, <3>2 DEF Responding, OneOfEach
    <2>6. ASSUME Head(q) = "data"
          PROVE  Append(t, "data") \in Drained
      <3> DEFINE u == Append(t, "data")
      <3>1. /\ u \in Seq({"data", "response"}) /\ Len(u) = Len(t) + 1
            /\ \A i \in 1..Len(u) : IF i = Len(u) THEN u[i] = "data"
                                     ELSE i \in 1..Len(t) /\ u[i] = t[i] /\ u[i] # "data"
        BY <2>1, <2>3, <2>6
      <3> HIDE DEF u
      <3>2. ASSUME NEW i \in 1..Len(u), NEW j \in 1..Len(u), u[i] = u[j]
            PROVE  i = j
        BY <2>2, <3>1, <3>2
      <3>3. u \in Drained
        BY <3>1, <3>2 DEF Drained, OneOfEach
      <3> QED
        BY <3>3 DEF u
    <2> QED
      BY <2>4, <2>5, <2>6 DEF t
  <1> QED
    BY <1>1, <1>2, <1>3

LEMMA RespondingIs ==
  /\ Responding \subseteq Drained /\ Announced(Responding) \subseteq Announced(Drained)
  /\ \A q \in Responding \cup Announced(Responding) : ~HasResponse(q)
  /\ <<>> \in Responding /\ <<"data">> \in Responding /\ <<"data">> \in Announced(Responding)
  <1>1. Responding \subseteq Drained
    BY DEF Responding, Drained, OneOfEach
  <1>2. <<>> \in Responding /\ <<"data">> \in Responding
    BY DEF Responding, OneOfEach
  <1>3. \A q \in Responding : q \in Seq({"data"}) /\ Append(q, "data") \in Seq({"data"})
    BY DEF Responding, OneOfEach
  <1>4. \A q \in Seq({"data"}) : ~HasResponse(q)
    BY DEF HasResponse
  <1>5. <<"data">> = Append(<<>>, "data")
    OBVIOUS
  <1> QED
    BY <1>1, <1>2, <1>3, <1>4, <1>5 DEF Announced

LEMMA AnnouncedIs ==
  ASSUME NEW q \in Announced(Drained)
  PROVE  /\ Len(q) <= 3 /\ q # <<>>
         /\ IF Head(q) = "data" THEN Tail(q) \in Drained
            ELSE Tail(q) \in Announced(Responding)
  <1>1. PICK p \in Drained : q = Append(p, "data")
    BY DEF Announced
  <1>2. p \in Seq({"data", "response"}) /\ Len(p) <= 2 /\ Len(p) \in Nat
    BY DrainedIs
  <1>3. Len(q) <= 3 /\ q # <<>>
    BY <1>1, <1>2
  <1>4. CASE p = <<>>
    <2>1. Head(q) = "data" /\ Tail(q) = <<>>
      BY <1>1, <1>4
    <2> QED
      BY <1>3, <2>1, RespondingIs
  <1>5. CASE p # <<>>
    <2>1. Head(q) = Head(p) /\ Tail(q) = Append(Tail(p), "data")
      BY <1>1, <1>2, <1>5
    <2> QED
      BY <1>3, <1>5, <2>1, DrainedIs DEF Announced
  <1> QED
    BY <1>4, <1>5

LEMMA FirstsAre ==
  /\ \A b \in {DELIMITER, JUNK, FLAWED} : ~IsFirst(b)
  /\ \A r \in Request :
       /\ Len(Encoded(r)) = FrameLength[r] + 1 /\ IsFirst(Encoded(r)[1])
       /\ \A i \in 1..Len(Encoded(r)) : IsFirst(Encoded(r)[i]) => i = 1
  <1>1. \A b \in {DELIMITER, JUNK, FLAWED} : ~IsFirst(b)
    BY HostLinkAssumption DEF IsFirst
  <1>2. ASSUME NEW r \in Request
        PROVE  /\ Len(Encoded(r)) = FrameLength[r] + 1 /\ IsFirst(Encoded(r)[1])
               /\ \A i \in 1..Len(Encoded(r)) : IsFirst(Encoded(r)[i]) => i = 1
    <2>1. FrameLength[r] \in Nat /\ FrameLength[r] >= 1
      BY HostLinkAssumption
    <2> DEFINE body == [i \in 1..FrameLength[r] |-> <<r, i>>]
    <2>2. /\ Encoded(r) = Append(body, DELIMITER) /\ Len(body) = FrameLength[r]
          /\ body \in Seq(Request \X Nat)
          /\ \A i \in 1..FrameLength[r] : body[i] = <<r, i>>
      BY <2>1 DEF Encoded
    <2> HIDE DEF body
    <2>3. /\ Len(Encoded(r)) = FrameLength[r] + 1
          /\ \A i \in 1..FrameLength[r] : Encoded(r)[i] = <<r, i>>
          /\ Encoded(r)[FrameLength[r] + 1] = DELIMITER
      BY <2>1, <2>2
    <2>4. \A i \in 1..FrameLength[r] : IsFirst(<<r, i>>) <=> i = 1
      BY DEF IsFirst
    <2>5. ASSUME NEW i \in 1..Len(Encoded(r)), IsFirst(Encoded(r)[i])
          PROVE  i = 1
      <3>1. i \in 1..FrameLength[r] \/ i = FrameLength[r] + 1
        BY <2>1, <2>3
      <3>2. CASE i = FrameLength[r] + 1
        BY <1>1, <2>3, <2>5, <3>2
      <3>3. CASE i \in 1..FrameLength[r]
        <4>1. Encoded(r)[i] = <<r, i>>
          BY <2>3, <3>3
        <4> QED
          BY <2>4, <2>5, <3>3, <4>1
      <3> QED
        BY <3>1, <3>2, <3>3
    <2>6. 1 \in 1..FrameLength[r] /\ Encoded(r)[1] = <<r, 1>>
      BY <2>1, <2>3
    <2> QED
      BY <2>3, <2>4, <2>5, <2>6
  <1> QED
    BY <1>1, <1>2


-----------------------------------------------------------------------------
LEMMA InitOverflowInv == Init => OverflowInv
  <1> SUFFICES ASSUME Init PROVE AloneInv
    BY DEF OverflowInv
  <1>1. \A s : s = <<>> => NoFirst(s) /\ ~HasResponse(s)
    BY DEF NoFirst, HasResponse
  <1>2. OneFrame
    BY Capacities DEF Init, OneFrame
  <1>3. Shapes
    BY <1>1, RespondingIs DEF Init, Shapes, Spent
  <1>4. OneResponse
    BY <1>1 DEF Init, OneResponse
  <1> QED
    BY <1>2, <1>3, <1>4 DEF Init, AloneInv

(* The host sends when all is done; the last response has left by then. *)
LEMMA SendKeeps ==
  ASSUME LInv, Sized, Alone, AloneInv, NEW r \in Request, HostSends(r)
  PROVE  AloneInv'
  <1>1. /\ wire = <<>> /\ rxFifo = <<>> /\ queue = <<>> /\ pc = "idle" /\ txFifo = 0
        /\ wire' = wire \o Encoded(r)
        /\ UNCHANGED <<rxFifo, queue, pc, txFifo, rx_frame, failed>>
    BY DEF HostSends, AllDone, Alone
  <1>2. wire' = Encoded(r)
    BY <1>1, EncodedType
  <1>3. OneFrame'
    <2>1. Len(wire') <= RX_FIFO_CAPACITY
      BY <1>2, FirstsAre, HostLinkAssumption DEF Sized
    <2> QED
      BY <1>1, <1>2, <2>1, FirstsAre DEF OneFrame
  <1>4. Shapes'
    BY <1>1, RespondingIs DEF Shapes
  <1>5. OneResponse'
    BY <1>1 DEF OneResponse, HasResponse
  <1> QED
    BY <1>1, <1>3, <1>4, <1>5 DEF AloneInv

(* A fault leaves at most the bytes there were. *)
LEMMA FaultKeeps ==
  ASSUME LInv, AloneInv, LineFault
  PROVE  AloneInv'
  <1>1. /\ wire \in Seq(Byte) /\ wire # <<>> /\ rxFifo \in Seq(Byte)
        /\ UNCHANGED <<rxFifo, queue, pc, txFifo, rx_frame, failed>>
    BY DEF LineFault, LInv, TypeOK
  <1>2. /\ Len(wire') <= Len(wire) /\ Len(wire') \in Nat
        /\ \A i \in 1..Len(wire') : IsFirst(wire'[i]) =>
             \E j \in 1..Len(wire) : j >= i /\ IsFirst(wire[j])
    <2>1. CASE wire' = Tail(wire)
      <3>1. /\ Len(wire') = Len(wire) - 1 /\ Len(wire) \in Nat /\ Len(wire') \in Nat
            /\ \A i \in 1..Len(wire') : i + 1 \in 1..Len(wire) /\ wire'[i] = wire[i + 1]
        BY <1>1, <2>1
      <3> QED
        BY <3>1
    <2>2. ASSUME NEW byte \in {JUNK, DELIMITER, FLAWED}, wire' = <<byte>> \o Tail(wire)
          PROVE  /\ Len(wire') <= Len(wire) /\ Len(wire') \in Nat
                 /\ \A i \in 1..Len(wire') : IsFirst(wire'[i]) =>
                      \E j \in 1..Len(wire) : j >= i /\ IsFirst(wire[j])
      <3>1. byte \in Byte /\ ~IsFirst(byte)
        BY FirstsAre DEF Byte
      <3>2. /\ Tail(wire) \in Seq(Byte) /\ Len(Tail(wire)) = Len(wire) - 1
            /\ \A i \in 1..(Len(wire) - 1) : Tail(wire)[i] = wire[i + 1]
            /\ <<byte>> \in Seq(Byte) /\ Len(<<byte>>) = 1 /\ <<byte>>[1] = byte
            /\ Len(wire) \in Nat
        BY <1>1, <3>1
      <3>3. /\ Len(wire') = Len(wire)
            /\ \A i \in 1..Len(wire) : wire'[i] = IF i = 1 THEN byte ELSE wire[i]
        BY <2>2, <3>2, ConcatProperties
      <3> QED
        BY <3>1, <3>2, <3>3
    <2> QED
      BY <2>1, <2>2 DEF LineFault
  <1>3. NoFirst(wire) => NoFirst(wire')
    BY <1>2 DEF NoFirst
  <1>4. OneFrame'
    <2>1. Len(rxFifo) + Len(wire') <= RX_FIFO_CAPACITY
      <3>1. Len(rxFifo) + Len(wire) <= RX_FIFO_CAPACITY /\ Len(rxFifo) \in Nat
            /\ Len(wire) \in Nat /\ RX_FIFO_CAPACITY \in Nat
        BY <1>1, Capacities DEF AloneInv, OneFrame
      <3> QED
        BY <1>2, <3>1
    <2>2. \A i \in 1..Len(wire') : IsFirst(wire'[i]) => i = 1 /\ rxFifo = <<>>
      <3> SUFFICES ASSUME NEW i \in 1..Len(wire'), IsFirst(wire'[i])
                   PROVE  i = 1 /\ rxFifo = <<>>
        OBVIOUS
      <3>1. PICK j \in 1..Len(wire) : j >= i /\ IsFirst(wire[j])
        BY <1>2
      <3>2. j = 1 /\ rxFifo = <<>>
        BY <3>1 DEF AloneInv, OneFrame
      <3> QED
        BY <3>1, <3>2
    <2> QED
      BY <1>1, <2>1, <2>2 DEF OneFrame, AloneInv
  <1>5. Spent => Spent'
    BY <1>1, <1>3 DEF Spent
  <1>6. Shapes' /\ OneResponse'
    BY <1>1, <1>5 DEF AloneInv, Shapes, OneResponse
  <1> QED
    BY <1>1, <1>4, <1>6 DEF AloneInv

(* The transmitter only takes from the TX FIFO. *)
LEMMA TransmitKeeps ==
  ASSUME LInv, Transmits
  PROVE  /\ txFifo = 0 => txFifo' = 0
         /\ txFifo' > 0 => txFifo > 0
  <1>1. PICK n \in 0..Min({2, txFifo}) : txFifo' = txFifo - n
    BY DEF Transmits
  <1>2. txFifo \in Nat
    BY Capacities DEF LInv, TypeOK
  <1>3. n \in 0..txFifo
    BY <1>1, <1>2, MinOfTwo
  <1> QED
    BY <1>1, <1>2, <1>3

(* A byte arrives: it is announced when the FIFO was empty. *)
LEMMA ReceiveKeeps ==
  ASSUME LInv, Sized, Alone, AloneInv, UsartReceives
  PROVE  failed' = "line" \/ AloneInv'
  <1>0. SUFFICES ASSUME ~Fail("line") PROVE AloneInv'
    BY DEF Fail
  <1>1. /\ wire \in Seq(Byte) /\ wire # <<>> /\ rxFifo \in Seq(Byte) /\ failed = "no"
        /\ Len(wire) \in Nat /\ Len(wire) >= 1 /\ Len(rxFifo) \in Nat
        /\ pc \in {"idle", "respond", "publish"}
    BY DEF UsartReceives, LInv, TypeOK, AloneInv, ByteTimePasses, Alone
  <1>2. Len(rxFifo) # RX_FIFO_CAPACITY
    BY <1>1, Capacities DEF AloneInv, OneFrame
  <1>3. ASSUME rxFifo = <<>> PROVE Fits
    <2>1. queue \in Drained
      BY <1>1, <1>3, RespondingIs DEF AloneInv, Shapes
    <2>2. Len(queue) <= 2 /\ Len(queue) \in Nat
      BY <2>1, DrainedIs
    <2> QED
      BY <2>2, Capacities DEF Sized, Fits
  <1>4. /\ rxFifo' = Append(rxFifo, Head(wire)) /\ wire' = Tail(wire)
        /\ queue' = IF rxFifo = <<>> THEN Append(queue, "data") ELSE queue
        /\ Transmits
        /\ UNCHANGED <<pc, rx_frame, failed>>
    BY <1>0, <1>2, <1>3, Zenon DEF UsartReceives
  <1>5. /\ rxFifo' \in Seq(Byte) /\ Len(rxFifo') = Len(rxFifo) + 1 /\ rxFifo' # <<>>
        /\ rxFifo'[Len(rxFifo) + 1] = wire[1]
        /\ \A i \in 1..Len(rxFifo) : rxFifo'[i] = rxFifo[i]
        /\ Len(wire') = Len(wire) - 1
        /\ \A i \in 1..Len(wire') : i + 1 \in 1..Len(wire) /\ wire'[i] = wire[i + 1]
    BY <1>1, <1>4
  <1>6. 1 \in 1..Len(wire)
    BY <1>1
  <1>7. NoFirst(wire')
    <2> SUFFICES ASSUME NEW i \in 1..Len(wire'), IsFirst(wire'[i]) PROVE FALSE
      BY DEF NoFirst
    <2>1. i + 1 \in 1..Len(wire) /\ wire'[i] = wire[i + 1] /\ i + 1 # 1
      BY <1>5
    <2>2. IsFirst(wire[i + 1])
      BY <2>1
    <2> QED
      BY <2>1, <2>2 DEF AloneInv, OneFrame
  <1>8. \A i \in 1..Len(rxFifo') : IsFirst(rxFifo'[i]) => i = 1
    <2> SUFFICES ASSUME NEW i \in 1..Len(rxFifo'), IsFirst(rxFifo'[i]) PROVE i = 1
      OBVIOUS
    <2>1. CASE i \in 1..Len(rxFifo)
      BY <1>5, <2>1 DEF AloneInv, OneFrame
    <2>2. CASE i = Len(rxFifo) + 1
      <3>1. IsFirst(wire[1])
        BY <1>5, <2>2
      <3>2. rxFifo = <<>>
        BY <1>6, <3>1 DEF AloneInv, OneFrame
      <3> QED
        BY <2>2, <3>2
    <2> QED
      BY <1>1, <1>5, <2>1, <2>2
  <1>9. OneFrame'
    <2>1. Len(rxFifo') + Len(wire') <= RX_FIFO_CAPACITY
      BY <1>1, <1>5, Capacities DEF AloneInv, OneFrame
    <2> QED
      BY <1>7, <1>8, <2>1 DEF OneFrame, NoFirst
  <1>10. Spent => Spent'
    <2> SUFFICES ASSUME Spent PROVE NoFirst(rxFifo')
      BY <1>4, <1>7 DEF Spent
    <2>1. \A i \in 1..Len(rxFifo') : i \in 1..Len(rxFifo) \/ i = Len(rxFifo) + 1
      BY <1>1, <1>5
    <2> QED
      BY <1>5, <1>6, <2>1 DEF Spent, NoFirst
  <1>11. Shapes'
    <2>1. pc' = "idle" => queue' \in Announced(Drained)
      BY <1>4, <1>5 DEF AloneInv, Shapes, Announced
    <2>2. pc' = "respond" => queue' \in Announced(Responding)
      BY <1>4, <1>5 DEF AloneInv, Shapes, Announced
    <2>3. Append(<<>>, "data") = <<"data">>
      OBVIOUS
    <2>4. pc' = "publish" => queue' = <<>> \/ queue' = <<"data">>
      BY <1>4, <2>3 DEF AloneInv, Shapes
    <2>5. ~Spent' => pc = "idle" /\ queue' = <<"data">>
      <3> SUFFICES ASSUME ~Spent PROVE pc = "idle" /\ queue' = <<"data">>
        BY <1>10
      <3>1. pc = "idle"
        BY <1>1 DEF AloneInv, OneResponse
      <3> QED
        BY <1>4, <2>3, <3>1 DEF AloneInv, Shapes
    <2> QED
      BY <1>1, <1>4, <1>5, <2>1, <2>2, <2>4, <2>5 DEF Shapes
  <1>12. OneResponse'
    <2>1. HasResponse(queue') => HasResponse(queue)
      <3>1. queue \in Seq({"data", "response", "report"})
        BY DEF LInv, TypeOK
      <3>2. ASSUME NEW i \in 1..Len(Append(queue, "data")), Append(queue, "data")[i] = "response"
            PROVE  i \in 1..Len(queue) /\ queue[i] = "response"
        BY <3>1, <3>2
      <3> QED
        BY <1>4, <3>2 DEF HasResponse
    <2>2. (txFifo = 0 => txFifo' = 0) /\ (txFifo' > 0 => txFifo > 0)
      BY <1>4, TransmitKeeps
    <2> QED
      BY <1>4, <1>10, <2>1, <2>2 DEF AloneInv, OneResponse
  <1> QED
    BY <1>1, <1>4, <1>9, <1>11, <1>12 DEF AloneInv


LEMMA UsartTransmitsKeeps ==
  ASSUME LInv, AloneInv, UsartTransmits
  PROVE  AloneInv'
  <1>1. Transmits /\ UNCHANGED <<wire, rxFifo, rx_frame, queue, pc, failed>>
    BY DEF UsartTransmits
  <1>2. (txFifo = 0 => txFifo' = 0) /\ (txFifo' > 0 => txFifo > 0)
    BY <1>1, TransmitKeeps
  <1>3. Spent' <=> Spent
    BY <1>1 DEF Spent
  <1> QED
    BY <1>1, <1>2, <1>3 DEF AloneInv, OneFrame, Shapes, OneResponse

LEMMA TakeKeeps ==
  ASSUME LInv, AloneInv, Take
  PROVE  AloneInv'
  <1>1. /\ queue' = Tail(queue) /\ queue # <<>> /\ pc = "idle"
        /\ pc' = IF Head(queue) = "data" THEN "loop" ELSE "respond"
        /\ UNCHANGED <<wire, rxFifo, txFifo, rx_frame, failed>>
    BY DEF Take
  <1>2. /\ queue \in Seq({"data", "response", "report"}) /\ Len(queue) \in Nat
        /\ 1 \in 1..Len(queue) /\ Head(queue) = queue[1]
    <2>1. queue \in Seq({"data", "response", "report"}) /\ queue # <<>>
      BY <1>1 DEF LInv, TypeOK
    <2> QED
      BY <2>1
  <1>3. /\ Head(queue) = "data" => queue' \in Drained
        /\ Head(queue) # "data" =>
             queue' \in IF rxFifo = <<>> THEN Responding ELSE Announced(Responding)
    <2>1. CASE rxFifo = <<>>
      <3>1. queue \in Drained
        BY <1>1, <2>1 DEF AloneInv, Shapes
      <3> QED
        BY <1>1, <2>1, <3>1, DrainedIs
    <2>2. CASE rxFifo # <<>>
      <3>1. queue \in Announced(Drained)
        BY <1>1, <2>2 DEF AloneInv, Shapes
      <3> QED
        BY <1>1, <2>2, <3>1, AnnouncedIs
    <2> QED
      BY <2>1, <2>2
  <1>4. Spent' <=> Spent
    BY <1>1 DEF Spent
  <1>5. ~Spent => Head(queue) = "data" /\ queue' = <<>>
    <2>1. ~Spent => queue = <<"data">>
      BY <1>1 DEF AloneInv, Shapes
    <2>2. Head(<<"data">>) = "data" /\ Tail(<<"data">>) = <<>>
      OBVIOUS
    <2> QED
      BY <1>1, <2>1, <2>2
  <1>6. HasResponse(queue') => HasResponse(queue)
    <2>1. \A i \in 1..Len(Tail(queue)) : i + 1 \in 1..Len(queue) /\ Tail(queue)[i] = queue[i + 1]
      BY <1>1, <1>2
    <2> QED
      BY <1>1, <2>1 DEF HasResponse
  <1>7. Head(queue) # "data" => HasResponse(queue)
    <2>1. queue \in Drained \/ queue \in Announced(Drained)
      BY <1>1 DEF AloneInv, Shapes
    <2>2. \A q \in Drained : q \in Seq({"data", "response"})
      BY DrainedIs
    <2>3. queue \in Seq({"data", "response"})
      BY <2>1, <2>2 DEF Announced
    <2> QED
      BY <1>2, <2>3 DEF HasResponse
  <1>8. Shapes'
    BY <1>1, <1>3, <1>4, <1>5 DEF Shapes
  <1>9. OneResponse'
    BY <1>1, <1>4, <1>5, <1>6, <1>7 DEF AloneInv, OneResponse
  <1> QED
    BY <1>1, <1>8, <1>9 DEF AloneInv, OneFrame

LEMMA GetAvailableKeeps ==
  ASSUME LInv, AloneInv, GetAvailableBytes
  PROVE  AloneInv'
  <1>1. /\ pc = "loop" /\ pc' = IF rxFifo = <<>> THEN "idle" ELSE "read"
        /\ UNCHANGED <<wire, rxFifo, txFifo, rx_frame, queue, failed>>
    BY DEF GetAvailableBytes
  <1>2. Spent' <=> Spent
    BY <1>1 DEF Spent
  <1> QED
    BY <1>1, <1>2 DEF AloneInv, OneFrame, Shapes, OneResponse

(* The byte that is read was the only one that could be the first of a request. *)
LEMMA ReadKeeps ==
  ASSUME LInv, AloneInv, Read
  PROVE  AloneInv'
  <1> DEFINE byte == Head(rxFifo)
             added == Assembled(byte)
             complete == byte = DELIMITER /\ Valid(added)
  <1>1. /\ pc = "read" /\ rxFifo # <<>> /\ rxFifo' = Tail(rxFifo)
        /\ rx_frame' = IF byte = DELIMITER THEN <<>> ELSE added
        /\ pc' = IF complete THEN "publish" ELSE "loop"
        /\ UNCHANGED <<wire, txFifo, queue, failed>>
    BY DEF Read, LInv, Positioned
  <1>2. /\ rxFifo \in Seq(Byte) /\ rx_frame \in Seq(Byte) /\ byte = rxFifo[1] /\ byte \in Byte
        /\ 1 \in 1..Len(rxFifo) /\ Len(rxFifo) \in Nat /\ Len(rxFifo') = Len(rxFifo) - 1
        /\ \A i \in 1..Len(rxFifo') : i + 1 \in 1..Len(rxFifo) /\ rxFifo'[i] = rxFifo[i + 1]
        /\ Len(wire) \in Nat
    BY <1>1 DEF LInv, TypeOK
  <1>3. NoFirst(rxFifo') /\ NoFirst(wire)
    <2>1. \A i \in 1..Len(rxFifo') : ~IsFirst(rxFifo'[i])
      <3> TAKE i \in 1..Len(rxFifo')
      <3>1. i + 1 \in 1..Len(rxFifo) /\ rxFifo'[i] = rxFifo[i + 1] /\ i + 1 # 1
        BY <1>2
      <3>2. ~IsFirst(rxFifo[i + 1])
        BY <3>1 DEF AloneInv, OneFrame
      <3> QED
        BY <3>1, <3>2
    <2>2. \A i \in 1..Len(wire) : ~IsFirst(wire[i])
      BY <1>1 DEF AloneInv, OneFrame
    <2> QED
      BY <2>1, <2>2 DEF NoFirst
  <1>4. OneFrame'
    <2>1. Len(rxFifo') + Len(wire) <= RX_FIFO_CAPACITY
      BY <1>2, Capacities DEF AloneInv, OneFrame
    <2> QED
      BY <1>1, <1>3, <2>1 DEF OneFrame, NoFirst
  <1>5. added \in Seq(Byte) /\ added = (IF Len(rx_frame) < RX_FRAME_CAPACITY
                                       THEN Append(rx_frame, byte) ELSE rx_frame)
    BY <1>2, AssembledType DEF LInv, Assembled
  <1>6. Spent => NoFirst(added)
    <2> SUFFICES ASSUME Spent, NEW i \in 1..Len(added) PROVE ~IsFirst(added[i])
      BY DEF NoFirst
    <2>1. ~IsFirst(byte)
      BY <1>2 DEF Spent, NoFirst
    <2> HIDE DEF byte, added
    <2>2. (i \in 1..Len(rx_frame) /\ added[i] = rx_frame[i]) \/ added[i] = byte
      <3>1. CASE added = rx_frame
        BY <3>1
      <3>2. CASE added = Append(rx_frame, byte)
        BY <1>2, <3>2
      <3> QED
        BY <1>5, <3>1, <3>2
    <2> QED
      BY <2>1, <2>2 DEF Spent, NoFirst
  <1>7. complete => ~Spent
    <2> SUFFICES ASSUME complete, NoFirst(added) PROVE FALSE
      BY <1>6
    <2>1. PICK r \in Request : added = Encoded(r)
      BY DEF Valid
    <2>2. 1 \in 1..Len(added) /\ IsFirst(added[1])
      BY <2>1, FirstsAre, HostLinkAssumption
    <2> QED
      BY <2>2 DEF NoFirst
  <1> HIDE DEF byte, added
  <1>8. Spent \/ complete => Spent'
    <2>1. NoFirst(<<>>)
      BY DEF NoFirst
    <2>2. complete => rx_frame' = <<>>
      BY <1>1
    <2> QED
      BY <1>1, <1>3, <1>6, <2>1, <2>2 DEF Spent
  <1> HIDE DEF complete
  <1>9. Shapes'
    <2>1. queue \in Drained
      BY <1>1 DEF AloneInv, Shapes
    <2>2. ~Spent => queue = <<>>
      BY <1>1 DEF AloneInv, Shapes
    <2> QED
      BY <1>1, <1>7, <1>8, <2>1, <2>2 DEF Shapes
  <1>10. OneResponse'
    <2>1. complete => txFifo = 0
      BY <1>7, Capacities DEF AloneInv, OneResponse, LInv, TypeOK
    <2> QED
      BY <1>1, <1>8, <2>1 DEF AloneInv, OneResponse
  <1> QED
    BY <1>1, <1>4, <1>9, <1>10 DEF AloneInv

LEMMA PublishKeeps ==
  ASSUME LInv, Sized, AloneInv, PublishRequest
  PROVE  AloneInv'
  <1>1. pc = "publish" /\ failed = "no"
    BY DEF PublishRequest, AloneInv
  <1>2. queue \in Responding /\ txFifo = 0 /\ Spent
    BY <1>1, RespondingIs DEF AloneInv, Shapes, OneResponse
  <1>3. Len(queue) <= 2 /\ Len(queue) \in Nat
    <2>1. queue \in Drained
      BY <1>2, RespondingIs
    <2> QED
      BY <2>1, DrainedIs
  <1>4. Fits
    BY <1>3, Capacities DEF Sized, Fits
  <1>5. /\ queue' = IF request \in Answered THEN Append(queue, "response") ELSE queue
        /\ pc' = "loop"
        /\ UNCHANGED <<wire, rxFifo, txFifo, rx_frame, failed>>
    BY <1>4, Zenon DEF PublishRequest
  <1>6. queue' \in Drained
    <2>1. /\ queue \in Seq({"data"}) /\ queue \in Seq({"data", "response"})
          /\ \A i, j \in 1..Len(queue) : queue[i] = queue[j] => i = j
      BY <1>2 DEF Responding, OneOfEach
    <2> DEFINE u == Append(queue, "response")
    <2>2. /\ u \in Seq({"data", "response"}) /\ Len(u) = Len(queue) + 1
          /\ \A i \in 1..Len(u) : IF i = Len(u) THEN u[i] = "response"
                                   ELSE i \in 1..Len(queue) /\ u[i] = queue[i] /\ u[i] = "data"
      BY <1>3, <2>1
    <2> HIDE DEF u
    <2>3. ASSUME NEW i \in 1..Len(u), NEW j \in 1..Len(u), u[i] = u[j]
          PROVE  i = j
      BY <2>1, <2>2, <2>3
    <2>4. u \in Drained
      BY <2>2, <2>3 DEF Drained, OneOfEach
    <2> QED
      BY <1>2, <1>5, <2>4, RespondingIs DEF u
  <1>7. Spent'
    BY <1>2, <1>5 DEF Spent
  <1> QED
    BY <1>1, <1>2, <1>5, <1>6, <1>7 DEF AloneInv, OneFrame, Shapes, OneResponse

LEMMA RespondKeeps ==
  ASSUME LInv, AloneInv, Respond
  PROVE  AloneInv'
  <1>1. pc = "respond" /\ failed = "no" /\ txFifo = 0 /\ Spent
    BY DEF Respond, AloneInv, OneResponse
  <1>2. ~(ResponseLength > TX_FIFO_CAPACITY - txFifo)
    BY <1>1, HostLinkAssumption
  <1>3. pc' = "idle" /\ UNCHANGED <<wire, rxFifo, rx_frame, queue, failed>>
    BY <1>2, Zenon DEF Respond
  <1>4. queue \in IF rxFifo = <<>> THEN Responding ELSE Announced(Responding)
    BY <1>1 DEF AloneInv, Shapes
  <1>5. ~HasResponse(queue)
    BY <1>4, RespondingIs
  <1>6. Spent'
    BY <1>1, <1>3 DEF Spent
  <1>7. Shapes'
    BY <1>3, <1>4, <1>6, RespondingIs DEF Shapes
  <1> QED
    BY <1>1, <1>3, <1>5, <1>6, <1>7 DEF AloneInv, OneFrame, OneResponse

LEMMA OverflowInductive ==
  ASSUME Sized, LInv, OverflowInv, [Next]_vars
  PROVE  OverflowInv'
  <1>1. CASE UNCHANGED vars
    BY <1>1 DEF vars, OverflowInv, Alone, AloneInv, OneFrame, Shapes, OneResponse, Spent
  <1>2. CASE Next
    <2>1. conditions' = conditions
      BY <1>2 DEF Next, HostSends, LineFault, UsartReceives, UsartTransmits, RfReports, Manager,
                  Take, GetAvailableBytes, Read, PublishRequest, Respond, Fail
    <2>3. failed = "no"
      BY <1>2 DEF Next, HostSends, LineFault, UsartReceives, UsartTransmits, RfReports, Manager,
                  Take, GetAvailableBytes, Read, PublishRequest, Respond, Running
    <2> SUFFICES ASSUME Alone, AloneInv PROVE failed' = "line" \/ AloneInv'
      BY <2>1, <2>3 DEF OverflowInv, Alone
    <2>2. ~RfReports
      BY DEF RfReports, Alone
    <2> QED
      BY <1>2, <2>2, SendKeeps, FaultKeeps, ReceiveKeeps, UsartTransmitsKeeps, TakeKeeps,
         GetAvailableKeeps, ReadKeeps, PublishKeeps, RespondKeeps DEF Next, Manager
  <1> QED
    BY <1>1, <1>2

(* With a host that waits for one request to be done before it sends the next, on a  *)
(* line slower than the drain loop and while nothing is received, no FIFO and no     *)
(* queue overflows, whichever bytes the line loses or changes: only an error that    *)
(* the USART detects stops the program (USART2_IRQHandler: EAF_ERROR).  For every    *)
(* set of requests and faults, when the longest request fits the RX FIFO with its    *)
(* delimiter and the event queue holds three events (264 bytes and 5 events in the   *)
(* program).                                                                         *)
THEOREM LinkHoldsWhatComes == ASSUME Sized PROVE Spec => []NothingOverflows
  <1>1. OverflowInv => NothingOverflows
    BY DEF OverflowInv, Alone, AloneInv, NothingOverflows
  <1>2. LInv /\ OverflowInv /\ [Next]_vars => OverflowInv'
    BY OverflowInductive
  <1> QED
    BY InitOverflowInv, LinkInductive, <1>1, <1>2, PTL DEF Spec

=============================================================================
