------------------------------- MODULE HostLink -------------------------------
(***************************************************************************)
(* The host command manager on its serial line: USART2 and its interrupt,  *)
(* the RX and TX FIFOs (host_command_manager_hal.c), frame assembly and    *)
(* responses (host_command_manager_activities.c), and the event queue of   *)
(* the active object (host_command_manager.c).  The RF manager outranks    *)
(* it, so a request is carried out, and its response queued, before its    *)
(* publication returns.  A byte is a part of a frame, JUNK or DELIMITER;   *)
(* only an unharmed frame passes the COBS, length and CRC checks.  FLAWED  *)
(* is a byte in which the USART detects an error itself.                   *)
(***************************************************************************)
EXTENDS Naturals, SequencesExt, FiniteSetsExt

CONSTANTS
  Request,                 \* the requests the host sends
  FrameLength,             \* the bytes of each before the delimiter
  Answered,                \* the requests with a response
  ResponseLength,          \* the encoded bytes of a response or report
  RX_FIFO_CAPACITY, TX_FIFO_CAPACITY, RX_FRAME_CAPACITY, QUEUE_CAPACITY,
  DELIMITER, JUNK, FLAWED, NONE,
  Conditions,              \* the conditions under which the link may run
  MAX_FRAMES, MAX_FAULTS, MAX_REPORTS   \* bounds of a behaviour

\* The host does not wait for one request to be done before it sends the next; the drain
\* loop outruns the line; the RF manager receives, and reports packets.
Condition == [pipelined : BOOLEAN, slowLine : BOOLEAN, reporting : BOOLEAN]

ASSUME HostLinkAssumption ==
  /\ FrameLength \in [Request -> Nat \ {0}]
  /\ Answered \subseteq Request
  /\ {ResponseLength, RX_FIFO_CAPACITY, TX_FIFO_CAPACITY, RX_FRAME_CAPACITY,
      QUEUE_CAPACITY} \subseteq Nat \ {0}
  /\ ResponseLength <= TX_FIFO_CAPACITY
  /\ {MAX_FRAMES, MAX_FAULTS, MAX_REPORTS} \subseteq Nat
  /\ Conditions \subseteq Condition
  /\ NONE \notin Request
  /\ {DELIMITER, JUNK, FLAWED} \cap (Request \X Nat) = {}
  /\ FLAWED \notin {DELIMITER, JUNK}

Encoded(r) == Append([i \in 1..FrameLength[r] |-> <<r, i>>], DELIMITER)

\* EMF_cobs_decode(), the length and the CRC of processFrame().
Valid(frame) == \E r \in Request : frame = Encoded(r)
Decoded(frame) == CHOOSE r \in Request : frame = Encoded(r)

VARIABLES
  conditions,  \* those of this behaviour, which never change
  wire,        \* the bytes the host has sent, in flight
  rxFifo, txFifo,   \* the FIFOs, of the second the fill level only
  txeie,       \* the TX-empty interrupt is enabled
  rx_frame,    \* the frame assembly
  queue,       \* the event queue: "data", "response" and "report" events
  pc,          \* where the active object is
  request,     \* the request it publishes
  failed,      \* what stopped the program: an assertion, or an error on the line
  \* history and bounds:
  received,    \* all bytes the USART received
  executed,    \* all requests published
  frames, faults, reports    \* frames sent, line faults, reports so far

vars == <<conditions, wire, rxFifo, txFifo, txeie, rx_frame, queue, pc, request, failed,
          received, executed, frames, faults, reports>>

Init ==
  /\ conditions \in Conditions
  /\ wire = <<>> /\ rxFifo = <<>> /\ txFifo = 0 /\ txeie = FALSE
  /\ rx_frame = <<>> /\ queue = <<>>
  /\ pc = "idle" /\ request = NONE /\ failed = "no"
  /\ received = <<>> /\ executed = <<>>
  /\ frames = 0 /\ faults = 0 /\ reports = 0

Running == failed = "no"
Fail(reason) ==
  /\ failed' = reason
  /\ UNCHANGED <<conditions, wire, rxFifo, txFifo, txeie, rx_frame, queue, pc,
                 request, received, executed, frames, faults, reports>>

\* EDF_activeObject_publish() to this object: a full queue is an error.
Fits == Len(queue) < QUEUE_CAPACITY

-----------------------------------------------------------------------------
(* The host and the line (external). *)

AllDone ==
  wire = <<>> /\ rxFifo = <<>> /\ queue = <<>> /\ pc = "idle" /\ txFifo = 0

HostSends(r) ==
  /\ Running /\ frames < MAX_FRAMES
  /\ conditions.pipelined \/ AllDone
  /\ wire' = wire \o Encoded(r)
  /\ frames' = frames + 1
  /\ UNCHANGED <<conditions, rxFifo, txFifo, txeie, rx_frame, queue, pc, request,
                 failed, received, executed, faults, reports>>

\* A byte is lost or becomes another, unnoticed; or the USART sees its framing broken or
\* noise in it, or that the interrupt came too late for the byte before (FE, NE, ORE).
LineFault ==
  /\ Running /\ faults < MAX_FAULTS /\ wire # <<>>
  /\ faults' = faults + 1
  /\ \/ wire' = Tail(wire)
     \/ \E byte \in {JUNK, DELIMITER, FLAWED} : wire' = <<byte>> \o Tail(wire)
  /\ UNCHANGED <<conditions, rxFifo, txFifo, txeie, rx_frame, queue, pc, request,
                 failed, received, executed, frames, reports>>

-----------------------------------------------------------------------------
(* USART2_IRQHandler(). *)

\* The transmitter takes what it has room for; an empty FIFO disables its interrupt.
Transmits ==
  \E n \in 0..Min({2, txFifo}) :
    /\ txFifo' = txFifo - n
    /\ txeie' = (txeie /\ txFifo' > 0)

\* A byte time passes between bytes: on a slow line the drain loop has ended by then,
\* unless the RF manager has interrupted it.
ByteTimePasses == conditions.slowLine => pc \notin {"loop", "read"}

\* Mutant: the interrupt notifies when its byte is the second.
NotifyLate ==
  /\ Running /\ wire # <<>> /\ ByteTimePasses
  /\ IF Head(wire) = FLAWED THEN Fail("line")
     ELSE IF Len(rxFifo) = RX_FIFO_CAPACITY THEN Fail("rx")
     ELSE IF Len(rxFifo) = 1 /\ ~Fits THEN Fail("queue")
     ELSE /\ rxFifo' = Append(rxFifo, Head(wire))
          /\ queue' = IF Len(rxFifo) = 1 THEN Append(queue, "data") ELSE queue
          /\ received' = Append(received, Head(wire))
          /\ wire' = Tail(wire)
          /\ Transmits
          /\ UNCHANGED <<conditions, rx_frame, pc, request, failed, executed, frames,
                         faults, reports>>

\* RXNE: the byte goes to the FIFO, and only an empty FIFO notifies the object.  An error
\* flag of the USART is an error of the program, which stops.
UsartReceives ==
  /\ Running /\ wire # <<>> /\ ByteTimePasses
  /\ IF Head(wire) = FLAWED THEN Fail("line")
     ELSE IF Len(rxFifo) = RX_FIFO_CAPACITY THEN Fail("rx")
     ELSE IF rxFifo = <<>> /\ ~Fits THEN Fail("queue")
     ELSE /\ rxFifo' = Append(rxFifo, Head(wire))
          /\ queue' = IF rxFifo = <<>> THEN Append(queue, "data") ELSE queue
          /\ received' = Append(received, Head(wire))
          /\ wire' = Tail(wire)
          /\ Transmits
          /\ UNCHANGED <<conditions, rx_frame, pc, request, failed, executed, frames,
                         faults, reports>>

\* TXE, while its interrupt is enabled.
UsartTransmits ==
  /\ Running /\ txeie
  /\ Transmits
  /\ txFifo > 0 => txFifo' < txFifo
  /\ UNCHANGED <<conditions, wire, rxFifo, rx_frame, queue, pc, request, failed,
                 received, executed, frames, faults, reports>>

-----------------------------------------------------------------------------
(* The active object. *)

Take ==
  /\ Running /\ pc = "idle" /\ queue # <<>>
  /\ pc' = IF Head(queue) = "data" THEN "loop" ELSE "respond"
  /\ queue' = Tail(queue)
  /\ UNCHANGED <<conditions, wire, rxFifo, txFifo, txeie, rx_frame, request, failed,
                 received, executed, frames, faults, reports>>

\* hostCommandManagerHal_getAvailableBytes()
GetAvailableBytes ==
  /\ Running /\ pc = "loop"
  /\ pc' = IF rxFifo = <<>> THEN "idle" ELSE "read"
  /\ UNCHANGED <<conditions, wire, rxFifo, txFifo, txeie, rx_frame, queue, request,
                 failed, received, executed, frames, faults, reports>>

\* Mutant: the byte that finds the buffer full is stored over the last.
AssembledOver(byte) ==
  IF Len(rx_frame) < RX_FRAME_CAPACITY THEN Append(rx_frame, byte)
  ELSE Append(Front(rx_frame), byte)

\* The assembly with the byte, when there is room for it.
Assembled(byte) ==
  IF Len(rx_frame) < RX_FRAME_CAPACITY THEN Append(rx_frame, byte) ELSE rx_frame

\* hostCommandManagerHal_read() and the body of the drain loop, to processFrame().
Read ==
  /\ Running /\ pc = "read"
  /\ rxFifo' = Tail(rxFifo)
  /\ LET byte == Head(rxFifo)
         complete == byte = DELIMITER /\ Valid(Assembled(byte))
     IN /\ rx_frame' = IF byte = DELIMITER THEN <<>> ELSE Assembled(byte)
        /\ request' = IF complete THEN Decoded(Assembled(byte)) ELSE NONE
        /\ pc' = IF complete THEN "publish" ELSE "loop"
  /\ UNCHANGED <<conditions, wire, txFifo, txeie, queue, failed, received, executed,
                 frames, faults, reports>>

\* publishRequest(): the RF manager runs, and its response comes to the queue.
PublishRequest ==
  /\ Running /\ pc = "publish"
  /\ IF request \in Answered /\ ~Fits THEN Fail("queue")
     ELSE /\ queue' = IF request \in Answered THEN Append(queue, "response") ELSE queue
          /\ executed' = Append(executed, request)
          /\ request' = NONE
          /\ pc' = "loop"
          /\ UNCHANGED <<conditions, wire, rxFifo, txFifo, txeie, rx_frame, failed,
                         received, frames, faults, reports>>

\* The RF manager reports a packet, between any two steps (bounded by MAX_REPORTS).
RfReports ==
  /\ Running /\ conditions.reporting /\ reports < MAX_REPORTS
  /\ IF ~Fits THEN Fail("queue")
     ELSE /\ queue' = Append(queue, "report")
          /\ reports' = reports + 1
          /\ UNCHANGED <<conditions, wire, rxFifo, txFifo, txeie, rx_frame, pc,
                         request, failed, received, executed, frames, faults>>

\* Mutant: the transmitter is started when the FIFO was not empty.
RespondWithoutKick ==
  /\ Running /\ pc = "respond"
  /\ IF ResponseLength > TX_FIFO_CAPACITY - txFifo THEN Fail("tx")
     ELSE /\ txFifo' = txFifo + ResponseLength
          /\ txeie' = (txeie \/ txFifo > 0)
          /\ pc' = "idle"
          /\ UNCHANGED <<conditions, wire, rxFifo, rx_frame, queue, request, failed,
                         received, executed, frames, faults, reports>>

\* hostCommandManagerHal_write() starts the transmitter when the FIFO was empty.
Write(length) ==
  /\ txFifo' = txFifo + length
  /\ txeie' = (txeie \/ txFifo = 0)

\* Mutant: a frame that fills the free space exactly is refused.
RespondStrictly ==
  /\ Running /\ pc = "respond"
  /\ IF ResponseLength >= TX_FIFO_CAPACITY - txFifo THEN Fail("tx")
     ELSE /\ Write(ResponseLength)
          /\ pc' = "idle"
          /\ UNCHANGED <<conditions, wire, rxFifo, rx_frame, queue, request, failed,
                         received, executed, frames, faults, reports>>

\* sendResponse(), of a response or a report.
Respond ==
  /\ Running /\ pc = "respond"
  /\ IF ResponseLength > TX_FIFO_CAPACITY - txFifo THEN Fail("tx")
     ELSE /\ Write(ResponseLength)
          /\ pc' = "idle"
          /\ UNCHANGED <<conditions, wire, rxFifo, rx_frame, queue, request, failed,
                         received, executed, frames, faults, reports>>

-----------------------------------------------------------------------------
Manager == Take \/ GetAvailableBytes \/ Read \/ PublishRequest \/ Respond

Next ==
  \/ \E r \in Request : HostSends(r)
  \/ LineFault \/ UsartReceives \/ UsartTransmits \/ RfReports
  \/ Manager

Spec == Init /\ [][Next]_vars

\* Bytes in flight arrive, the transmitter transmits, and the RF manager leaves time
\* for this object.
FairSpec ==
  Spec /\ WF_vars(UsartReceives) /\ WF_vars(UsartTransmits) /\ SF_vars(Manager)

-----------------------------------------------------------------------------
(* Properties *)

Byte == (Request \X Nat) \cup {DELIMITER, JUNK, FLAWED}

TypeOK ==
  /\ conditions \in Conditions
  /\ wire \in Seq(Byte) /\ received \in Seq(Byte)
  /\ rxFifo \in Seq(Byte) /\ Len(rxFifo) <= RX_FIFO_CAPACITY
  /\ txFifo \in 0..TX_FIFO_CAPACITY /\ txeie \in BOOLEAN
  /\ rx_frame \in Seq(Byte) /\ Len(rx_frame) <= RX_FRAME_CAPACITY
  /\ queue \in Seq({"data", "response", "report"}) /\ Len(queue) <= QUEUE_CAPACITY
  /\ pc \in {"idle", "loop", "read", "publish", "respond"}
  /\ request \in Request \cup {NONE} /\ executed \in Seq(Request)
  /\ failed \in {"no", "line", "rx", "tx", "queue"}
  /\ frames \in 0..MAX_FRAMES /\ faults \in 0..MAX_FAULTS /\ reports \in 0..MAX_REPORTS

\* What a stream of bytes requests: its frames are what lies between delimiters, and
\* those that fit the assembly and are valid count.
FrameEndingAt(s, i) ==
  SubSeq(s, Max({0} \cup {j \in 1..(i - 1) : s[j] = DELIMITER}) + 1, i)
FramesOf(s) ==
  {i \in DOMAIN s : /\ s[i] = DELIMITER
                    /\ Len(FrameEndingAt(s, i)) <= RX_FRAME_CAPACITY
                    /\ Valid(FrameEndingAt(s, i))}
NthFrame(s, k) ==
  CHOOSE i \in FramesOf(s) : Cardinality({j \in FramesOf(s) : j <= i}) = k
Requested(s) ==
  [k \in 1..Cardinality(FramesOf(s)) |-> Decoded(FrameEndingAt(s, NthFrame(s, k)))]

\* Whatever the line does to the bytes, exactly the requests whose frames came through
\* are published, once and in order; the assembly finds back after any damage that the
\* USART does not detect (what it detects stops the program).
Consumed == SubSeq(received, 1, Len(received) - Len(rxFifo))
Published == executed \o (IF request = NONE THEN <<>> ELSE <<request>>)
FramingIsExact == Published = Requested(Consumed)

\* Bytes in the RX FIFO are being drained or announced: the notification on the
\* empty FIFO alone, racing the end of the drain loop, strands none.
NoByteStranded ==
  rxFifo # <<>> =>
    pc \in {"loop", "read", "publish"} \/ \E i \in DOMAIN queue : queue[i] = "data"

\* Bytes in the TX FIFO have a transmitter.
NoResponseStranded == txFifo > 0 => txeie

\* Neither direction of the link forgets the bytes it holds.
NothingIsStranded == NoByteStranded /\ NoResponseStranded

\* With a host that waits, a loop that outruns the line and nothing received meanwhile,
\* no FIFO or queue overflows, whichever bytes the line loses or changes: only an error
\* that the USART detects stops the program.
NothingOverflows ==
  ~conditions.pipelined /\ conditions.slowLine /\ ~conditions.reporting =>
    failed \in {"no", "line"}

\* One slot for each signal the object subscribes to is enough.
QueueSuffices == failed # "queue"

\* Unless the program stops, what was sent is read and what was answered is sent.
LinkDrains ==
  <>[](failed # "no" \/ (wire = <<>> /\ rxFifo = <<>> /\ queue = <<>> /\ txFifo = 0))

=============================================================================
