---------------------------- MODULE HostCommand ----------------------------
(***************************************************************************)
(* What the bytes of a frame become: from the frame the host sends, through*)
(* processFrame() and publishRequest() of host_command_manager_activities.c*)
(* to the request that is published, and from the responses and reports of *)
(* the RF manager through sendResponse() and the TX FIFO back to the host. *)
(* HostLink models the line, the interrupts and the queue between them.    *)
(***************************************************************************)
EXTENDS Configuration, ByteFifo, TestSupport

CONSTANTS
  Scripts,          \* what may happen: the decoded frames the host sends first, second, ...
                    \* and the reports of the RF manager, <<command, payload>>
  FAULT_LENGTH,     \* frames of up to this many bytes may be damaged on the line
  Samples,          \* short byte strings to try the middleware on
  DECODED_FRAME_CAPACITY, RX_FRAME_CAPACITY, TX_FIFO_CAPACITY

FRAME_OVERHEAD == 6
PACKET_DATA_CAPACITY == 255

\* COMMAND_*, which are the signals of the events as well.
GET_CONFIG_REQUEST == 0
SET_CONFIG == 1
CALIBRATE == 2
TX_PACKET == 3
GET_DIAGNOSTICS_REQUEST == 9
PayloadFree == {GET_CONFIG_REQUEST} \cup 4..GET_DIAGNOSTICS_REQUEST
GET_CONFIG_RESPONSE == 32769
GET_DIAGNOSTICS_RESPONSE == 32770
RX_PACKET == 32771
CAD_DETECTED == 32772

\* Every frame of the host fits in the RX buffer once encoded, and a report carries a packet of
\* the radio; the buffers are those of the code, or longer.
ASSUME HostCommandAssumption ==
  /\ RADIX = 256
  /\ \A i \in DOMAIN Scripts :
       /\ \A n \in 1..Len(Scripts[i].traffic) :
            \A frame \in Scripts[i].traffic[n] :
              /\ frame \in Seq(0..(RADIX - 1))
              /\ ENCODED_SIZE(Len(frame)) <= RX_FRAME_CAPACITY
       /\ Len(Scripts[i].traffic) \in Nat
       /\ \A report \in Scripts[i].reports :
            \/ report[1] = CAD_DETECTED
            \/ /\ report[1] = RX_PACKET
               /\ report[2] \in Seq(0..(RADIX - 1))
               /\ Len(report[2]) \in 2..(PACKET_DATA_CAPACITY + 2)
  /\ {FAULT_LENGTH, DECODED_FRAME_CAPACITY, RX_FRAME_CAPACITY, TX_FIFO_CAPACITY} \subseteq Nat
  /\ RX_FRAME_CAPACITY <= DECODED_FRAME_CAPACITY + 1
  /\ FRAME_OVERHEAD + PACKET_DATA_CAPACITY + 3 <= DECODED_FRAME_CAPACITY
  /\ ENCODED_SIZE(DECODED_FRAME_CAPACITY) <= TX_FIFO_CAPACITY

NONE == <<>>          \* no request, no frame
NOTHING == [command |-> -1, payload |-> <<>>]

\* The frame of sendResponse(), and of the host.
FrameOf(command, payload) ==
  LET covered == WriteLE(command, 2) \o WriteLE(Len(payload), 2) \o payload
  IN covered \o WriteLE(Crc(covered), 2)

VARIABLES
  sent,           \* the decoded frame the host sent last
  encoded,        \* the frame assembly when its delimiter has come
  damaged,        \* the line damaged it
  published,      \* the request published for it
  configuration,  \* that of the RF manager
  txFifo,
  kept,           \* the payload of the last SET_CONFIG it carried out
  due, heard,     \* the responses the host has to get; what it got last, and should have
  overrun,        \* an array was read or written beyond what it holds
  failed,         \* an assertion failed
  script,         \* the one of the Scripts that is played,
  frames, reports,\* and how far
  sample          \* a byte string the middleware is tried on

vars == <<sent, encoded, damaged, published, configuration, kept, txFifo, due, heard, overrun,
          failed, script, frames, reports, sample>>

\* rfManager_init() clears the configuration, which makes it one of FSK.
ZeroPayload == [n \in 1..getConfigurationSize(FSK) |-> 0]

Init ==
  /\ sent = NONE /\ encoded = NONE /\ damaged = FALSE
  /\ published = NOTHING
  /\ kept = ZeroPayload
  /\ configuration = getConfiguration(kept)
  /\ txFifo = NewFifo(TX_FIFO_CAPACITY, 0)
  /\ due = <<>> /\ heard = <<>>
  /\ overrun = FALSE /\ failed = FALSE
  /\ frames = 0 /\ reports = 0
  /\ \/ script \in DOMAIN Scripts /\ sample = <<>>
     \/ script = 0 /\ sample \in Samples       \* nothing happens

-----------------------------------------------------------------------------
(* The host, external.  A byte is lost, or a bit of one is harmed: a harmed byte that looks *)
(* like a delimiter makes two frames of one, which is HostLink's concern.                   *)
Damages(frame) ==
  LET body == 1..(Len(frame) - 1)
      Flip(byte, b) == IF (byte \div 2^b) % 2 = 1 THEN byte - 2^b ELSE byte + 2^b
  IN {[i \in 1..(Len(frame) - 1) |-> IF i < lost THEN frame[i] ELSE frame[i + 1]] : lost \in body}
     \cup {harmed \in {[frame EXCEPT ![i] = Flip(@, b)] : i \in body, b \in 0..7} :
             \A i \in body : harmed[i] # PACKET_DELIMITER}

HostSends ==
  /\ ~failed
  /\ encoded = NONE /\ published = NOTHING
  /\ script # 0 /\ frames < Len(Scripts[script].traffic)
  /\ frames' = frames + 1
  /\ \E frame \in Scripts[script].traffic[frames + 1] :
       /\ sent' = frame
       /\ \/ encoded' = Encode(frame) /\ damaged' = FALSE
          \/ /\ Len(Encode(frame)) <= FAULT_LENGTH
             /\ encoded' \in Damages(Encode(frame))
             /\ damaged' = TRUE
  /\ UNCHANGED <<published, configuration, kept, txFifo, due, heard, overrun, failed, reports,
                 script, sample>>

-----------------------------------------------------------------------------
\* publishCalibrateRequest() and publishTxPacketRequest().
IsCalibration(payload) ==
  Len(payload) = 2 /\ payload[1] >= 38 /\ payload[2] <= 240 /\ payload[1] <= payload[2]

\* publishRequest(): the requests it publishes; all others are ignored.
IsRequest(command, payload) ==
  \/ command \in PayloadFree /\ payload = <<>>
  \/ command = SET_CONFIG /\ HasConfigurationSize(payload)
                          /\ isConfigurationValid(getConfiguration(payload))
  \/ command = CALIBRATE /\ IsCalibration(payload)
  \/ command = TX_PACKET /\ Len(payload) <= PACKET_DATA_CAPACITY

\* processFrame(): the length field is compared in 16 bits.
\* Mutant: a frame without room for its own overhead is looked into.
HasAnyOverhead(decoded) == decoded # NOT_FOUND

HasOverhead(decoded) == decoded # NOT_FOUND /\ Len(decoded) >= FRAME_OVERHEAD

\* The bytes from..to of the decoded array, whatever it holds beyond the frame.
Bytes(decoded, from, to) == [i \in 1..(to - from + 1) |->
  IF from + i - 1 \in DOMAIN decoded THEN decoded[from + i - 1] ELSE 0]

LengthMatches(decoded) ==
  Len(decoded) = (ReadLE(Bytes(decoded, 3, 4)) + FRAME_OVERHEAD) % 65536

\* Mutant: one byte of the CRC is compared.
CrcHalfMatches(decoded) ==
  ReadLE(Bytes(decoded, Len(decoded) - 1, Len(decoded) - 1))
    = Crc(Bytes(decoded, 1, Len(decoded) - 2)) % 256

CrcMatches(decoded) ==
  ReadLE(Bytes(decoded, Len(decoded) - 1, Len(decoded)))
    = Crc(Bytes(decoded, 1, Len(decoded) - 2))

\* The bytes of the decoded array that are read.
LastByteRead(decoded) ==
  IF ~HasOverhead(decoded) THEN 0
  ELSE IF LengthMatches(decoded) /\ CrcMatches(decoded) THEN 4 + ReadLE(Bytes(decoded, 3, 4))
  ELSE 4

RequestIn(decoded) ==
  LET command == ReadLE(Bytes(decoded, 1, 2))
      payload == Bytes(decoded, 5, Len(decoded) - 2)
  IN IF IsRequest(command, payload) THEN [command |-> command, payload |-> payload] ELSE NOTHING

ProcessFrame ==
  LET d == Unstuff(encoded)
      decoded == IF d.found THEN d.out ELSE NOT_FOUND
  IN
  /\ ~failed
  /\ encoded # NONE
  /\ encoded' = NONE
  /\ published' = IF HasOverhead(decoded) /\ LengthMatches(decoded) /\ CrcMatches(decoded)
                  THEN RequestIn(decoded) ELSE NOTHING
  /\ overrun' = \/ overrun
                \/ Len(encoded) > RX_FRAME_CAPACITY
                \/ Len(d.out) > DECODED_FRAME_CAPACITY
                \/ LastByteRead(decoded) > Len(decoded)
  /\ UNCHANGED <<sent, damaged, configuration, kept, txFifo, due, heard, failed, frames, reports,
                 script, sample>>

-----------------------------------------------------------------------------
\* sendResponse() and hostCommandManagerHal_write().  The first assertion is that of
\* sendResponse(), the last that of EMF_byteFifo_push().
SendResponse(command, payload) ==
  LET response == Encode(FrameOf(command, payload)) IN
  /\ overrun' = (overrun \/ Len(response) > ENCODED_SIZE(DECODED_FRAME_CAPACITY))
  /\ IF /\ Len(payload) <= DECODED_FRAME_CAPACITY - FRAME_OVERHEAD
        /\ Len(response) <= ENCODED_SIZE(DECODED_FRAME_CAPACITY)
        /\ CanPush(txFifo, response)
     THEN /\ txFifo' = Push(txFifo, response)
          /\ UNCHANGED failed
     ELSE /\ failed' = TRUE
          /\ UNCHANGED txFifo

\* hostCommandManagerActivities_handleRxPacket(): a packet between its length and its status.
ReportOf(report) ==
  IF report[1] = RX_PACKET
  THEN <<Len(report[2]) - 2>> \o report[2] ELSE <<>>

\* The RF manager keeps a configuration and answers with it, or with its diagnostics.
Carry(request) ==
  /\ published' = NOTHING
  /\ IF request.command = SET_CONFIG
     THEN configuration' = getConfiguration(request.payload) /\ kept' = request.payload
     ELSE UNCHANGED <<configuration, kept>>

GetConfigResponse ==
  /\ ~failed
  /\ published.command = GET_CONFIG_REQUEST
  /\ Carry(published)
  /\ SendResponse(GET_CONFIG_RESPONSE, setConfiguration(configuration))
  /\ due' = Append(due, <<GET_CONFIG_RESPONSE, kept>>)
  /\ UNCHANGED <<sent, encoded, damaged, heard, frames, reports, script, sample>>

GetDiagnosticsResponse ==
  /\ ~failed
  /\ published.command = GET_DIAGNOSTICS_REQUEST
  /\ Carry(published)
  /\ \E operation \in {0, 6}, errors \in {0, 256} :
       /\ SendResponse(GET_DIAGNOSTICS_RESPONSE, <<operation>> \o WriteLE(errors, 2))
       /\ due' = Append(due, <<GET_DIAGNOSTICS_RESPONSE, <<operation>> \o WriteLE(errors, 2)>>)
  /\ UNCHANGED <<sent, encoded, damaged, heard, frames, reports, script, sample>>

WithoutResponse ==
  /\ ~failed
  /\ published # NOTHING
  /\ published.command \notin {GET_CONFIG_REQUEST, GET_DIAGNOSTICS_REQUEST}
  /\ Carry(published)
  /\ UNCHANGED <<sent, encoded, damaged, txFifo, due, heard, overrun, failed, frames,
                 reports, script, sample>>

\* RX_PACKET and CAD_DETECTED, at most one while the line has not caught up.
RfReports ==
  /\ ~failed
  /\ script # 0 /\ reports = 0 /\ due = <<>>
  /\ reports' = 1
  /\ \E report \in Scripts[script].reports :
       /\ SendResponse(report[1], ReportOf(report))
       /\ due' = Append(due, <<report[1], ReportOf(report)>>)
  /\ UNCHANGED <<sent, encoded, damaged, published, configuration, kept, heard, frames, script, sample>>

\* The USART takes a byte of the TX FIFO per interrupt; the host decodes when a delimiter comes.
UsartTransmits ==
  LET queued == Peek(txFifo, txFifo.used) IN
  /\ ~failed
  /\ ~isEmpty(txFifo)
  /\ \E n \in 1..txFifo.used :
       /\ queued[n] = PACKET_DELIMITER
       /\ \A i \in 1..(n - 1) : queued[i] # PACKET_DELIMITER
       /\ txFifo' = Drop(txFifo, n)
       /\ heard' = <<Decode(SubSeq(queued, 1, n)), FrameOf(Head(due)[1], Head(due)[2])>>
  /\ due' = Tail(due)
  /\ UNCHANGED <<sent, encoded, damaged, published, configuration, kept, overrun, failed, frames,
                 reports, script, sample>>

Next ==
  \/ HostSends \/ ProcessFrame
  \/ GetConfigResponse \/ GetDiagnosticsResponse \/ WithoutResponse
  \/ RfReports \/ UsartTransmits

Spec == Init /\ [][Next]_vars
-----------------------------------------------------------------------------
\* The request a frame stands for, by its format alone.
Meant(frame) ==
  LET command == ReadLE(Bytes(frame, 1, 2))
      payload == SubSeq(frame, 5, Len(frame) - 2)
  IN IF frame = FrameOf(command, payload) /\ IsRequest(command, payload)
     THEN [command |-> command, payload |-> payload] ELSE NOTHING

\* Every frame that arrives unharmed has its request published, and nothing else; a frame that
\* is no request publishes nothing, whatever its length field says.  (processFrame() and
\* publishRequest().)
RequestsComeThrough ==
  [][encoded # NONE /\ encoded' = NONE /\ ~damaged => published' = Meant(sent)]_vars

\* A frame that the line has damaged publishes nothing, wherever the damage is: its delimiters,
\* its length or its CRC give it away.  (processFrame().)
DamageIsNoticed ==
  [][encoded # NONE /\ encoded' = NONE /\ damaged => published' = NOTHING]_vars

\* No configuration or calibration that is accepted fails an assertion of the radio HAL, is
\* cut off by a register, or turns a single reception into an endless one.
AcceptedIsProgrammable ==
  /\ published.command = SET_CONFIG =>
       LET c == getConfiguration(published.payload) IN
       /\ AssertionsHold(c)
       /\ c.packet_type \in {FSK, MSK} => RateDivisor(c) < RADIX^3
       /\ c.packet_type \in {FSK, LORA} /\ c.rx_mode = 0 => ReceiveTimeout(c) # RX_CONTINUOUS
  /\ published.command = CALIBRATE =>
       38 <= published.payload[1] /\ published.payload[1] <= published.payload[2]
                                  /\ published.payload[2] <= 240

\* The host decodes each response to what it should hold: a configuration to the bytes it was
\* set with.  (setConfiguration(), sendResponse(), the ring of the TX FIFO.)
AnswersAreExact ==
  /\ heard # <<>> => heard[1] = heard[2]
  /\ ~failed /\ isEmpty(txFifo) => due = <<>>

\* No array of the codecs is too short for what the protocol can bring, and no more of a
\* decoded frame is read than it has; a response always finds room unless another is before it.
NothingIsOverrun == ~overrun /\ (failed => Len(due) > 1)

-----------------------------------------------------------------------------
(* The middleware by itself, on short strings; COBS with blocks of 2 and integers of radix 8 *)
(* so that full blocks and every width occur.                                                *)
Small == INSTANCE FrameCodec WITH RADIX <- 8, BLOCK_MAX <- 2

Mirror(bytes) == [n \in 1..Len(bytes) |-> bytes[Len(bytes) + 1 - n]]

CobsInverts ==
  LET e == Small!Encode(sample) IN
  /\ Small!Decode(e) = sample
  /\ \A n \in 1..Len(e) : e[n] = PACKET_DELIMITER <=> n = Len(e)
  /\ Len(e) <= Small!ENCODED_SIZE(Len(sample))
  /\ sample # <<>> => Len(Small!Unstuff(sample).out) < Len(sample)   \* even of no frame

CrcDivides ==
  /\ sample # <<>> => Crc(sample \o WriteBE(Crc(sample), 2)) = 0
  /\ \A n \in 1..Len(sample), b \in 0..3 :
       b # sample[n] => Crc(sample) # Crc([sample EXCEPT ![n] = b])

EndiannessInverts ==
  LET width == Len(sample) IN
  /\ Small!WriteLE(Small!ReadLE(sample), width) = sample
  /\ Small!WriteBE(Small!ReadBE(sample), width) = sample
  /\ Small!ReadBE(Mirror(sample)) = Small!ReadLE(sample)
  /\ \A order \in {"LE", "BE"} :
       width \in {1, 2, 4, 8} =>
         Small!WriteBuff(order, Small!ReadBuff(order, sample, 0), width, 0) = sample

\* The string read as operations on both FIFOs and a queue: flush, push one, push two, take.
FifoRun ==
  LET Fits(q, n) == Len(q) + n <= 3
      Did(s, n) ==
        LET one == <<n>> two == <<n, -n>>
        IN CASE sample[n] = 0 -> [fifo |-> Flush(s.fifo), array |-> ArrayFlush(s.array),
                                  queue |-> <<>>]
             [] sample[n] = 1 /\ Fits(s.queue, 1) ->
                  [fifo |-> Push(s.fifo, one), array |-> ArrayPush(s.array, n),
                   queue |-> s.queue \o one]
             [] sample[n] = 2 /\ Fits(s.queue, 2) ->
                  [fifo |-> Push(s.fifo, two), array |-> ArrayPush(ArrayPush(s.array, n), -n),
                   queue |-> s.queue \o two]
             [] sample[n] = 3 /\ s.queue # <<>> ->
                  [fifo |-> Drop(s.fifo, 1), array |-> ArrayDrop(s.array), queue |-> Tail(s.queue)]
             [] OTHER -> s
      after[n \in 0..Len(sample)] ==
        IF n = 0 THEN [fifo |-> NewFifo(3, 0), array |-> NewArray(3, 0), queue |-> <<>>]
        ELSE Did(after[n - 1], n)
  IN after[Len(sample)]

FifosAreQueues ==
  LET end == FifoRun IN
  /\ Peek(end.fifo, end.fifo.used) = end.queue
  /\ \A n \in 0..3 : CanPeek(end.fifo, n, 1) <=> n < Len(end.queue)
  /\ \A n \in 0..(Len(end.queue) - 1) : PeekAt(end.fifo, n, 1) = <<end.queue[n + 1]>>
  /\ isFull(end.fifo) = end.array.full
  /\ ArrayUsed(end.array) = Len(end.queue)
  /\ ArrayIsEmpty(end.array) <=> end.queue = <<>>
  /\ end.queue # <<>> =>
       /\ ArrayPeek(end.array) = Head(end.queue)
       /\ Pop(end.fifo, 1) = [bytes |-> <<Head(end.queue)>>, fifo |-> Drop(end.fifo, 1)]

TestsAreSupported ==
  sample # <<>> =>
    FakesAnswer(sample) /\ SuitesAreReported(sample) /\ PrintingIsExact(sample) /\ StdoutIsAQueue(sample)

\* Each codec has its inverse and respects its bounds, a CRC tells strings that differ in a
\* byte apart, both FIFOs and the standard output are queues, and fakes and test reports
\* answer as they should, whatever the sequence of their operations.
MiddlewareIsSound ==
  CobsInverts /\ CrcDivides /\ EndiannessInverts /\ FifosAreQueues /\ TestsAreSupported
=============================================================================
