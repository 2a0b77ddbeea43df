--------------------------- MODULE MCHostCommand ---------------------------
EXTENDS HostCommand

\* A valid configuration of each packet type, a few of whose bytes are at a bound already.
Plain(type) ==
  CASE type = LORA ->
         <<1, 0, 0, 0, 25, 16, 14,  7, 4, 1, 0, 12, 0, 0, 1, 0, 36, 20, 1, 2, 3, 4, 7, 4, 22, 10,
           1, 5, 6, 7, 0, 254, 255, 255, 1, 2, 3, 4, 5, 6>>
    [] type = FSK ->
         <<0, 0, 0, 0, 25, 255, 247, 80, 195, 0, 0, 80, 0, 9, 25, 32, 0, 1, 2, 3, 1, 5, 24,
           1, 2, 3, 4, 5, 6, 7, 8, 0, 9, 10, 6, 11, 12, 13, 14, 1, 255, 1, 7, 2, 1, 2, 3,
           100, 0, 0, 50, 0, 0>>
    [] type = MSK ->
         <<3, 0, 0, 96, 9, 254, 22, 232, 3, 0, 8, 8, 0, 1, 2, 3, 1, 64, 1, 2, 3, 4, 5, 6, 7, 8,
           1, 9, 10, 2, 11, 12, 13, 14, 0, 255, 1, 7>>
    [] type = BPSK -> <<2, 0, 0, 0, 60, 16, 0, 0, 64, 156, 1, 2, 3>>

\* Bytes at the bounds of some field; the highest byte of the frequency stays below 128, as
\* TLC's integers are of 32 bits.
Edges == {0, 1, 2, 5, 7, 8, 12, 20, 23, 52, 65, 127, 246, 255}

Varied(type) ==
  {Plain(type)} \cup
  {[Plain(type) EXCEPT ![n] = b] : n \in 1..getConfigurationSize(type), b \in Edges}

SetFrames == {FrameOf(SET_CONFIG, payload) :
                payload \in {p \in UNION {Varied(type) : type \in PacketTypes} : p[5] < 128}}

Data(n, zero) == [i \in 1..n |-> IF i = zero THEN 0 ELSE 7]

\* Packets around a block of the codec, and of the longest sizes.
PacketFrames == {FrameOf(TX_PACKET, Data(n, zero)) : n \in {0, 1, 251, 252, 253, 255}, zero \in {0, 1, 252}}

\* Frames too short, or whose length field wraps around.
Raw == {<<>>, <<0>>, <<2, 0, 254, 255>>, <<9, 0, 255, 255, 1>>, WriteLE(9, 2) \o <<1, 0>>
          \o WriteLE(Crc(<<9, 0, 1, 0>>), 2)}

ShortFrames ==
  {FrameOf(GET_DIAGNOSTICS_REQUEST, <<>>), FrameOf(5, <<1>>), FrameOf(32770, <<>>),
   FrameOf(SET_CONFIG, <<2>>), FrameOf(CALIBRATE, <<38, 240>>), FrameOf(CALIBRATE, <<37, 240>>),
   FrameOf(CALIBRATE, <<60, 241>>), FrameOf(CALIBRATE, <<240, 60>>)}

GetFrame == FrameOf(GET_CONFIG_REQUEST, <<>>)

\* Configurations that are set and read back; the other commands, with reports in between;
\* and a response behind a report of the longest packet.
MCScripts ==
  <<[traffic |-> <<SetFrames, {GetFrame}>>, reports |-> {}],
    [traffic |-> <<PacketFrames \cup Raw \cup ShortFrames, {GetFrame}>>,
     reports |-> {<<CAD_DETECTED, <<>>>>}],
    [traffic |-> <<{GetFrame}>>,
     reports |-> {<<RX_PACKET, Data(n + 2, zero)>> : n \in {0, 251, 255}, zero \in {0, 1}}]>>

MCSamples == UNION {[1..n -> 0..3] : n \in 1..5}
=============================================================================
