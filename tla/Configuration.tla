---------------------------- MODULE Configuration ----------------------------
(***************************************************************************)
(* The configuration of the radio: its wire format and the checks of the   *)
(* host command manager (host_command_manager_activities.c), and what the  *)
(* radio HAL demands of it (target/rf_manager_hal.c).  A configuration is  *)
(* a record of the fields of its packet type.                              *)
(***************************************************************************)
EXTENDS FrameCodec

\* RF_TYPES_PACKET_TYPE_*
FSK  == 0
LORA == 1
BPSK == 2
MSK  == 3
PacketTypes == {FSK, LORA, BPSK, MSK}
COMMON_SIZE == 7
UNWRITTEN == -1                              \* a byte of a payload array never written

getConfigurationSize(packet_type) ==
  CASE packet_type = LORA -> 40 [] packet_type = FSK -> 53
    [] packet_type = MSK -> 38 [] packet_type = BPSK -> 13 [] OTHER -> 0

-----------------------------------------------------------------------------
\* Where each field lies, <<offset, width>>; the packet-type block counts from its own start.
Common == [packet_type |-> <<0, 1>>, rf_frequency_hz |-> <<1, 4>>,
           payload_length_bytes |-> <<5, 1>>, tx_output_power_dbm |-> <<6, 1>>]

LoraBlock ==
  [spreading_factor |-> <<0, 1>>, bandwidth_khz |-> <<1, 1>>, coding_rate |-> <<2, 1>>,
   low_data_rate_optimize |-> <<3, 1>>, preamble_length |-> <<4, 2>>, header_mode |-> <<6, 1>>,
   payload_crc_enabled |-> <<7, 1>>, invert_iq |-> <<8, 1>>, synchronization_word |-> <<9, 2>>,
   operation_timeout |-> <<11, 3>>, symbol_timeout |-> <<14, 1>>, tx_ramp_time_us |-> <<15, 1>>,
   scan_symbol_count |-> <<16, 1>>, detection_peak_threshold |-> <<17, 1>>,
   detection_minimum_threshold |-> <<18, 1>>, exit_mode |-> <<19, 1>>, cad_timeout |-> <<20, 3>>,
   rx_mode |-> <<23, 1>>, rx_timeout_control |-> <<24, 3>>, rx_period |-> <<27, 3>>,
   sleep_period |-> <<30, 3>>]

FskBlock ==
  [bit_rate_bps |-> <<0, 3>>, frequency_deviation_hz |-> <<3, 3>>, pulse_shape |-> <<6, 1>>,
   receive_bandwidth_khz |-> <<7, 1>>, preamble_length |-> <<8, 2>>,
   operation_timeout |-> <<10, 3>>, payload_length_mode |-> <<13, 1>>,
   preamble_detection_length_bits |-> <<14, 1>>, sync_word_length_bits |-> <<15, 1>>,
   sync_word |-> <<16, 8>>, address_filtering |-> <<24, 1>>, node_address |-> <<25, 1>>,
   broadcast_address |-> <<26, 1>>, crc_type |-> <<27, 1>>, crc_initial_value |-> <<28, 2>>,
   crc_polynomial |-> <<30, 2>>, whitening_enabled |-> <<32, 1>>,
   whitening_initial_value |-> <<33, 2>>, tx_ramp_time_us |-> <<35, 1>>, rx_mode |-> <<36, 1>>,
   rx_timeout_control |-> <<37, 3>>, rx_period |-> <<40, 3>>, sleep_period |-> <<43, 3>>]

MskBlock ==
  [bit_rate_bps |-> <<0, 3>>, pulse_shape |-> <<3, 1>>, preamble_length |-> <<4, 2>>,
   operation_timeout |-> <<6, 3>>, payload_length_mode |-> <<9, 1>>,
   sync_word_length_bits |-> <<10, 1>>, sync_word |-> <<11, 8>>, address_filtering |-> <<19, 1>>,
   node_address |-> <<20, 1>>, broadcast_address |-> <<21, 1>>, crc_type |-> <<22, 1>>,
   crc_initial_value |-> <<23, 2>>, crc_polynomial |-> <<25, 2>>, whitening_enabled |-> <<27, 1>>,
   whitening_initial_value |-> <<28, 2>>, tx_ramp_time_us |-> <<30, 1>>]

BpskBlock == [bit_rate_bps |-> <<0, 3>>, operation_timeout |-> <<3, 3>>]

\* The switches of getConfiguration() and setConfiguration().
Block(packet_type) ==
  CASE packet_type = LORA -> LoraBlock [] packet_type = FSK -> FskBlock
    [] packet_type = MSK -> MskBlock [] packet_type = BPSK -> BpskBlock

\* The bytes of each field of a packet type, counted from 1.
Layout(packet_type) ==
  LET block == Block(packet_type) IN
  [f \in DOMAIN Common \cup DOMAIN block |->
     IF f \in DOMAIN Common THEN (Common[f][1] + 1)..(Common[f][1] + Common[f][2])
     ELSE (COMMON_SIZE + block[f][1] + 1)..(COMMON_SIZE + block[f][1] + block[f][2])]

\* The field loops over the bytes of a sync_word; the power is signed; the rest is an integer.
FieldValue(f, bytes) ==
  IF f = "sync_word" THEN bytes
  ELSE IF f = "tx_output_power_dbm" /\ bytes[1] > 127 THEN bytes[1] - 256
  ELSE ReadLE(bytes)

FieldBytes(f, value, width) ==
  IF f = "sync_word" THEN value
  ELSE WriteLE(IF value < 0 THEN value + 256 ELSE value, width)

First(range) == CHOOSE n \in range : \A o \in range : n <= o

\* getConfiguration(), of a payload that HasConfigurationSize.
HasConfigurationSize(payload) ==
  Len(payload) >= COMMON_SIZE /\ Len(payload) = getConfigurationSize(payload[1])

getConfiguration(payload) ==
  LET layout == Layout(payload[1]) IN
  [f \in DOMAIN layout |->
     LET first == First(layout[f]) IN
     FieldValue(f, [n \in 1..(Cardinality(layout[f])) |-> payload[first + n - 1]])]

\* setConfiguration(): where two fields overlap a byte, either may be the later one.
setConfiguration(c) ==
  LET layout == Layout(c.packet_type) IN
  [n \in 1..getConfigurationSize(c.packet_type) |->
     IF \A f \in DOMAIN layout : n \notin layout[f] THEN UNWRITTEN
     ELSE LET f == CHOOSE g \in DOMAIN layout : n \in layout[g]
              first == First(layout[f])
          IN FieldBytes(f, c[f], Cardinality(layout[f]))[n - first + 1]]

-----------------------------------------------------------------------------
\* isConfigurationValid() and the functions it calls.
PulseShapes == {0} \cup 8..11
CrcTypes == {0, 1, 2, 4, 6}
LoraBandwidths == 0..6 \cup 8..10

FskBandwidthHz ==
  [b \in 9..31 |->
     CASE b = 31 -> 4800   [] b = 23 -> 5800   [] b = 15 -> 7300   [] b = 30 -> 9700
       [] b = 22 -> 11700  [] b = 14 -> 14600  [] b = 29 -> 19500  [] b = 21 -> 23400
       [] b = 13 -> 29300  [] b = 28 -> 39000  [] b = 20 -> 46900  [] b = 12 -> 58600
       [] b = 27 -> 78200  [] b = 19 -> 93800  [] b = 11 -> 117300 [] b = 26 -> 156200
       [] b = 18 -> 187200 [] b = 10 -> 234300 [] b = 25 -> 312000 [] b = 17 -> 373600
       [] b = 9 -> 467000  [] OTHER -> 0]
getFskBandwidthHz(b) == IF b \in DOMAIN FskBandwidthHz THEN FskBandwidthHz[b] ELSE 0

\* Mutant: a single reception may wait for 0xFFFFFF, which the radio takes for "no timeout".
isRxTimeoutUnchecked(c) == TRUE

isRxTimeoutValid(c) == c.rx_mode # 0 \/ c.rx_timeout_control <= 16777214

\* Twice the deviation is 15625 d / 8192 Hz, from d steps of 32 MHz / 2^25.  The code scales
\* both sides by 2^25 to avoid rounding; here the integers between are compared.
DoubleDeviation(d) == 15625 * (d \div 8192) + (15625 * (d % 8192)) \div 8192
DoubleDeviationUp(d) == 15625 * (d \div 8192) + (15625 * (d % 8192) + 8191) \div 8192

isFskModulationValid(c) ==
  LET bandwidth == getFskBandwidthHz(c.receive_bandwidth_khz) IN
  /\ bandwidth # 0
  /\ DoubleDeviationUp(c.frequency_deviation_hz) + c.bit_rate_bps <= 500000
  /\ DoubleDeviation(c.frequency_deviation_hz) + c.bit_rate_bps + 2 * 160 < bandwidth

\* The whole detection ticks, 64000 * bits / rate, without their product.
DetectionTicks(bits, rate) ==
  2 * ((32000 * bits) \div rate) + (2 * ((32000 * bits) % rate)) \div rate

isFskRxDutyCycleValid(c) ==
  \/ c.rx_mode # 2
  \/ c.rx_period = 0
  \/ DetectionTicks(c.preamble_length + c.sync_word_length_bits, c.bit_rate_bps)
       < 2 * c.rx_period + c.sleep_period

isCommonValid(c) ==
  /\ c.rf_frequency_hz >= 157286400 /\ c.rf_frequency_hz <= 1006632960
  /\ c.tx_output_power_dbm \in -9..22

isLoraValid(c) ==
  /\ c.spreading_factor \in 5..12
  /\ c.bandwidth_khz \in LoraBandwidths
  /\ ~(c.rf_frequency_hz < 419430400 /\ c.bandwidth_khz \in 5..6)
  /\ c.coding_rate <= 4 /\ c.low_data_rate_optimize <= 1
  /\ c.preamble_length >= 1
  /\ ~(c.spreading_factor <= 6 /\ c.preamble_length < 12)
  /\ c.header_mode <= 1 /\ c.payload_crc_enabled <= 1 /\ c.invert_iq <= 1
  /\ c.synchronization_word \in {5156, 13380}
  /\ c.tx_ramp_time_us <= 7 /\ c.scan_symbol_count <= 4 /\ c.exit_mode <= 1
  /\ c.rx_mode <= 2 /\ isRxTimeoutValid(c)

\* What isConfigurationValid() checks of both FSK and MSK.
isGenericValid(c) ==
  /\ c.pulse_shape \in PulseShapes
  /\ c.preamble_length >= 8
  /\ c.payload_length_mode <= 1 /\ c.sync_word_length_bits <= 64
  /\ c.address_filtering <= 2
  /\ ~(c.address_filtering # 0 /\ c.payload_length_bytes > 254)
  /\ c.crc_type \in CrcTypes
  /\ c.whitening_enabled <= 1 /\ c.whitening_initial_value <= 511
  /\ c.tx_ramp_time_us <= 7

isFskValid(c) ==
  /\ c.bit_rate_bps >= 600 /\ c.bit_rate_bps <= 300000
  /\ c.frequency_deviation_hz >= 630 /\ c.frequency_deviation_hz <= 209715
  /\ isFskModulationValid(c)
  /\ isGenericValid(c)
  /\ c.preamble_detection_length_bits \in {0} \cup 4..7
  /\ c.rx_mode <= 2 /\ isRxTimeoutValid(c)
  /\ isFskRxDutyCycleValid(c)

isMskValid(c) == c.bit_rate_bps >= 100 /\ c.bit_rate_bps <= 10000 /\ isGenericValid(c)

isBpskValid(c) == c.bit_rate_bps \in {10240000, 1706666}

isConfigurationValid(c) ==
  /\ isCommonValid(c)
  /\ CASE c.packet_type = LORA -> isLoraValid(c)
       [] c.packet_type = FSK -> isFskValid(c)
       [] c.packet_type = MSK -> isMskValid(c)
       [] c.packet_type = BPSK -> isBpskValid(c)

-----------------------------------------------------------------------------
\* The assertions of rfManagerHal_setConfiguration() and setFskModulationParameters().
AssertionsHold(c) ==
  /\ c.packet_type \in PacketTypes
  /\ c.packet_type = BPSK => c.bit_rate_bps \in {10240000, 1706666}
  /\ c.packet_type = LORA => c.synchronization_word \in {5156, 13380}
  /\ c.packet_type = FSK => c.bit_rate_bps > 0

\* The bit rate register of three bytes: 32 crystal periods per bit.
RateDivisor(c) == (32 * 32000000) \div c.bit_rate_bps

\* rfManagerHal_startReceive(): the timeout the radio is given in mode 0 and 1.
RX_CONTINUOUS == 16777215
ReceiveTimeout(c) == IF c.rx_mode = 1 THEN RX_CONTINUOUS ELSE c.rx_timeout_control

\* sx126x_set_lora_sync_word() is given the high nibble of each byte of the word.
SyncNibbles(c) ==
  16 * (c.synchronization_word \div 4096) + ((c.synchronization_word \div 16) % 16)
=============================================================================
