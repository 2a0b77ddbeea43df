----------------------------- MODULE FrameCodec -----------------------------
(***************************************************************************)
(* The codecs of the middleware: consistent overhead byte stuffing         *)
(* (emf_cobs.c), CRC-16/XMODEM (emf_crc.c) and byte order (emf_endian.c),  *)
(* as functions of sequences of bytes.                                     *)
(***************************************************************************)
EXTENDS Integers, Sequences, FiniteSets

CONSTANTS
  RADIX,      \* the values of a byte: 256
  BLOCK_MAX   \* EMF_COBS_BLOCK_MAX, the bytes of a full block: 254

ASSUME FrameCodecAssumption ==
  /\ {RADIX, BLOCK_MAX} \subseteq Nat \ {0}
  /\ BLOCK_MAX + 1 < RADIX

PACKET_DELIMITER == 0
COBS_CODE_MAX == BLOCK_MAX + 1
ENCODED_SIZE(size) == size + (size \div BLOCK_MAX + 1) + 1
NOT_FOUND == <<-1>>   \* EMF_cobs_decode() returns false: no delimiter where one must be

-----------------------------------------------------------------------------
\* The bytes before the next delimiter, of which a block takes BLOCK_MAX at most.
BytesInBlock(data, at) ==
  CHOOSE n \in 0..BLOCK_MAX :
    /\ n = BLOCK_MAX \/ at + n > Len(data) \/ data[at + n] = PACKET_DELIMITER
    /\ \A m \in 0..(n - 1) : at + m <= Len(data) /\ data[at + m] # PACKET_DELIMITER

\* EMF_cobs_encode(): a block is closed, and its code written, by a delimiter in the data,
\* which it then stands for, when it is full, or at the end.
Encode(data) ==
  LET from[at \in 1..(Len(data) + 1)] ==
        LET n == BytesInBlock(data, at) IN
        <<n + 1>> \o SubSeq(data, at, at + n - 1)
        \o (IF n = BLOCK_MAX THEN from[at + n]
            ELSE IF at + n <= Len(data) THEN from[at + n + 1] ELSE <<PACKET_DELIMITER>>)
  IN from[1]

\* Mutant: a full block is followed by a zero as well.
BlockAtOver(frame, at) ==
  LET next == at + frame[at] IN
  SubSeq(frame, at + 1, next - 1)
  \o (IF next <= Len(frame) /\ frame[next] # PACKET_DELIMITER THEN <<0>> ELSE <<>>)

\* The block at a code: its bytes, and the zero it stands for unless it is full or the last.
BlockAt(frame, at) ==
  LET next == at + frame[at] IN
  SubSeq(frame, at + 1, next - 1)
  \o (IF frame[at] < COBS_CODE_MAX /\ next <= Len(frame) /\ frame[next] # PACKET_DELIMITER
      THEN <<0>> ELSE <<>>)

\* EMF_cobs_decode(): what it writes before it meets a delimiter, a block that reaches
\* beyond the frame, or the end; and whether it met a delimiter.
Unstuff(frame) ==
  LET from[at \in 1..(Len(frame) + 1)] ==
        IF at > Len(frame) THEN [found |-> FALSE, out |-> <<>>]
        ELSE IF frame[at] = PACKET_DELIMITER THEN [found |-> TRUE, out |-> <<>>]
        ELSE IF at + frame[at] > Len(frame) + 1 THEN [found |-> FALSE, out |-> <<>>]
        ELSE [from[at + frame[at]] EXCEPT !.out = BlockAt(frame, at) \o @]
  IN from[1]

Decode(frame) == LET d == Unstuff(frame) IN IF d.found THEN d.out ELSE NOT_FOUND

-----------------------------------------------------------------------------
\* EMF_crc_16CCITT() of at least one byte: the polynomial x^16 + x^12 + x^5 + 1, first the
\* high bit of a byte.
Toggle(x, bit) == IF (x \div bit) % 2 = 1 THEN x - bit ELSE x + bit
Poly(x) == Toggle(Toggle(Toggle(x, 4096), 32), 1)

ShiftIn(crc, bit) ==
  LET shifted == (crc * 2) % 65536 IN
  IF crc \div 32768 = bit THEN shifted ELSE Poly(shifted)

\* The CRC after one byte more.
ShiftByte ==
  [t \in (0..(RADIX^2 - 1)) \X (0..(RADIX - 1)) |->
     LET shift[n \in 0..8] ==
           IF n = 0 THEN t[1] ELSE ShiftIn(shift[n - 1], (t[2] \div 2^(8 - n)) % 2)
     IN shift[8]]

\* The CRC after the i-th sixteen bytes, or what there is of them: strides keep TLC's
\* evaluation shallow.
ShiftStride(data) ==
  [t \in (0..(RADIX^2 - 1)) \X (0..Len(data)) |->
     LET row[n \in 0..16] ==
           IF n = 0 THEN t[1]
           ELSE IF 16 * t[2] + n > Len(data) THEN row[n - 1]
           ELSE ShiftByte[<<row[n - 1], data[16 * t[2] + n]>>]
     IN row[16]]

Crc(data) ==
  LET over[i \in 0..(Len(data) \div 16 + 1)] ==
        IF i = 0 THEN 0 ELSE ShiftStride(data)[<<over[i - 1], i - 1>>]
  IN over[Len(data) \div 16 + 1]

-----------------------------------------------------------------------------
\* EMF_endian_u<n>ReadBuffLE() and its companions, for a width of n bits.
\* Mutant: three bytes are read from the other end.
ReadLEOdd(bytes) ==
  LET value[n \in 0..Len(bytes)] ==
        IF n = 0 THEN 0
        ELSE value[n - 1] + bytes[IF Len(bytes) = 3 THEN 4 - n ELSE n] * RADIX^(n - 1)
  IN value[Len(bytes)]

ReadLE(bytes) ==
  LET value[n \in 0..Len(bytes)] ==
        IF n = 0 THEN 0 ELSE value[n - 1] + bytes[n] * RADIX^(n - 1)
  IN value[Len(bytes)]

WriteLE(value, width) == [n \in 1..width |-> (value \div RADIX^(n - 1)) % RADIX]

ReadBE(bytes) ==
  LET value[n \in 0..Len(bytes)] ==
        IF n = 0 THEN 0 ELSE value[n - 1] * RADIX + bytes[n]
  IN value[Len(bytes)]

WriteBE(value, width) == [n \in 1..width |-> (value \div RADIX^(width - n)) % RADIX]

\* EMF_endian_readBuff<order>() and writeBuff<order>() serve the sizes of C's types, and do
\* nothing for any other.
ReadBuff(order, bytes, old) ==
  IF Len(bytes) \notin {1, 2, 4, 8} THEN old
  ELSE IF order = "LE" THEN ReadLE(bytes) ELSE ReadBE(bytes)

WriteBuff(order, value, width, old) ==
  IF width \notin {1, 2, 4, 8} THEN old
  ELSE IF order = "LE" THEN WriteLE(value, width) ELSE WriteBE(value, width)
=============================================================================
