-------------------------- MODULE HostCommandProofs --------------------------
(***************************************************************************)
(* For every frame the host may send and every harm the line may do to it: *)
(* one that comes through whole is the request it stands for, what is      *)
(* accepted can be programmed, no array is too short, and the host decodes *)
(* each response to what it should hold.  The codecs come first,           *)
(* as theorems about their operators for data of any length: byte stuffing,*)
(* byte order, the fields of a configuration, the CRC, the ring of the TX  *)
(* FIFO.  The invariant then says that the bytes that arrive are bytes and *)
(* that the ring carries the answers that are due, one behind the other.   *)
(* The functions of the codecs are defined by recursion over positions; a  *)
(* set of positions stands for the induction.                              *)
(***************************************************************************)
EXTENDS HostCommand, FiniteSetTheorems, SequenceTheorems, WellFoundedInduction, TLAPS

-----------------------------------------------------------------------------
(* Encoding.  A proof by induction takes a set and shows that it holds every number. *)

(* A nonempty set of natural numbers has a least element: the order is      *)
(* well-founded.                                                            *)
LEMMA LeastNatural ==
  ASSUME NEW T \in SUBSET Nat, T # {}
  PROVE  \E x \in T : \A y \in T : x <= y
<1> DEFINE Less == OpToRel(<, Nat)
<1>1. IsWellFoundedOn(Less, Nat)
  BY NatLessThanWellFounded
<1>2. \A x, y \in Nat : <<y, x>> \in Less <=> y < x
  BY DEF OpToRel
<1> HIDE DEF Less
<1>3. PICK x \in T : \A y \in T : ~(<<y, x>> \in Less)
  BY <1>1, WFMin
<1>4. ASSUME NEW y \in T PROVE x <= y
  <2>1. x \in Nat /\ y \in Nat
    OBVIOUS
  <2>2. ~(y < x)
    BY <1>2, <1>3, <2>1
  <2> QED  BY <2>1, <2>2
<1> QED  BY <1>4

(* Induction, on a set: one that holds each number whose predecessors it holds *)
(* holds them all.                                                             *)
LEMMA EveryNatural ==
  ASSUME NEW T, \A n \in Nat : (\A m \in 0..n - 1 : m \in T) => n \in T
  PROVE  Nat \subseteq T
<1> DEFINE Left == {n \in Nat : n \notin T}
<1> SUFFICES ASSUME Left # {} PROVE FALSE
  OBVIOUS
<1>1. PICK n \in Left : \A m \in Left : n <= m
  BY LeastNatural
<1>2. \A m \in 0..n - 1 : m \in T
  BY <1>1
<1> QED  BY <1>1, <1>2

-----------------------------------------------------------------------------
(* Blocks.  n is the length of the block that begins at a position. *)

BlockLength(data, at, n) ==
  /\ n \in 0..BLOCK_MAX
  /\ n = BLOCK_MAX \/ at + n > Len(data) \/ data[at + n] = PACKET_DELIMITER
  /\ \A m \in 0..(n - 1) : at + m <= Len(data) /\ data[at + m] # PACKET_DELIMITER

\* The constants of the codec are natural numbers, and a code fits in a byte.
LEMMA BlockMaxIsNatural == BLOCK_MAX \in Nat \ {0} /\ RADIX \in Nat /\ BLOCK_MAX + 1 < RADIX
BY FrameCodecAssumption

\* The CHOOSE of BytesInBlock() finds its one length, which stays inside the data.
LEMMA BlockHasLength ==
  ASSUME NEW S, NEW data \in Seq(S), NEW at \in 1..(Len(data) + 1)
  PROVE  /\ BlockLength(data, at, BytesInBlock(data, at))
         /\ BytesInBlock(data, at) \in 0..BLOCK_MAX
         /\ at + BytesInBlock(data, at) <= Len(data) + 1
<1> PICK size \in Nat : size = Len(data)
  OBVIOUS
<1> DEFINE Ends == {n \in Nat : n = BLOCK_MAX \/ at + n > size \/ data[at + n] = PACKET_DELIMITER}
<1>1. BLOCK_MAX \in Ends
  BY BlockMaxIsNatural
<1>2. PICK n \in Ends : \A m \in Ends : n <= m
  BY <1>1, LeastNatural
<1>3. n \in 0..BLOCK_MAX
  BY <1>1, <1>2, BlockMaxIsNatural
<1>4. ASSUME NEW m \in 0..(n - 1) PROVE at + m <= size /\ data[at + m] # PACKET_DELIMITER
  <2>1. m \in Nat /\ m \notin Ends
    BY <1>2
  <2> QED  BY <2>1
<1>5. BlockLength(data, at, n)
  BY <1>2, <1>3, <1>4 DEF BlockLength
<1>6. BlockLength(data, at, BytesInBlock(data, at))
  BY <1>5, Zenon DEF BlockLength, BytesInBlock
<1> PICK k : k = BytesInBlock(data, at)
  OBVIOUS
<1>7. k \in 0..BLOCK_MAX /\ \A m \in 0..(k - 1) : at + m <= size
  BY <1>6 DEF BlockLength
<1>8. at + k <= size + 1
  <2>1. CASE k = 0
    BY <2>1
  <2>2. CASE k # 0
    <3>1. k - 1 \in 0..(k - 1)
      BY <1>7, <2>2, BlockMaxIsNatural
    <3>2. at + (k - 1) <= size
      BY <1>7, <3>1
    <3> QED  BY <1>7, <3>2, BlockMaxIsNatural
  <2> QED  BY <2>1, <2>2
<1> QED  BY <1>6, <1>7, <1>8

-----------------------------------------------------------------------------
(* Encoding.  The function of Encode(), position by position. *)

EncodedAt(f, data, at) ==
  LET n == BytesInBlock(data, at) IN
  <<n + 1>> \o SubSeq(data, at, at + n - 1)
  \o (IF n = BLOCK_MAX THEN f[at + n]
      ELSE IF at + n <= Len(data) THEN f[at + n + 1] ELSE <<PACKET_DELIMITER>>)

\* The function of Encode() exists: it is built from the end of the data towards its start.
LEMMA EncodeIsDefined ==
  ASSUME NEW S, NEW data \in Seq(S)
  PROVE  \E f : /\ f = [at \in 1..(Len(data) + 1) |-> EncodedAt(f, data, at)]
                /\ Encode(data) = f[1]
<1> PICK size \in Nat : size = Len(data)
  OBVIOUS
<1> DEFINE Domain == 1..(size + 1)
           From(g, k) == \A at \in Domain : at >= k => g[at] = EncodedAt(g, data, at)
           Good == {d \in Nat : d <= size + 1 => \E g : From(g, size + 2 - d)}
<1>1. ASSUME NEW d \in Nat, \A m \in 0..d - 1 : m \in Good, d <= size + 1
      PROVE  \E g : From(g, size + 2 - d)
  <2>1. CASE d = 0
    BY <2>1
  <2>2. CASE d # 0
    <3> DEFINE k == size + 2 - d
    <3>1. d - 1 \in 0..d - 1 /\ d - 1 <= size + 1 /\ size + 2 - (d - 1) = k + 1 /\ k \in Domain
      BY <1>1, <2>2
    <3>2. d - 1 \in Good
      BY <1>1, <3>1
    <3>3. PICK g : From(g, k + 1)
      BY <3>1, <3>2
    <3> HIDE DEF k
    <3> DEFINE h == [at \in Domain |-> IF at = k THEN EncodedAt(g, data, k) ELSE g[at]]
    <3>4. ASSUME NEW at \in Domain, at >= k PROVE EncodedAt(h, data, at) = EncodedAt(g, data, at)
      <4>1. PICK n : n = BytesInBlock(data, at)
        OBVIOUS
      <4>2. n \in 0..BLOCK_MAX /\ at + n <= size + 1 /\ BLOCK_MAX \in Nat \ {0}
        BY <4>1, BlockHasLength, BlockMaxIsNatural
      <4>3. ASSUME n = BLOCK_MAX PROVE h[at + n] = g[at + n]
        BY <4>2, <4>3, <3>1, <3>4
      <4>4. ASSUME at + n <= size PROVE h[at + n + 1] = g[at + n + 1]
        BY <4>2, <4>4, <3>1, <3>4
      <4> HIDE DEF h
      <4> QED  BY <4>1, <4>3, <4>4 DEF EncodedAt
    <3>5. ASSUME NEW at \in Domain, at >= k PROVE h[at] = EncodedAt(h, data, at)
      <4>1. CASE at = k
        BY <4>1, <3>4, <3>5
      <4>2. CASE at # k
        <5>1. at >= k + 1
          BY <4>2, <3>1, <3>5
        <5>2. g[at] = EncodedAt(g, data, at)
          BY <5>1, <3>3
        <5>3. h[at] = g[at]
          BY <4>2
        <5> QED  BY <5>2, <5>3, <3>4, <3>5
      <4> QED  BY <4>1, <4>2
    <3>6. From(h, k)
      BY <3>5
    <3> QED  BY <3>6 DEF k
  <2> QED  BY <2>1, <2>2
<1>2. \A d \in Nat : (\A m \in 0..d - 1 : m \in Good) => d \in Good
  BY <1>1
<1>3. Nat \subseteq Good
  BY <1>2, EveryNatural
<1>4. size + 1 \in Good
  BY <1>3
<1>5. PICK g : From(g, 1)
  BY <1>4
<1> DEFINE f == [at \in Domain |-> g[at]]
<1>6. f = [at \in Domain |-> EncodedAt(f, data, at)]
  <2>1. ASSUME NEW at \in Domain PROVE EncodedAt(f, data, at) = g[at]
    <3>1. PICK n : n = BytesInBlock(data, at)
      OBVIOUS
    <3>2. n \in 0..BLOCK_MAX /\ at + n <= size + 1 /\ BLOCK_MAX \in Nat \ {0}
      BY <3>1, BlockHasLength, BlockMaxIsNatural
    <3>3. f[at + n] = g[at + n]
      BY <3>2
    <3>4. ASSUME at + n <= size PROVE f[at + n + 1] = g[at + n + 1]
      BY <3>2, <3>4
    <3>5. g[at] = EncodedAt(g, data, at)
      BY <1>5
    <3> HIDE DEF f
    <3> QED  BY <3>1, <3>3, <3>4, <3>5 DEF EncodedAt
  <2> HIDE DEF f
  <2>2. f = [at \in Domain |-> g[at]]
    BY DEF f
  <2> QED  BY <2>1, <2>2
<1> HIDE DEF f
<1> DEFINE e == CHOOSE x : x = [at \in Domain |-> EncodedAt(x, data, at)]
<1>7. e = [at \in Domain |-> EncodedAt(e, data, at)]
  BY <1>6
<1>8. Encode(data) = e[1]
  BY DEF Encode, EncodedAt
<1> QED  BY <1>7, <1>8

(* What begins at a position: a code, its block, and what follows. *)
Codes == 0..COBS_CODE_MAX
Wire(S) == S \cup Codes

\* A block and the bytes of it.
BlockOf(data, at, n, b) ==
  /\ n \in 0..BLOCK_MAX /\ at + n <= Len(data) + 1
  /\ b = SubSeq(data, at, at + n - 1)
  /\ Len(b) = n
  /\ \A i \in 1..n : b[i] = data[at + i - 1] /\ b[i] # PACKET_DELIMITER

\* It ends the data.
LastBlock(f, data, at, n, b) ==
  /\ n < BLOCK_MAX /\ at + n = Len(data) + 1
  /\ f[at] = (<<n + 1>> \o b) \o <<PACKET_DELIMITER>>

\* It is full, and the next begins right behind it.
FullBlock(f, data, at, n, b) ==
  n = BLOCK_MAX /\ f[at] = (<<n + 1>> \o b) \o f[at + n]

\* A zero ends it, and the next begins behind the zero.
ZeroBlock(f, data, at, n, b) ==
  /\ n < BLOCK_MAX /\ at + n <= Len(data) /\ data[at + n] = PACKET_DELIMITER
  /\ f[at] = (<<n + 1>> \o b) \o f[at + n + 1]

\* Each position starts a block that ends the data, is full, or ends at a zero.
LEMMA EncodedCases ==
  ASSUME NEW S, NEW data \in Seq(S), NEW at \in 1..(Len(data) + 1),
         NEW f, f = [i \in 1..(Len(data) + 1) |-> EncodedAt(f, data, i)]
  PROVE  \E n \in 0..BLOCK_MAX : \E b \in Seq(S) :
           /\ BlockOf(data, at, n, b)
           /\ \/ LastBlock(f, data, at, n, b)
              \/ FullBlock(f, data, at, n, b)
              \/ ZeroBlock(f, data, at, n, b)
<1> PICK size \in Nat : size = Len(data)
  OBVIOUS
<1>1. PICK n : n = BytesInBlock(data, at)
  OBVIOUS
<1>2. BlockLength(data, at, n) /\ n \in 0..BLOCK_MAX /\ at + n <= size + 1
  BY <1>1, BlockHasLength
<1>3. n \in Nat /\ n <= BLOCK_MAX /\ BLOCK_MAX \in Nat \ {0}
  BY <1>2, BlockMaxIsNatural
<1>4. PICK b : b = SubSeq(data, at, at + n - 1)
  OBVIOUS
<1>5. b \in Seq(S) /\ Len(b) = n /\ \A i \in 1..n : b[i] = data[at + i - 1]
  <2>0. PICK m : m = at + n - 1
    OBVIOUS
  <2>1. m \in Int /\ at \in Int /\ m - at + 1 = n /\ m <= size
    BY <2>0, <1>2, <1>3
  <2>2. \A i \in at..m : data[i] \in S
    BY <2>1
  <2>3. /\ SubSeq(data, at, m) \in Seq(S)
        /\ Len(SubSeq(data, at, m)) = IF at <= m THEN m - at + 1 ELSE 0
        /\ \A i \in 1..m - at + 1 : SubSeq(data, at, m)[i] = data[at + i - 1]
    BY <2>1, <2>2, SubSeqProperties
  <2>4. Len(SubSeq(data, at, m)) = n
    BY <2>0, <2>1, <2>3, <1>3
  <2> QED  BY <2>0, <2>1, <2>3, <2>4, <1>4
<1>6. \A i \in 1..n : b[i] # PACKET_DELIMITER
  <2> SUFFICES ASSUME NEW i \in 1..n PROVE b[i] # PACKET_DELIMITER
    OBVIOUS
  <2>1. i - 1 \in 0..(n - 1) /\ at + i - 1 = at + (i - 1)
    BY <1>3
  <2>2. data[at + (i - 1)] # PACKET_DELIMITER
    BY <2>1, <1>2 DEF BlockLength
  <2> QED  BY <2>1, <2>2, <1>5
<1>7. BlockOf(data, at, n, b)
  BY <1>2, <1>4, <1>5, <1>6 DEF BlockOf
<1>8. f[at] = (<<n + 1>> \o b) \o (IF n = BLOCK_MAX THEN f[at + n]
                ELSE IF at + n <= size THEN f[at + n + 1] ELSE <<PACKET_DELIMITER>>)
  <2>1. f[at] = EncodedAt(f, data, at)
    BY Zenon
  <2> QED  BY <2>1, <1>1, <1>4 DEF EncodedAt
<1>9. CASE n = BLOCK_MAX
  BY <1>2, <1>5, <1>7, <1>8, <1>9 DEF FullBlock
<1>10. CASE n # BLOCK_MAX /\ at + n <= size
  <2>1. data[at + n] = PACKET_DELIMITER
    BY <1>2, <1>3, <1>10 DEF BlockLength
  <2>2. f[at] = (<<n + 1>> \o b) \o f[at + n + 1]
    BY <1>8, <1>10
  <2>3. n < BLOCK_MAX
    BY <1>2, <1>10, BlockMaxIsNatural
  <2>4. ZeroBlock(f, data, at, n, b)
    BY <2>1, <2>2, <2>3, <1>10, Zenon DEF ZeroBlock
  <2> QED  BY <2>4, <1>2, <1>5, <1>7, Zenon
<1>11. CASE n # BLOCK_MAX /\ ~(at + n <= size)
  <2>1. f[at] = (<<n + 1>> \o b) \o <<PACKET_DELIMITER>>
    BY <1>8, <1>11
  <2>2. n < BLOCK_MAX /\ at + n = size + 1
    BY <1>2, <1>11, BlockMaxIsNatural
  <2>3. LastBlock(f, data, at, n, b)
    BY <2>1, <2>2, Zenon DEF LastBlock
  <2> QED  BY <2>3, <1>2, <1>5, <1>7, Zenon
<1> QED  BY <1>9, <1>10, <1>11

(* A block with its code has no delimiter. *)
IsCodedBlock(S, n, b, h) ==
  /\ h \in Seq(Wire(S)) /\ Len(h) = n + 1 /\ h[1] = n + 1
  /\ \A i \in 1..n : h[i + 1] = b[i]
  /\ \A i \in 1..n + 1 : h[i] # PACKET_DELIMITER

\* A code before the bytes of its block: neither is a delimiter.
LEMMA CodeAndBlock ==
  ASSUME NEW S, NEW n \in 0..BLOCK_MAX, NEW b \in Seq(S), Len(b) = n,
         \A i \in 1..n : b[i] # PACKET_DELIMITER
  PROVE  IsCodedBlock(S, n, b, <<n + 1>> \o b)
<1>0. n \in Nat /\ BLOCK_MAX \in Nat /\ n + 1 \in Codes /\ n + 1 # PACKET_DELIMITER
  BY BlockMaxIsNatural DEF Wire, Codes, COBS_CODE_MAX, PACKET_DELIMITER
<1> PICK h : h = <<n + 1>> \o b
  OBVIOUS
<1>1. <<n + 1>> \in Seq(Wire(S)) /\ b \in Seq(Wire(S))
  BY <1>0, SeqMonotonic DEF Wire
<1>2. h \in Seq(Wire(S)) /\ Len(h) = n + 1 /\ h[1] = n + 1
  BY <1>0, <1>1
<1>3. \A i \in 1..n : h[i + 1] = b[i]
  BY <1>0, <1>1
<1>4. ASSUME NEW i \in 1..n + 1 PROVE h[i] # PACKET_DELIMITER
  <2>1. CASE i = 1
    BY <2>1, <1>0, <1>2
  <2>2. CASE i # 1
    <3>1. i - 1 \in 1..n /\ (i - 1) + 1 = i
      BY <2>2, <1>0
    <3> QED  BY <3>1, <1>3
  <2> QED  BY <2>1, <2>2
<1> QED  BY <1>2, <1>3, <1>4, Zenon DEF IsCodedBlock

(* What an encoded string looks like: one delimiter, at its end. *)
Delimited(T, e) ==
  /\ e \in Seq(T) /\ Len(e) \in Nat /\ Len(e) >= 2
  /\ \A i \in 1..Len(e) : e[i] = PACKET_DELIMITER <=> i = Len(e)

\* The two parts of a concatenation.
IsJoined(T, h, e, k, m, w) ==
  /\ w \in Seq(T) /\ Len(w) = k + m
  /\ \A i \in 1..k : w[i] = h[i]
  /\ \A i \in 1..m : w[k + i] = e[i]

\* What a concatenation holds, position by position.
LEMMA Joined ==
  ASSUME NEW T, NEW h \in Seq(T), NEW e \in Seq(T), NEW k \in Nat, Len(h) = k,
         NEW m \in Nat, Len(e) = m
  PROVE  IsJoined(T, h, e, k, m, h \o e)
<1>1. /\ h \o e \in Seq(T) /\ Len(h \o e) = Len(h) + Len(e)
      /\ \A i \in 1..(Len(h) + Len(e)) :
           (h \o e)[i] = IF i <= Len(h) THEN h[i] ELSE e[i - Len(h)]
  BY ConcatProperties
<1>2. ASSUME NEW i \in 1..k PROVE (h \o e)[i] = h[i]
  BY <1>1
<1>3. ASSUME NEW i \in 1..m PROVE (h \o e)[k + i] = e[i]
  <2>1. k + i \in 1..(k + m) /\ ~(k + i <= k) /\ (k + i) - k = i
    OBVIOUS
  <2> QED  BY <2>1, <1>1
<1> QED  BY <1>1, <1>2, <1>3 DEF IsJoined

\* A block without delimiters before a delimited frame gives a delimited frame.
LEMMA DelimitedGrows ==
  ASSUME NEW T, NEW h \in Seq(T), NEW k \in Nat, Len(h) = k, NEW e, Delimited(T, e),
         \A i \in 1..k : h[i] # PACKET_DELIMITER
  PROVE  Delimited(T, h \o e) /\ Len(h \o e) = k + Len(e)
<1> PICK m \in Nat : m = Len(e)
  BY DEF Delimited
<1>1. e \in Seq(T) /\ m >= 2 /\ \A i \in 1..m : e[i] = PACKET_DELIMITER <=> i = m
  BY DEF Delimited
<1>5. IsJoined(T, h, e, k, m, h \o e)
  BY <1>1, Joined
<1>6. PICK w : w = h \o e /\ IsJoined(T, h, e, k, m, w)
  BY <1>5, Zenon
<1>2. /\ w \in Seq(T) /\ Len(w) = k + m
      /\ \A i \in 1..k : w[i] = h[i]
      /\ \A i \in 1..m : w[k + i] = e[i]
  BY <1>6, Zenon DEF IsJoined
<1>3. ASSUME NEW i \in 1..(k + m) PROVE w[i] = PACKET_DELIMITER <=> i = k + m
  <2>1. CASE i <= k
    <3>1. i \in 1..k
      BY <2>1
    <3>2. w[i] = h[i] /\ h[i] # PACKET_DELIMITER
      BY <3>1, <1>2
    <3> QED  BY <3>2, <2>1, <1>1
  <2>2. CASE i > k
    <3>1. i - k \in 1..m /\ k + (i - k) = i
      BY <2>2
    <3>2. w[i] = e[i - k]
      BY <3>1, <1>2
    <3>3. e[i - k] = PACKET_DELIMITER <=> i - k = m
      BY <3>1, <1>1
    <3> QED  BY <3>1, <3>2, <3>3
  <2> QED  BY <2>1, <2>2
<1>4. Len(w) \in Nat /\ Len(w) >= 2 /\ \A i \in 1..Len(w) : w[i] = PACKET_DELIMITER <=> i = Len(w)
  BY <1>1, <1>2, <1>3
<1>7. Delimited(T, w) /\ Len(w) = k + Len(e)
  BY <1>2, <1>4 DEF Delimited
<1> QED  BY <1>6, <1>7, Zenon

\* A delimited frame does not start with its delimiter.
LEMMA DelimitedStarts ==
  ASSUME NEW T, NEW e, Delimited(T, e)
  PROVE  e[1] # PACKET_DELIMITER
BY DEF Delimited

(* Division: what one block more adds. *)
LEMMA BlocksAdd ==
  ASSUME NEW m \in Nat, NEW k \in Nat
  PROVE  /\ m \div BLOCK_MAX \in Nat
         /\ (m + BLOCK_MAX) \div BLOCK_MAX = (m \div BLOCK_MAX) + 1
         /\ m <= k => m \div BLOCK_MAX <= k \div BLOCK_MAX
<1> PICK B \in Nat \ {0} : B = BLOCK_MAX
  BY BlockMaxIsNatural
<1>1. m \div B \in Nat
  OBVIOUS
<1>2. (m + B) \div B = (m \div B) + 1
  OBVIOUS
<1>3. m <= k => m \div B <= k \div B
  OBVIOUS
<1> QED  BY <1>1, <1>2, <1>3

(* A block before an encoded string, and the last block. *)
LEMMA LongerShape ==
  ASSUME NEW S, NEW n \in 0..BLOCK_MAX, NEW b \in Seq(S), Len(b) = n,
         \A i \in 1..n : b[i] # PACKET_DELIMITER,
         NEW e, Delimited(Wire(S), e), NEW rest \in Nat, Len(e) <= ENCODED_SIZE(rest),
         NEW d \in Nat, (n = BLOCK_MAX /\ d = rest + n) \/ d = rest + n + 1
  PROVE  /\ Delimited(Wire(S), (<<n + 1>> \o b) \o e)
         /\ Len((<<n + 1>> \o b) \o e) <= ENCODED_SIZE(d)
<1>0. n \in Nat /\ n <= BLOCK_MAX /\ BLOCK_MAX \in Nat \ {0} /\ n + 1 \in Nat
  BY BlockMaxIsNatural
<1>a. IsCodedBlock(S, n, b, <<n + 1>> \o b)
  BY CodeAndBlock
<1>b. PICK h : h = <<n + 1>> \o b /\ IsCodedBlock(S, n, b, h)
  BY <1>a, Zenon
<1>2. PICK k \in Nat : k = n + 1
  BY <1>0
<1>1. h \in Seq(Wire(S)) /\ Len(h) = k /\ \A i \in 1..k : h[i] # PACKET_DELIMITER
  BY <1>b, <1>2 DEF IsCodedBlock
<1>3. Delimited(Wire(S), h \o e) /\ Len(h \o e) = k + Len(e)
  BY <1>1, <1>2, DelimitedGrows
<1>4. PICK m \in Nat : m = Len(e)
  BY DEF Delimited
<1>9. rest \div BLOCK_MAX \in Nat /\ d \div BLOCK_MAX \in Nat
  BY BlocksAdd
<1>5. PICK q \in Nat, p \in Nat : q = rest \div BLOCK_MAX /\ p = d \div BLOCK_MAX
  BY <1>9
<1>6. m <= rest + (q + 1) + 1
  BY <1>4, <1>5 DEF ENCODED_SIZE
<1>7. k + m <= d + (p + 1) + 1
  <2>1. CASE n = BLOCK_MAX /\ d = rest + n
    <3>1. p = q + 1
      BY <2>1, <1>5, BlocksAdd
    <3> QED  BY <3>1, <2>1, <1>2, <1>6
  <2>2. CASE d = rest + n + 1
    <3>1. rest <= d
      BY <2>2, <1>0
    <3>2. q <= p
      BY <3>1, <1>5, BlocksAdd
    <3> QED  BY <3>2, <2>2, <1>0, <1>2, <1>6
  <2> QED  BY <2>1, <2>2
<1>8. Len(h \o e) <= ENCODED_SIZE(d)
  BY <1>3, <1>4, <1>5, <1>7 DEF ENCODED_SIZE
<1> QED  BY <1>b, <1>3, <1>8, Zenon

\* The last block with the delimiter behind it is a delimited frame within its bound.
LEMMA LastShape ==
  ASSUME NEW S, NEW n \in 0..BLOCK_MAX, NEW b \in Seq(S), Len(b) = n,
         \A i \in 1..n : b[i] # PACKET_DELIMITER
  PROVE  /\ Delimited(Wire(S), (<<n + 1>> \o b) \o <<PACKET_DELIMITER>>)
         /\ Len((<<n + 1>> \o b) \o <<PACKET_DELIMITER>>) <= ENCODED_SIZE(n)
<1>0. n \in Nat /\ n <= BLOCK_MAX /\ BLOCK_MAX \in Nat \ {0} /\ n + 1 \in Nat
  BY BlockMaxIsNatural
<1>a. IsCodedBlock(S, n, b, <<n + 1>> \o b)
  BY CodeAndBlock
<1>b. PICK h : h = <<n + 1>> \o b /\ IsCodedBlock(S, n, b, h)
  BY <1>a, Zenon
<1>2. PICK k \in Nat : k = n + 1
  BY <1>0
<1>1. h \in Seq(Wire(S)) /\ Len(h) = k /\ \A i \in 1..k : h[i] # PACKET_DELIMITER
  BY <1>b, <1>2 DEF IsCodedBlock
<1>3. PACKET_DELIMITER \in Wire(S)
  BY BlockMaxIsNatural DEF PACKET_DELIMITER, Wire, Codes, COBS_CODE_MAX
<1> PICK z : z = <<PACKET_DELIMITER>>
  OBVIOUS
<1>4. z \in Seq(Wire(S)) /\ Len(z) = 1 /\ z[1] = PACKET_DELIMITER
  BY <1>3
<1>c. IsJoined(Wire(S), h, z, k, 1, h \o z)
  BY <1>1, <1>4, Joined
<1>d. PICK w : w = h \o z /\ IsJoined(Wire(S), h, z, k, 1, w)
  BY <1>c, Zenon
<1>5. /\ w \in Seq(Wire(S)) /\ Len(w) = k + 1
      /\ \A i \in 1..k : w[i] = h[i]
      /\ \A i \in 1..1 : w[k + i] = z[i]
  BY <1>d, Zenon DEF IsJoined
<1>6. ASSUME NEW i \in 1..(k + 1) PROVE w[i] = PACKET_DELIMITER <=> i = k + 1
  <2>1. CASE i = k + 1
    BY <2>1, <1>4, <1>5
  <2>2. CASE i # k + 1
    <3>1. i \in 1..k
      BY <2>2
    <3>2. w[i] = h[i] /\ h[i] # PACKET_DELIMITER
      BY <3>1, <1>1, <1>5
    <3> QED  BY <3>2, <2>2
  <2> QED  BY <2>1, <2>2
<1>7. Delimited(Wire(S), w)
  <2>1. /\ Len(w) \in Nat /\ Len(w) >= 2
        /\ \A i \in 1..Len(w) : w[i] = PACKET_DELIMITER <=> i = Len(w)
    BY <1>0, <1>2, <1>5, <1>6
  <2> QED  BY <2>1, <1>5 DEF Delimited
<1>8. n \div BLOCK_MAX \in Nat
  BY <1>0, BlocksAdd
<1>9. Len(w) <= ENCODED_SIZE(n)
  BY <1>0, <1>2, <1>5, <1>8 DEF ENCODED_SIZE
<1> QED  BY <1>b, <1>d, <1>7, <1>9, Zenon

(* Encode() writes one delimiter, at the end, and no more than the array holds that is *)
(* declared for it.                                                                    *)
Shaped(S, e, d) == Delimited(Wire(S), e) /\ Len(e) <= ENCODED_SIZE(d)

\* From every position on, what Encode() writes is a delimited frame within ENCODED_SIZE().
LEMMA EncodedShape ==
  ASSUME NEW S, NEW data \in Seq(S),
         NEW f, f = [i \in 1..(Len(data) + 1) |-> EncodedAt(f, data, i)]
  PROVE  \A at \in 1..(Len(data) + 1) : Shaped(S, f[at], Len(data) + 1 - at)
<1> PICK size \in Nat : size = Len(data)
  OBVIOUS
<1> DEFINE Fine(at) == Shaped(S, f[at], size + 1 - at)
           Good == {d \in Nat : d <= size => Fine(size + 1 - d)}
<1>1. ASSUME NEW d \in Nat, \A m \in 0..d - 1 : m \in Good, d <= size
      PROVE  Fine(size + 1 - d)
  <2> PICK at : at = size + 1 - d
    OBVIOUS
  <2>0. at \in 1..(size + 1) /\ at = size + 1 - d /\ d = size + 1 - at
    BY <1>1
  <2>1. ASSUME NEW next \in 1..(size + 1), next > at PROVE Shaped(S, f[next], size + 1 - next)
    <3> PICK m : m = size + 1 - next
      OBVIOUS
    <3>1. m \in 0..d - 1 /\ m <= size /\ size + 1 - m = next /\ size + 1 - next = m
      BY <2>0, <2>1
    <3>2. m \in Good
      BY <3>1, <1>1
    <3>3. Fine(size + 1 - m)
      BY <3>1, <3>2
    <3> QED  BY <3>1, <3>3, Zenon
  <2>2. PICK n \in 0..BLOCK_MAX : \E b \in Seq(S) :
           /\ BlockOf(data, at, n, b)
           /\ \/ LastBlock(f, data, at, n, b)
              \/ FullBlock(f, data, at, n, b)
              \/ ZeroBlock(f, data, at, n, b)
    BY <2>0, EncodedCases
  <2>3. PICK b \in Seq(S) :
           /\ BlockOf(data, at, n, b)
           /\ \/ LastBlock(f, data, at, n, b)
              \/ FullBlock(f, data, at, n, b)
              \/ ZeroBlock(f, data, at, n, b)
    BY <2>2
  <2>4. Len(b) = n /\ (\A i \in 1..n : b[i] # PACKET_DELIMITER) /\ at + n <= size + 1
    BY <2>3 DEF BlockOf
  <2>5. n \in Nat /\ BLOCK_MAX \in Nat \ {0} /\ n <= BLOCK_MAX
    BY BlockMaxIsNatural
  <2>6. CASE LastBlock(f, data, at, n, b)
    <3>1. f[at] = (<<n + 1>> \o b) \o <<PACKET_DELIMITER>> /\ at + n = Len(data) + 1
      BY <2>6, Zenon DEF LastBlock
    <3>2. n = d
      BY <3>1, <2>0, <2>5
    <3>3. Shaped(S, f[at], n)
      BY <3>1, <2>4, LastShape, Zenon DEF Shaped
    <3> QED  BY <3>2, <3>3, <2>0, Zenon
  <2>7. ASSUME NEW next \in Int, f[at] = (<<n + 1>> \o b) \o f[next], next <= size + 1,
               (n = BLOCK_MAX /\ next = at + n) \/ next = at + n + 1
        PROVE  Shaped(S, f[at], d)
    <3>6. next \in Int /\ next <= size + 1 /\ (next = at + n \/ next = at + n + 1)
      BY <2>7, Zenon
    <3>7. n = BLOCK_MAX \/ next = at + n + 1
      BY <2>7, Zenon
    <3>1. next \in 1..(size + 1) /\ next > at
      BY <2>0, <2>5, <3>6, <3>7
    <3>2. PICK rest \in Nat : rest = size + 1 - next
      BY <3>1
    <3>3. (n = BLOCK_MAX /\ d = rest + n) \/ d = rest + n + 1
      BY <2>0, <2>5, <2>7, <3>2
    <3>4. Delimited(Wire(S), f[next]) /\ Len(f[next]) <= ENCODED_SIZE(rest)
      BY <2>1, <3>1, <3>2, Zenon DEF Shaped
    <3>5. Shaped(S, (<<n + 1>> \o b) \o f[next], d)
      BY <2>4, <3>3, <3>4, LongerShape, Zenon DEF Shaped
    <3> QED  BY <3>5, <2>7, Zenon
  <2>8. CASE FullBlock(f, data, at, n, b)
    <3>1. f[at] = (<<n + 1>> \o b) \o f[at + n] /\ n = BLOCK_MAX
      BY <2>8, Zenon DEF FullBlock
    <3>2. at + n \in Int
      BY <2>5
    <3>3. Shaped(S, f[at], d)
      BY <3>1, <3>2, <2>4, <2>7, Zenon
    <3> QED  BY <3>3, <2>0, Zenon
  <2>9. CASE ZeroBlock(f, data, at, n, b)
    <3>1. f[at] = (<<n + 1>> \o b) \o f[at + n + 1] /\ at + n <= Len(data)
      BY <2>9, Zenon DEF ZeroBlock
    <3>2. at + n + 1 \in Int /\ at + n + 1 <= size + 1
      BY <2>5, <3>1
    <3>3. Shaped(S, f[at], d)
      BY <3>1, <3>2, <2>7, Zenon
    <3> QED  BY <3>3, <2>0, Zenon
  <2> QED  BY <2>3, <2>6, <2>8, <2>9, Zenon
<1>2. \A d \in Nat : (\A m \in 0..d - 1 : m \in Good) => d \in Good
  BY <1>1
<1>3. Nat \subseteq Good
  BY <1>2, EveryNatural
<1>4. ASSUME NEW at \in 1..(size + 1) PROVE Fine(at)
  <2> PICK d : d = size + 1 - at
    OBVIOUS
  <2>1. d \in Nat /\ d <= size /\ size + 1 - d = at
    OBVIOUS
  <2>2. d \in Good
    BY <2>1, <1>3
  <2>3. Fine(size + 1 - d)
    BY <2>1, <2>2
  <2> QED  BY <2>1, <2>3, Zenon
<1> QED  BY <1>4, Zenon

(* Decoding.  The function of Unstuff(), position by position. *)

UnstuffedAt(g, frame, at) ==
  IF at > Len(frame) THEN [found |-> FALSE, out |-> <<>>]
  ELSE IF frame[at] = PACKET_DELIMITER THEN [found |-> TRUE, out |-> <<>>]
  ELSE IF at + frame[at] > Len(frame) + 1 THEN [found |-> FALSE, out |-> <<>>]
  ELSE [g[at + frame[at]] EXCEPT !.out = BlockAt(frame, at) \o @]

\* The function of Unstuff() exists: it looks only at positions behind its own.
LEMMA UnstuffIsDefined ==
  ASSUME NEW frame \in Seq(Nat)
  PROVE  \E g : /\ g = [at \in 1..(Len(frame) + 1) |-> UnstuffedAt(g, frame, at)]
                /\ Unstuff(frame) = g[1]
<1> PICK size \in Nat : size = Len(frame)
  OBVIOUS
<1> DEFINE Domain == 1..(size + 1)
           From(g, k) == \A at \in Domain : at >= k => g[at] = UnstuffedAt(g, frame, at)
           Good == {d \in Nat : d <= size + 1 => \E g : From(g, size + 2 - d)}
<1>0. ASSUME NEW at \in Domain, NEW g, NEW h,
             \A j \in Domain : j > at => g[j] = h[j]
      PROVE  UnstuffedAt(g, frame, at) = UnstuffedAt(h, frame, at)
  <2>1. CASE at > size \/ frame[at] = PACKET_DELIMITER \/ at + frame[at] > size + 1
    BY <2>1 DEF UnstuffedAt
  <2>2. CASE ~(at > size \/ frame[at] = PACKET_DELIMITER \/ at + frame[at] > size + 1)
    <3>1. frame[at] \in Nat \ {0}
      BY <2>2 DEF PACKET_DELIMITER
    <3>2. at + frame[at] \in Domain /\ at + frame[at] > at
      BY <3>1, <2>2
    <3>3. g[at + frame[at]] = h[at + frame[at]]
      BY <3>2, <1>0, Zenon
    <3> QED  BY <3>3, Zenon DEF UnstuffedAt
  <2> QED  BY <2>1, <2>2
<1>1. ASSUME NEW d \in Nat, \A m \in 0..d - 1 : m \in Good, d <= size + 1
      PROVE  \E g : From(g, size + 2 - d)
  <2>1. CASE d = 0
    BY <2>1
  <2>2. CASE d # 0
    <3> DEFINE k == size + 2 - d
    <3>1. d - 1 \in 0..d - 1 /\ d - 1 <= size + 1 /\ size + 2 - (d - 1) = k + 1 /\ k \in Domain
      BY <1>1, <2>2
    <3>2. d - 1 \in Good
      BY <1>1, <3>1
    <3>3. PICK g : From(g, k + 1)
      BY <3>1, <3>2
    <3> HIDE DEF k
    <3> DEFINE h == [at \in Domain |-> IF at = k THEN UnstuffedAt(g, frame, k) ELSE g[at]]
    <3>4. ASSUME NEW at \in Domain, at >= k
          PROVE  UnstuffedAt(h, frame, at) = UnstuffedAt(g, frame, at)
      <4>1. \A j \in Domain : j > at => h[j] = g[j]
        BY <3>1, <3>4
      <4> HIDE DEF h
      <4> QED  BY <4>1, <1>0
    <3>5. ASSUME NEW at \in Domain, at >= k PROVE h[at] = UnstuffedAt(h, frame, at)
      <4>1. CASE at = k
        BY <4>1, <3>4, <3>5
      <4>2. CASE at # k
        <5>1. at >= k + 1
          BY <4>2, <3>1, <3>5
        <5>2. g[at] = UnstuffedAt(g, frame, at)
          BY <5>1, <3>3
        <5>3. h[at] = g[at]
          BY <4>2
        <5> QED  BY <5>2, <5>3, <3>4, <3>5
      <4> QED  BY <4>1, <4>2
    <3>6. From(h, k)
      BY <3>5
    <3> QED  BY <3>6 DEF k
  <2> QED  BY <2>1, <2>2
<1>2. \A d \in Nat : (\A m \in 0..d - 1 : m \in Good) => d \in Good
  BY <1>1
<1>3. Nat \subseteq Good
  BY <1>2, EveryNatural
<1>4. size + 1 \in Good
  BY <1>3
<1>5. PICK h : From(h, 1)
  BY <1>4
<1> DEFINE f == [at \in Domain |-> h[at]]
<1>6. f = [at \in Domain |-> UnstuffedAt(f, frame, at)]
  <2>1. ASSUME NEW at \in Domain PROVE UnstuffedAt(f, frame, at) = h[at]
    <3>1. \A j \in Domain : j > at => f[j] = h[j]
      OBVIOUS
    <3>2. h[at] = UnstuffedAt(h, frame, at)
      BY <1>5
    <3> HIDE DEF f
    <3> QED  BY <3>1, <3>2, <1>0
  <2> HIDE DEF f
  <2>2. f = [at \in Domain |-> h[at]]
    BY DEF f
  <2> QED  BY <2>1, <2>2
<1> HIDE DEF f
<1> DEFINE e == CHOOSE x : x = [at \in Domain |-> UnstuffedAt(x, frame, at)]
<1>7. e = [at \in Domain |-> UnstuffedAt(e, frame, at)]
  BY <1>6
<1>8. Unstuff(frame) = e[1]
  BY DEF Unstuff, UnstuffedAt
<1> QED  BY <1>7, <1>8

-----------------------------------------------------------------------------
(* Round trip. *)

\* The frame from a position on.
Follows(T, frame, p, s) ==
  /\ frame \in Seq(T) /\ s \in Seq(T) /\ p \in Nat
  /\ Len(frame) = p + Len(s)
  /\ \A i \in 1..Len(s) : frame[p + i] = s[i]

\* A block with its code, after a position.
CarriesBlock(frame, p, n, b) ==
  frame[p + 1] = n + 1 /\ \A i \in 1..n : frame[p + 1 + i] = b[i]

\* A frame that goes on with a coded block has the code, then the bytes, then the rest.
LEMMA BlockFollows ==
  ASSUME NEW S, NEW frame, NEW p, NEW n \in 0..BLOCK_MAX, NEW b, NEW e,
         e \in Seq(Wire(S)), b \in Seq(S), Len(b) = n,
         \A i \in 1..n : b[i] # PACKET_DELIMITER,
         Follows(Wire(S), frame, p, (<<n + 1>> \o b) \o e)
  PROVE  CarriesBlock(frame, p, n, b) /\ Follows(Wire(S), frame, p + n + 1, e)
<1>0. n \in Nat /\ n + 1 \in Nat /\ p \in Nat
  BY BlockMaxIsNatural DEF Follows
<1>a. IsCodedBlock(S, n, b, <<n + 1>> \o b)
  BY CodeAndBlock
<1>b. PICK h : h = <<n + 1>> \o b /\ IsCodedBlock(S, n, b, h)
  BY <1>a, Zenon
<1>2. PICK k \in Nat : k = n + 1
  BY <1>0
<1>1. /\ h \in Seq(Wire(S)) /\ Len(h) = k /\ h[1] = n + 1
      /\ \A i \in 1..n : h[i + 1] = b[i]
  BY <1>b, <1>2 DEF IsCodedBlock
<1>3. PICK m \in Nat : m = Len(e)
  OBVIOUS
<1>c. IsJoined(Wire(S), h, e, k, m, h \o e)
  BY <1>1, <1>3, Joined
<1>d. PICK w : w = h \o e /\ IsJoined(Wire(S), h, e, k, m, w)
  BY <1>c, Zenon
<1>5. /\ w \in Seq(Wire(S)) /\ Len(w) = k + m
      /\ \A i \in 1..k : w[i] = h[i]
      /\ \A i \in 1..m : w[k + i] = e[i]
  BY <1>d, Zenon DEF IsJoined
<1>6. Follows(Wire(S), frame, p, w)
  BY <1>b, <1>d, Zenon
<1>7. /\ frame \in Seq(Wire(S)) /\ Len(frame) = p + k + m
      /\ \A i \in 1..(k + m) : frame[p + i] = w[i]
  <2>1. /\ frame \in Seq(Wire(S)) /\ Len(frame) = p + Len(w)
        /\ \A i \in 1..Len(w) : frame[p + i] = w[i]
    BY <1>6, Zenon DEF Follows
  <2> QED  BY <2>1, <1>0, <1>5
<1>8. frame[p + 1] = n + 1
  <2>1. 1 \in 1..k /\ 1 \in 1..(k + m)
    BY <1>0, <1>2
  <2> QED  BY <2>1, <1>1, <1>5, <1>7
<1>9. ASSUME NEW i \in 1..n PROVE frame[p + 1 + i] = b[i]
  <2>1. i + 1 \in 1..k /\ i + 1 \in 1..(k + m) /\ p + (i + 1) = p + 1 + i
    BY <1>0, <1>2
  <2>2. frame[p + (i + 1)] = w[i + 1] /\ w[i + 1] = h[i + 1]
    BY <2>1, <1>5, <1>7
  <2> QED  BY <2>1, <2>2, <1>1
<1>10. Follows(Wire(S), frame, p + n + 1, e)
  <2>1. p + n + 1 \in Nat /\ Len(frame) = p + n + 1 + m
    BY <1>0, <1>2, <1>7
  <2>2. ASSUME NEW i \in 1..m PROVE frame[p + n + 1 + i] = e[i]
    <3>1. k + i \in 1..(k + m) /\ p + (k + i) = p + n + 1 + i
      BY <1>0, <1>2
    <3>2. frame[p + (k + i)] = w[k + i] /\ w[k + i] = e[i]
      BY <3>1, <1>5, <1>7
    <3> QED  BY <3>1, <3>2
  <2> QED  BY <2>1, <2>2, <1>3, <1>7 DEF Follows
<1> QED  BY <1>8, <1>9, <1>10 DEF CarriesBlock

Recovers(g, at, s) == g[at] = [found |-> TRUE, out |-> s]

\* The zero a block stands for.
ZeroAfter(frame, n, q) ==
  IF n < BLOCK_MAX /\ frame[q] # PACKET_DELIMITER THEN << 0 >> ELSE <<>>

Record(t, s) == [found |-> t, out |-> s]
Prefixed(r, z) == [r EXCEPT !.out = z \o @]

\* What EXCEPT does to the record of a decoded rest.
LEMMA OutReplaced ==
  ASSUME NEW t, NEW s, NEW z, NEW r, r = Record(t, s)
  PROVE  Prefixed(r, z) = Record(t, z \o s)
<1> USE DEF Prefixed, Record
<1>1. PICK y : y = z \o s
  OBVIOUS
<1>2. [r EXCEPT !.out = z \o @] = [r EXCEPT !.out = y]
  BY <1>1
<1>3. [r EXCEPT !.out = y] = [found |-> t, out |-> y]
  OBVIOUS
<1> QED  BY <1>1, <1>2, <1>3, Zenon

\* Where the rest of a frame decodes, the block before it does, with the zero it stands for.
LEMMA BlockIsRecovered ==
  ASSUME NEW S, NEW T, NEW frame \in Seq(T), NEW p \in Nat, NEW n \in 0..BLOCK_MAX, NEW b \in Seq(S),
         Len(b) = n, CarriesBlock(frame, p, n, b),
         NEW q, q = p + n + 2, q <= Len(frame),
         NEW g, g = [at \in 1..(Len(frame) + 1) |-> UnstuffedAt(g, frame, at)],
         NEW s, Recovers(g, q, s)
  PROVE  Recovers(g, p + 1, (b \o ZeroAfter(frame, n, q)) \o s)
<1>0. n \in Nat /\ BLOCK_MAX \in Nat /\ n + 1 # PACKET_DELIMITER
  BY BlockMaxIsNatural DEF PACKET_DELIMITER
<1>14. frame[p + 1] = n + 1 /\ \A i \in 1..n : frame[p + 1 + i] = b[i]
  BY Zenon DEF CarriesBlock
<1>1. PICK size \in Nat : size = Len(frame)
  OBVIOUS
<1>2. PICK at : at = p + 1
  OBVIOUS
<1>12. frame[at] = n + 1
  BY <1>2, <1>14, Zenon
<1>13. at \in Nat /\ at > 0 /\ at + (n + 1) = q /\ q <= size /\ at < q
  BY <1>0, <1>1, <1>2
<1>3. at \in 1..(size + 1) /\ ~(at > size) /\ at + frame[at] = q /\ ~(q > size + 1)
  <2>1. at + frame[at] = q
    BY <1>12, <1>13, Zenon
  <2>2. q \in Nat
    BY <1>0
  <2> QED  BY <2>1, <2>2, <1>1, <1>13
<1>4. frame[at] # PACKET_DELIMITER
  BY <1>0, <1>12
<1>5. g[at] = UnstuffedAt(g, frame, at)
  BY <1>1, <1>3, Zenon
<1>6. g[at] = [g[q] EXCEPT !.out = BlockAt(frame, at) \o @]
  BY <1>1, <1>3, <1>4, <1>5, Zenon DEF UnstuffedAt
<1>7. SubSeq(frame, at + 1, q - 1) = b
  <2>1. at + 1 \in Int /\ q - 1 \in Int /\ (q - 1) - (at + 1) + 1 = n
    BY <1>0, <1>2
  <2>2. \A i \in (at + 1)..(q - 1) : frame[i] \in S
    <3> SUFFICES ASSUME NEW i \in (at + 1)..(q - 1) PROVE frame[i] \in S
      OBVIOUS
    <3>1. i - (p + 1) \in 1..n /\ p + 1 + (i - (p + 1)) = i
      BY <1>0, <1>2
    <3>2. frame[i] = b[i - (p + 1)]
      BY <3>1, <1>14
    <3> QED  BY <3>1, <3>2
  <2> PICK x : x = SubSeq(frame, at + 1, q - 1)
    OBVIOUS
  <2>3. /\ x \in Seq(S)
        /\ Len(x) = IF at + 1 <= q - 1 THEN (q - 1) - (at + 1) + 1 ELSE 0
        /\ \A i \in 1..((q - 1) - (at + 1) + 1) : x[i] = frame[(at + 1) + i - 1]
    BY <2>1, <2>2, SubSeqProperties
  <2>4. Len(x) = n
    BY <2>1, <2>3, <1>0, <1>2
  <2>5. ASSUME NEW i \in 1..n PROVE x[i] = b[i]
    <3>1. x[i] = frame[(at + 1) + i - 1] /\ (at + 1) + i - 1 = p + 1 + i
      BY <2>1, <2>3, <1>2
    <3> QED  BY <3>1, <1>14
  <2>6. x = b
    BY <2>3, <2>4, <2>5, SeqEqual
  <2> QED  BY <2>6, Zenon
<1>8. BlockAt(frame, at) = b \o ZeroAfter(frame, n, q)
  <2>1. (frame[at] < COBS_CODE_MAX /\ q <= Len(frame) /\ frame[q] # PACKET_DELIMITER)
          <=> (n < BLOCK_MAX /\ frame[q] # PACKET_DELIMITER)
    BY <1>0, <1>12 DEF COBS_CODE_MAX
  <2> QED  BY <2>1, <1>3, <1>7, Zenon DEF BlockAt, ZeroAfter
<1> PICK z : z = b \o ZeroAfter(frame, n, q)
  OBVIOUS
<1>9. g[q] = [found |-> TRUE, out |-> s]
  BY DEF Recovers
<1>10. g[at] = [g[q] EXCEPT !.out = z \o @]
  BY <1>6, <1>8, Zenon
<1>11. g[at] = [found |-> TRUE, out |-> z \o s]
  <2>1. g[q] = Record(TRUE, s) /\ g[at] = Prefixed(g[q], z)
    BY <1>9, <1>10, Zenon DEF Record, Prefixed
  <2>2. Prefixed(g[q], z) = Record(TRUE, z \o s)
    BY <2>1, OutReplaced, Zenon
  <2> QED  BY <2>1, <2>2, Zenon DEF Record
<1> QED  BY <1>2, <1>11, Zenon DEF Recovers

\* A block with the zero it stands for, or without, and what follows it.
LEMMA FullJoins ==
  ASSUME NEW S, NEW data \in Seq(S), NEW at \in Nat, at >= 1, NEW n \in Nat, at + n <= Len(data) + 1
  PROVE  SubSeq(data, at, at + n - 1) \o SubSeq(data, at + n, Len(data))
           = SubSeq(data, at, Len(data))
<1> PICK N \in Nat : N = Len(data)
  OBVIOUS
<1> PICK k : k = at + n - 1
  OBVIOUS
<1>1. at \in 1..N + 1 /\ k \in at - 1..N /\ N \in k..N /\ k + 1 = at + n
  OBVIOUS
<1>2. SubSeq(data, at, k) \o SubSeq(data, k + 1, N) = SubSeq(data, at, N)
  BY <1>1, ConcatAdjacentSubSeq
<1> QED  BY <1>1, <1>2, Zenon

\* Opaque, so that no prover unfolds it.
Associative(x, y, z) == (x \o y) \o z = x \o (y \o z)

\* Concatenation is associative, as an opaque statement.
LEMMA Associates ==
  ASSUME NEW S, NEW x \in Seq(S), NEW y \in Seq(S), NEW z \in Seq(S)
  PROVE  Associative(x, y, z)
BY ConcatAssociative, SMT DEF Associative

\* The bytes before a zero, the zero and the bytes after it are the bytes from there on.
LEMMA ZeroJoins ==
  ASSUME NEW S, NEW data \in Seq(S), NEW at \in Nat, at >= 1, NEW n \in Nat, at + n <= Len(data),
         data[at + n] = 0
  PROVE  (SubSeq(data, at, at + n - 1) \o << 0 >>) \o SubSeq(data, at + n + 1, Len(data))
           = SubSeq(data, at, Len(data))
<1>0. at + n \in 1..Len(data) /\ Len(data) \in (at + n)..Len(data) /\ at + n <= Len(data) + 1
  OBVIOUS
<1>1. SubSeq(data, at + n, Len(data)) = << 0 >> \o SubSeq(data, at + n + 1, Len(data))
  <2>1. SubSeq(data, at + n, Len(data)) = <<data[at + n]>> \o SubSeq(data, at + n + 1, Len(data))
    BY <1>0, SubSeqRecursiveFirst
  <2> QED  BY <2>1, Zenon
<1>2. SubSeq(data, at, at + n - 1) \o SubSeq(data, at + n, Len(data))
        = SubSeq(data, at, Len(data))
  BY <1>0, FullJoins, Zenon
<1>3. /\ SubSeq(data, at, at + n - 1) \in Seq(S)
      /\ SubSeq(data, at + n + 1, Len(data)) \in Seq(S)
      /\ << 0 >> \in Seq(S)
  <2>1. 0 \in S
    BY <1>0
  <2>2. /\ at + n - 1 \in Int /\ at + n + 1 \in Int /\ Len(data) \in Int
        /\ \A i \in at..(at + n - 1) : data[i] \in S
        /\ \A i \in (at + n + 1)..Len(data) : data[i] \in S
    BY <1>0
  <2>3. SubSeq(data, at, at + n - 1) \in Seq(S)
    BY <2>2, SubSeqProperties
  <2>4. SubSeq(data, at + n + 1, Len(data)) \in Seq(S)
    BY <2>2, SubSeqProperties
  <2> QED  BY <2>1, <2>3, <2>4
<1>4. Associative(SubSeq(data, at, at + n - 1), << 0 >>, SubSeq(data, at + n + 1, Len(data)))
  BY <1>3, Associates, Zenon
<1>5. (SubSeq(data, at, at + n - 1) \o << 0 >>) \o SubSeq(data, at + n + 1, Len(data))
        = SubSeq(data, at, at + n - 1) \o (<< 0 >> \o SubSeq(data, at + n + 1, Len(data)))
  BY <1>4 DEF Associative
<1> QED  BY <1>1, <1>2, <1>5, Zenon

\* The block, and what follows it, within the frame.
Placed(T, frame, p, n, b, e) ==
  /\ CarriesBlock(frame, p, n, b) /\ Follows(T, frame, p + n + 1, e)
  /\ p + n + 2 <= Len(frame) /\ frame[p + n + 2] = e[1]

\* Where a block of a frame lies when the frame is the encoding of the data.
LEMMA BlockLies ==
  ASSUME NEW S, NEW frame, NEW p \in Nat, NEW n \in 0..BLOCK_MAX, NEW b \in Seq(S), NEW e,
         Len(b) = n, \A i \in 1..n : b[i] # PACKET_DELIMITER,
         Follows(Wire(S), frame, p, (<<n + 1>> \o b) \o e),
         Delimited(Wire(S), e) \/ e = << 0 >>
  PROVE  Placed(Wire(S), frame, p, n, b, e)
<1>0. n \in Nat /\ BLOCK_MAX \in Nat
  BY BlockMaxIsNatural
<1>1. e \in Seq(Wire(S)) /\ Len(e) \in Nat /\ Len(e) >= 1
  <2>1. CASE Delimited(Wire(S), e)
    BY <2>1 DEF Delimited
  <2>2. CASE e = << 0 >>
    <3>1. 0 \in Wire(S)
      BY <1>0 DEF Wire, Codes, COBS_CODE_MAX
    <3> QED  BY <2>2, <3>1
  <2> QED  BY <2>1, <2>2
<1>2. CarriesBlock(frame, p, n, b) /\ Follows(Wire(S), frame, p + n + 1, e)
  BY <1>1, BlockFollows, Zenon
<1>3. Len(frame) = (p + n + 1) + Len(e) /\ \A i \in 1..Len(e) : frame[(p + n + 1) + i] = e[i]
  BY <1>2, Zenon DEF Follows
<1>4. p + n + 2 <= Len(frame) /\ (p + n + 1) + 1 = p + n + 2
  BY <1>0, <1>1, <1>3
<1>5. frame[(p + n + 1) + 1] = e[1]
  BY <1>1, <1>3
<1> QED  BY <1>2, <1>4, <1>5, Zenon DEF Placed

\* From every position on, what Encode() wrote is decoded to the data from there on.
LEMMA Recovered ==
  ASSUME NEW S, NEW data \in Seq(S),
         NEW f, f = [i \in 1..(Len(data) + 1) |-> EncodedAt(f, data, i)],
         NEW frame \in Seq(Wire(S)),
         NEW g, g = [at \in 1..(Len(frame) + 1) |-> UnstuffedAt(g, frame, at)]
  PROVE  \A at \in 1..(Len(data) + 1), p \in Nat :
           Follows(Wire(S), frame, p, f[at])
             => Recovers(g, p + 1, SubSeq(data, at, Len(data)))
<1> PICK size \in Nat : size = Len(data)
  OBVIOUS
<1> DEFINE Fine(at) == \A p \in Nat : Follows(Wire(S), frame, p, f[at])
                                        => Recovers(g, p + 1, SubSeq(data, at, size))
           Good == {d \in Nat : d <= size => Fine(size + 1 - d)}
<1>1. ASSUME NEW d \in Nat, \A m \in 0..d - 1 : m \in Good, d <= size
      PROVE  Fine(size + 1 - d)
  <2> PICK at : at = size + 1 - d
    OBVIOUS
  <2>0. at \in 1..(size + 1) /\ d = size + 1 - at /\ at \in Nat /\ at >= 1
    BY <1>1
  <2>1. ASSUME NEW next \in 1..(size + 1), next > at PROVE Fine(next)
    <3> PICK m : m = size + 1 - next
      OBVIOUS
    <3>1. m \in 0..d - 1 /\ m <= size /\ size + 1 - m = next
      BY <2>0, <2>1
    <3>2. m \in Good
      BY <3>1, <1>1
    <3>3. Fine(size + 1 - m)
      BY <3>1, <3>2
    <3> QED  BY <3>1, <3>3, Zenon
  <2>2. PICK n \in 0..BLOCK_MAX : \E b \in Seq(S) :
           /\ BlockOf(data, at, n, b)
           /\ \/ LastBlock(f, data, at, n, b)
              \/ FullBlock(f, data, at, n, b)
              \/ ZeroBlock(f, data, at, n, b)
    BY <2>0, EncodedCases
  <2>3. PICK b \in Seq(S) :
           /\ BlockOf(data, at, n, b)
           /\ \/ LastBlock(f, data, at, n, b)
              \/ FullBlock(f, data, at, n, b)
              \/ ZeroBlock(f, data, at, n, b)
    BY <2>2
  <2>4. /\ Len(b) = n /\ (\A i \in 1..n : b[i] # PACKET_DELIMITER)
        /\ at + n <= size + 1 /\ b = SubSeq(data, at, at + n - 1)
    BY <2>3 DEF BlockOf
  <2>5. n \in Nat /\ BLOCK_MAX \in Nat \ {0} /\ n <= BLOCK_MAX
    BY BlockMaxIsNatural
  <2>6. SUFFICES ASSUME NEW p \in Nat, Follows(Wire(S), frame, p, f[at])
        PROVE  Recovers(g, p + 1, SubSeq(data, at, size))
    BY Zenon
  <2> PICK q : q = p + n + 2
    OBVIOUS
  <2>7. q \in Nat /\ q = (p + n + 1) + 1
    BY <2>5
  <2>8. ASSUME NEW e, f[at] = (<<n + 1>> \o b) \o e, Delimited(Wire(S), e) \/ e = << 0 >>
        PROVE  /\ CarriesBlock(frame, p, n, b) /\ Follows(Wire(S), frame, p + n + 1, e)
               /\ q <= Len(frame) /\ frame[q] = e[1]
    <3>1. Follows(Wire(S), frame, p, (<<n + 1>> \o b) \o e)
      BY <2>6, <2>8, Zenon
    <3>2. Delimited(Wire(S), e) \/ e = << 0 >>
      BY <2>8, Zenon
    <3>3. Placed(Wire(S), frame, p, n, b, e)
      BY <3>1, <3>2, <2>4, BlockLies, Zenon
    <3> QED  BY <3>3, Zenon DEF Placed
  <2>9. ASSUME NEW e, f[at] = (<<n + 1>> \o b) \o e, Delimited(Wire(S), e) \/ e = << 0 >>,
               NEW s, Recovers(g, q, s)
        PROVE  Recovers(g, p + 1, (b \o ZeroAfter(frame, n, q)) \o s)
    BY <2>4, <2>8, <2>9, BlockIsRecovered
  <2>10. CASE LastBlock(f, data, at, n, b)
    <3>1. f[at] = (<<n + 1>> \o b) \o << 0 >> /\ at + n = Len(data) + 1
      BY <2>10, Zenon DEF LastBlock, PACKET_DELIMITER
    <3>2. q <= Len(frame) /\ frame[q] = PACKET_DELIMITER
      <4>1. q <= Len(frame) /\ frame[q] = << 0 >>[1]
        BY <3>1, <2>8, Zenon
      <4> QED  BY <4>1 DEF PACKET_DELIMITER
    <3>3. Recovers(g, q, <<>>)
      <4>1. g[q] = UnstuffedAt(g, frame, q)
        <5>1. q \in 1..(Len(frame) + 1)
          BY <3>2, <2>5, <2>7
        <5> QED  BY <5>1, Zenon
      <4>2. ~(q > Len(frame))
        BY <3>2, <2>7
      <4> QED  BY <3>2, <4>1, <4>2, Zenon DEF UnstuffedAt, Recovers
    <3>4. Recovers(g, p + 1, (b \o <<>>) \o <<>>)
      <4>1. ZeroAfter(frame, n, q) = <<>>
        BY <3>2, Zenon DEF ZeroAfter
      <4> QED  BY <3>1, <3>3, <2>9, <4>1, Zenon
    <3>5. (b \o <<>>) \o <<>> = b
      BY ConcatEmptySeq, Zenon
    <3>6. b = SubSeq(data, at, size)
      <4>1. at + n - 1 = size
        BY <3>1, <2>0, <2>5
      <4> QED  BY <4>1, <2>4, Zenon
    <3> QED  BY <3>4, <3>5, <3>6, Zenon
  <2>11. CASE FullBlock(f, data, at, n, b)
    <3> PICK next : next = at + n
      OBVIOUS
    <3>1. f[at] = (<<n + 1>> \o b) \o f[next] /\ n = BLOCK_MAX
      BY <2>11, Zenon DEF FullBlock
    <3>2. next \in 1..(size + 1) /\ next > at
      BY <3>1, <2>0, <2>4, <2>5
    <3>3. Delimited(Wire(S), f[next])
      BY <3>2, EncodedShape DEF Shaped
    <3>4. Follows(Wire(S), frame, p + n + 1, f[next])
      BY <3>1, <3>3, <2>8, Zenon
    <3>5. Recovers(g, q, SubSeq(data, next, size))
      <4>1. p + n + 1 \in Nat
        BY <2>5
      <4> QED  BY <3>2, <3>4, <4>1, <2>1, <2>7, Zenon
    <3>6. ZeroAfter(frame, n, q) = <<>>
      BY <3>1, <2>5 DEF ZeroAfter
    <3>7. Recovers(g, p + 1, (b \o <<>>) \o SubSeq(data, next, size))
      BY <3>1, <3>3, <3>5, <3>6, <2>9, Zenon
    <3>8. b \o <<>> = b
      BY ConcatEmptySeq, Zenon
    <3>9. b \o SubSeq(data, next, size) = SubSeq(data, at, size)
      <4>1. SubSeq(data, at, at + n - 1) \o SubSeq(data, at + n, Len(data))
              = SubSeq(data, at, Len(data))
        BY <2>0, <2>4, <2>5, FullJoins
      <4> QED  BY <4>1, <2>4, Zenon
    <3> QED  BY <3>7, <3>8, <3>9, Zenon
  <2>12. CASE ZeroBlock(f, data, at, n, b)
    <3> PICK next : next = at + n + 1
      OBVIOUS
    <3>1. /\ f[at] = (<<n + 1>> \o b) \o f[next] /\ n < BLOCK_MAX
          /\ at + n <= Len(data) /\ data[at + n] = 0
      BY <2>12, Zenon DEF ZeroBlock, PACKET_DELIMITER
    <3>2. next \in 1..(size + 1) /\ next > at
      BY <3>1, <2>0, <2>5
    <3>3. Delimited(Wire(S), f[next])
      BY <3>2, EncodedShape DEF Shaped
    <3>4. Follows(Wire(S), frame, p + n + 1, f[next]) /\ frame[q] = f[next][1]
      BY <3>1, <3>3, <2>8, Zenon
    <3>5. Recovers(g, q, SubSeq(data, next, size))
      <4>1. p + n + 1 \in Nat
        BY <2>5
      <4> QED  BY <3>2, <3>4, <4>1, <2>1, <2>7, Zenon
    <3>6. ZeroAfter(frame, n, q) = << 0 >>
      <4>1. f[next][1] # PACKET_DELIMITER
        BY <3>3, DelimitedStarts, Zenon
      <4> QED  BY <3>1, <3>4, <4>1, Zenon DEF ZeroAfter
    <3>7. Recovers(g, p + 1, (b \o << 0 >>) \o SubSeq(data, next, size))
      BY <3>1, <3>3, <3>5, <3>6, <2>9, Zenon
    <3>8. (SubSeq(data, at, at + n - 1) \o << 0 >>) \o SubSeq(data, at + n + 1, Len(data))
            = SubSeq(data, at, Len(data))
      BY <3>1, <2>0, <2>5, ZeroJoins
    <3> QED  BY <2>4, <3>7, <3>8, Zenon
  <2> QED  BY <2>3, <2>10, <2>11, <2>12, Zenon
<1>2. \A d \in Nat : (\A m \in 0..d - 1 : m \in Good) => d \in Good
  BY <1>1
<1>3. Nat \subseteq Good
  BY <1>2, EveryNatural
<1>4. ASSUME NEW at \in 1..(size + 1) PROVE Fine(at)
  <2> PICK d : d = size + 1 - at
    OBVIOUS
  <2>1. d \in Nat /\ d <= size /\ size + 1 - d = at
    OBVIOUS
  <2>2. d \in Good
    BY <2>1, <1>3
  <2>3. Fine(size + 1 - d)
    BY <2>1, <2>2
  <2> QED  BY <2>1, <2>3, Zenon
<1> QED  BY <1>4, Zenon

\* EMF_cobs_encode() of any data: no delimiter but the last byte, no longer than
\* EMF_COBS_ENCODED_MAX_SIZE(), and decoded to the data again.
THEOREM RoundTrip ==
  ASSUME NEW S, NEW data \in Seq(S), Wire(S) \subseteq Nat
  PROVE  /\ Delimited(Wire(S), Encode(data))
         /\ Len(Encode(data)) <= ENCODED_SIZE(Len(data))
         /\ Unstuff(Encode(data)) = [found |-> TRUE, out |-> data]
         /\ Decode(Encode(data)) = data
<1>1. PICK f : f = [at \in 1..(Len(data) + 1) |-> EncodedAt(f, data, at)] /\ Encode(data) = f[1]
  BY EncodeIsDefined
<1>2. 1 \in 1..(Len(data) + 1) /\ Len(data) + 1 - 1 = Len(data) /\ Len(data) \in Nat
  OBVIOUS
<1>3. \A at \in 1..(Len(data) + 1) : Shaped(S, f[at], Len(data) + 1 - at)
  BY <1>1, EncodedShape
<1>4. Shaped(S, f[1], Len(data))
  BY <1>2, <1>3, Zenon
<1>5. PICK e : e = Encode(data)
  OBVIOUS
<1>6. Delimited(Wire(S), e) /\ Len(e) <= ENCODED_SIZE(Len(data))
  BY <1>1, <1>4, <1>5, Zenon DEF Shaped
<1>7. e \in Seq(Wire(S)) /\ Len(e) \in Nat
  BY <1>6, Zenon DEF Delimited
<1>8. e \in Seq(Nat)
  BY <1>7, SeqMonotonic
<1>9. PICK g : g = [at \in 1..(Len(e) + 1) |-> UnstuffedAt(g, e, at)] /\ Unstuff(e) = g[1]
  BY <1>8, UnstuffIsDefined
<1>10. Follows(Wire(S), e, 0, e)
  BY <1>7 DEF Follows
<1>11. \A at \in 1..(Len(data) + 1), p \in Nat :
          Follows(Wire(S), e, p, f[at]) => Recovers(g, p + 1, SubSeq(data, at, Len(data)))
  BY <1>1, <1>7, <1>9, Recovered
<1>12. 0 \in Nat /\ 0 + 1 = 1
  OBVIOUS
<1>13. Recovers(g, 1, SubSeq(data, 1, Len(data)))
  BY <1>1, <1>2, <1>5, <1>10, <1>11, <1>12, Zenon
<1>14. SubSeq(data, 1, Len(data)) = data
  BY SubSeqFull
<1>15. Unstuff(e) = [found |-> TRUE, out |-> data]
  BY <1>9, <1>13, <1>14, Zenon DEF Recovers
<1>16. Decode(e) = data
  BY <1>15 DEF Decode
<1> QED  BY <1>5, <1>6, <1>15, <1>16, Zenon

\* A byte, opaque where its values do not matter.
Byte == 0..255

\* A byte is a natural number up to 255.
LEMMA ByteIsNatural == Byte \subseteq Nat /\ 0 \in Byte /\ \A c \in Byte : c <= 255
BY DEF Byte

\* Bytes are natural numbers.
LEMMA BytesAreNatural ==
  ASSUME NEW s \in Seq(Byte)
  PROVE  s \in Seq(Nat)
BY ByteIsNatural, SeqMonotonic

(* What is decoded, even of no frame, is shorter than what came. *)
Bounded(r, room) == r.out \in Seq(Byte) /\ Len(r.out) <= room

\* A block and what is decoded behind it are shorter than the frame from there on.
LEMMA NextDecoded ==
  ASSUME NEW frame \in Seq(Byte), NEW size \in Nat, size = Len(frame),
         NEW at \in 1..size, frame[at] # 0, NEW next \in Nat, next = at + frame[at],
         next <= size + 1, NEW r, NEW t, NEW s, r = Record(t, s),
         s \in Seq(Byte), Len(s) <= IF next <= size THEN size - next ELSE 0
  PROVE  Bounded(Prefixed(r, BlockAt(frame, at)), size - at)
<1>0. frame[at] \in Nat /\ at \in Nat /\ frame[at] >= 1 /\ 0 \in Byte
  <2>1. at \in 1..Len(frame)
    OBVIOUS
  <2>2. PICK c \in Byte : c = frame[at]
    BY <2>1, ElementOfSeq
  <2>3. c \in Nat /\ c # 0
    BY <2>2, ByteIsNatural
  <2> QED  BY <2>2, <2>3, ByteIsNatural
<1>1. SubSeq(frame, at + 1, next - 1) \in Seq(Byte)
      /\ Len(SubSeq(frame, at + 1, next - 1)) = frame[at] - 1
  <2>1. at + 1 \in Int /\ next - 1 \in Int /\ \A i \in (at + 1)..(next - 1) : frame[i] \in Byte
    BY <1>0
  <2>2. /\ SubSeq(frame, at + 1, next - 1) \in Seq(Byte)
        /\ Len(SubSeq(frame, at + 1, next - 1))
             = IF at + 1 <= next - 1 THEN (next - 1) - (at + 1) + 1 ELSE 0
    BY <2>1, SubSeqProperties
  <2> QED  BY <2>2, <1>0
<1>2. PICK u : u = SubSeq(frame, at + 1, next - 1)
  OBVIOUS
<1>3. PICK z : z = IF frame[at] < COBS_CODE_MAX /\ next <= Len(frame) /\ frame[next] # PACKET_DELIMITER
                   THEN << 0 >> ELSE <<>>
  OBVIOUS
<1>4. u \in Seq(Byte) /\ Len(u) = frame[at] - 1
  BY <1>1, <1>2, Zenon
<1>5. z \in Seq(Byte) /\ Len(z) \in Nat /\ Len(z) <= IF next <= size THEN 1 ELSE 0
  <2>1. CASE z = << 0 >> /\ next <= size
    BY <2>1, <1>0
  <2>2. CASE z = <<>>
    BY <2>2
  <2> QED  BY <1>3, <2>1, <2>2
<1>6. BlockAt(frame, at) = u \o z
  BY <1>2, <1>3, Zenon DEF BlockAt
<1>7. u \o z \in Seq(Byte) /\ Len(u \o z) = Len(u) + Len(z)
  BY <1>4, <1>5, ConcatProperties
<1>8. PICK w : w = BlockAt(frame, at)
  OBVIOUS
<1>9. w \in Seq(Byte) /\ Len(w) = Len(u) + Len(z)
  BY <1>6, <1>7, <1>8, Zenon
<1>10. w \o s \in Seq(Byte) /\ Len(w \o s) = Len(w) + Len(s)
  BY <1>9, ConcatProperties
<1>11. Len(s) \in Nat
  OBVIOUS
<1>12. Len(w \o s) <= size - at
  <2>1. PICK c \in Nat : c = frame[at]
    BY <1>0
  <2>2. PICK a \in Nat : a = Len(s)
    BY <1>11
  <2>3. PICK d \in Nat : d = Len(z)
    BY <1>5
  <2>4. Len(w \o s) = (c - 1) + d + a
    BY <1>4, <1>9, <1>10, <2>1, <2>2, <2>3
  <2>5. next = at + c /\ d <= (IF next <= size THEN 1 ELSE 0)
        /\ a <= (IF next <= size THEN size - next ELSE 0)
    BY <1>5, <2>1, <2>2, <2>3
  <2> QED  BY <1>0, <2>4, <2>5
<1>13. Prefixed(r, w) = Record(t, w \o s)
  BY OutReplaced
<1>14. Record(t, w \o s).out = w \o s
  BY DEF Record
<1> QED  BY <1>8, <1>10, <1>12, <1>13, <1>14, Zenon DEF Bounded

\* EMF_cobs_decode() of any bytes, even of no frame, writes fewer bytes than it was given:
\* no harm done to a frame on the line makes it write beyond the array of a whole frame.
THEOREM UnstuffIsBounded ==
  ASSUME NEW frame \in Seq(Byte), frame # <<>>
  PROVE  \E t \in BOOLEAN, s \in Seq(Byte) :
           Unstuff(frame) = Record(t, s) /\ Len(s) <= Len(frame) - 1
<1> PICK size \in Nat : size = Len(frame)
  OBVIOUS
<1>0. frame \in Seq(Nat) /\ size >= 1
  <2>1. frame \in Seq(Nat)
    BY BytesAreNatural
  <2>2. Len(frame) # 0
    BY EmptySeq
  <2> QED  BY <2>1, <2>2
<1>1. PICK g : g = [at \in 1..(size + 1) |-> UnstuffedAt(g, frame, at)] /\ Unstuff(frame) = g[1]
  BY <1>0, UnstuffIsDefined
<1> DEFINE Fine(at) == \E t \in BOOLEAN, s \in Seq(Byte) :
                         /\ g[at] = Record(t, s)
                         /\ Len(s) <= IF at <= size THEN size - at ELSE 0
           Good == {d \in Nat : d <= size => Fine(size + 1 - d)}
<1>2. ASSUME NEW d \in Nat, \A m \in 0..d - 1 : m \in Good, d <= size
      PROVE  Fine(size + 1 - d)
  <2>1. PICK at : at = size + 1 - d
    OBVIOUS
  <2>2. at \in 1..(size + 1) /\ d = size + 1 - at /\ at \in Nat
    BY <1>2, <2>1
  <2>3. ASSUME NEW next \in 1..(size + 1), next > at PROVE Fine(next)
    <3>0. PICK m : m = size + 1 - next
      OBVIOUS
    <3>1. m \in 0..d - 1 /\ m <= size /\ size + 1 - m = next
      BY <2>2, <2>3, <3>0
    <3>2. m \in Good
      BY <3>1, <1>2
    <3>3. Fine(size + 1 - m)
      BY <3>1, <3>2
    <3> QED  BY <3>1, <3>3, Zenon
  <2>4. g[at] = UnstuffedAt(g, frame, at)
    BY <1>1, <2>2, Zenon
  <2>5. ASSUME NEW t \in BOOLEAN, g[at] = Record(t, <<>>) PROVE Fine(at)
    <3>1. <<>> \in Seq(Byte) /\ Len(<<>>) <= IF at <= size THEN size - at ELSE 0
      BY <2>2
    <3> QED  BY <2>5, <3>1, Zenon
  <2>6. CASE at > size
    <3>1. g[at] = Record(FALSE, <<>>)
      BY <2>4, <2>6, Zenon DEF UnstuffedAt, Record
    <3> QED  BY <3>1, <2>1, <2>5, Zenon
  <2>7. CASE ~(at > size) /\ frame[at] = PACKET_DELIMITER
    <3>1. g[at] = Record(TRUE, <<>>)
      BY <2>4, <2>7, Zenon DEF UnstuffedAt, Record
    <3> QED  BY <3>1, <2>1, <2>5, Zenon
  <2>8. CASE ~(at > size) /\ frame[at] # PACKET_DELIMITER /\ at + frame[at] > size + 1
    <3>1. g[at] = Record(FALSE, <<>>)
      BY <2>4, <2>8, Zenon DEF UnstuffedAt, Record
    <3> QED  BY <3>1, <2>1, <2>5, Zenon
  <2>9. CASE ~(at > size) /\ frame[at] # PACKET_DELIMITER /\ ~(at + frame[at] > size + 1)
    <3>1. PICK next : next = at + frame[at]
      OBVIOUS
    <3>2. /\ at \in 1..size /\ frame[at] # 0 /\ next \in Nat /\ next <= size + 1
          /\ next \in 1..(size + 1) /\ next > at
      <4>1. frame[at] \in Nat /\ frame[at] # 0
        <5>1. at \in 1..Len(frame)
          BY <2>2, <2>9
        <5>2. frame[at] \in Nat
          BY <5>1, <1>0, ElementOfSeq
        <5> QED  BY <5>2, <2>9 DEF PACKET_DELIMITER
      <4>2. PICK c \in Nat : c = frame[at]
        BY <4>1
      <4>3. next = at + c /\ c # 0 /\ ~(at + c > size + 1) /\ ~(at > size)
        BY <4>1, <4>2, <3>1, <2>9, Zenon
      <4>4. at \in 1..size /\ next \in Nat /\ next <= size + 1 /\ next \in 1..(size + 1) /\ next > at
        BY <4>3, <2>2
      <4> QED  BY <4>1, <4>4, Zenon
    <3>3. PICK t \in BOOLEAN, s \in Seq(Byte) :
            g[next] = Record(t, s) /\ Len(s) <= IF next <= size THEN size - next ELSE 0
      BY <2>3, <3>2, Zenon
    <3>4. g[at] = Prefixed(g[next], BlockAt(frame, at))
      BY <2>4, <2>9, <3>1, Zenon DEF UnstuffedAt, Prefixed
    <3>5. Bounded(Prefixed(g[next], BlockAt(frame, at)), size - at)
      BY <3>1, <3>2, <3>3, NextDecoded
    <3>6. Prefixed(g[next], BlockAt(frame, at)) = Record(t, BlockAt(frame, at) \o s)
      BY <3>3, OutReplaced, Zenon
    <3>7. PICK w : w = BlockAt(frame, at) \o s
      OBVIOUS
    <3>8. g[at] = Record(t, w)
      BY <3>4, <3>6, <3>7, Zenon
    <3>9. Record(t, w).out = w
      BY DEF Record
    <3>10. w \in Seq(Byte) /\ Len(w) <= size - at
      BY <3>4, <3>5, <3>8, <3>9, Zenon DEF Bounded
    <3>11. Fine(at)
      BY <3>2, <3>8, <3>10
    <3> QED  BY <3>11, <2>1, Zenon
  <2> QED  BY <2>6, <2>7, <2>8, <2>9, Zenon
<1>3. \A d \in Nat : (\A m \in 0..d - 1 : m \in Good) => d \in Good
  BY <1>2
<1>4. Nat \subseteq Good
  BY <1>3, EveryNatural
<1>5. size \in Good /\ size + 1 - size = 1
  <2> HIDE DEF Good
  <2> QED  BY <1>4
<1>6. Fine(size + 1 - size)
  BY <1>5
<1>7. PICK t \in BOOLEAN, s \in Seq(Byte) :
        g[1] = Record(t, s) /\ Len(s) <= IF 1 <= size THEN size - 1 ELSE 0
  BY <1>5, <1>6, Zenon
<1> QED  BY <1>0, <1>1, <1>7

(* Integers of up to four bytes. *)
LEMMA RadixAssumption == RADIX = 256
BY HostCommandAssumption DEF HostCommandAssumption

\* The weights of the bytes of an integer.
LEMMA Powers == RADIX^0 = 1 /\ RADIX^1 = 256 /\ RADIX^2 = 65536 /\ RADIX^3 = 16777216
BY RadixAssumption

\* The function of ReadLE(), position by position.
SummedAt(f, bytes, n) == IF n = 0 THEN 0 ELSE f[n - 1] + bytes[n] * RADIX^(n - 1)

\* The function of ReadLE() exists for integers of up to four bytes.
LEMMA ReadLEIsDefined ==
  ASSUME NEW bytes, NEW w \in 1..4, Len(bytes) = w,
         NEW g, g = [n \in 0..w |-> SummedAt(g, bytes, n)]
  PROVE  \E f : f = [n \in 0..w |-> SummedAt(f, bytes, n)] /\ ReadLE(bytes) = f[w]
<1> DEFINE f == CHOOSE x : x = [n \in 0..w |-> SummedAt(x, bytes, n)]
<1>1. f = [n \in 0..w |-> SummedAt(f, bytes, n)]
  OBVIOUS
<1>2. ReadLE(bytes) = f[w]
  BY DEF ReadLE, SummedAt
<1> QED  BY <1>1, <1>2

\* Its value, digit by digit.
Sum(b1, b2, b3, b4, n) ==
  CASE n = 0 -> 0 [] n = 1 -> b1 [] n = 2 -> b1 + b2 * 256 [] n = 3 -> b1 + b2 * 256 + b3 * 65536
    [] n = 4 -> b1 + b2 * 256 + b3 * 65536 + b4 * 16777216

\* ReadLE() is the weighted sum of the bytes.
LEMMA ReadLEIsSum ==
  ASSUME NEW bytes, NEW w \in 1..4, Len(bytes) = w, \A i \in 1..w : bytes[i] \in Byte
  PROVE  ReadLE(bytes) = Sum(bytes[1], bytes[2], bytes[3], bytes[4], w)
<1>1. PICK b1, b2, b3, b4 : b1 = bytes[1] /\ b2 = bytes[2] /\ b3 = bytes[3] /\ b4 = bytes[4]
  OBVIOUS
<1>2. /\ b1 \in Nat
      /\ w >= 2 => b2 \in Nat
      /\ w >= 3 => b3 \in Nat
      /\ w >= 4 => b4 \in Nat
  <2>1. \A i \in 1..w : bytes[i] \in Nat
    BY ByteIsNatural
  <2>2. 1 \in 1..w /\ (w >= 2 => 2 \in 1..w) /\ (w >= 3 => 3 \in 1..w) /\ (w >= 4 => 4 \in 1..w)
    OBVIOUS
  <2> QED  BY <1>1, <2>1, <2>2
<1>3. PICK g : g = [n \in 0..w |-> Sum(b1, b2, b3, b4, n)]
  OBVIOUS
<1>4. ASSUME NEW n \in 0..w PROVE g[n] = SummedAt(g, bytes, n)
  <2>0. g[n] = Sum(b1, b2, b3, b4, n) /\ (n > 0 => g[n - 1] = Sum(b1, b2, b3, b4, n - 1))
    BY <1>3
  <2>1. CASE n = 0
    BY <2>0, <2>1 DEF Sum, SummedAt
  <2>2. CASE n = 1
    BY <2>0, <2>2, <1>1, <1>2, Powers DEF Sum, SummedAt
  <2>3. CASE n = 2
    BY <2>0, <2>3, <1>1, <1>2, Powers DEF Sum, SummedAt
  <2>4. CASE n = 3
    BY <2>0, <2>4, <1>1, <1>2, Powers DEF Sum, SummedAt
  <2>5. CASE n = 4
    BY <2>0, <2>5, <1>1, <1>2, Powers DEF Sum, SummedAt
  <2> QED  BY <2>1, <2>2, <2>3, <2>4, <2>5
<1>5. g = [n \in 0..w |-> SummedAt(g, bytes, n)]
  BY <1>3, <1>4
<1>6. PICK f : f = [n \in 0..w |-> SummedAt(f, bytes, n)] /\ ReadLE(bytes) = f[w]
  BY <1>5, ReadLEIsDefined
<1>7. \A n \in 0..w : f[n] = SummedAt(f, bytes, n)
  BY <1>6
<1>8. f[0] = 0
  BY <1>7 DEF SummedAt
<1>9. f[1] = b1
  BY <1>1, <1>2, <1>7, <1>8, Powers DEF SummedAt
<1>10. w >= 2 => f[2] = b1 + b2 * 256
  BY <1>1, <1>2, <1>7, <1>9, Powers DEF SummedAt
<1>11. w >= 3 => f[3] = b1 + b2 * 256 + b3 * 65536
  BY <1>1, <1>2, <1>7, <1>10, Powers DEF SummedAt
<1>12. w >= 4 => f[4] = b1 + b2 * 256 + b3 * 65536 + b4 * 16777216
  BY <1>1, <1>2, <1>7, <1>11, Powers DEF SummedAt
<1>13. f[w] = Sum(b1, b2, b3, b4, w)
  BY <1>9, <1>10, <1>11, <1>12 DEF Sum
<1> QED  BY <1>1, <1>6, <1>13

\* The last digit of a number, and the rest.
LEMMA Horner ==
  \A b \in 0..255, v \in Nat : (b + v * 256) \div 256 = v /\ (b + v * 256) % 256 = b
OBVIOUS

\* Division by the weight of the third byte, a byte at a time.
LEMMA Divide16 == \A v \in Nat : v \div 65536 = (v \div 256) \div 256
OBVIOUS

\* Division by the weight of the fourth byte, a byte at a time.
LEMMA Divide24 == \A v \in Nat : v \div 16777216 = ((v \div 256) \div 256) \div 256
OBVIOUS

\* The bytes of a number.
HasDigits(x, v, w) ==
  /\ x \in Seq(Byte) /\ Len(x) = w
  /\ x[1] = v % 256
  /\ w >= 2 => x[2] = (v \div 256) % 256
  /\ w >= 3 => x[3] = (v \div 65536) % 256
  /\ w >= 4 => x[4] = (v \div 16777216) % 256

\* WriteLE() writes the digits of a number as bytes.
LEMMA WriteLEDigits ==
  ASSUME NEW v \in Nat, NEW w \in 1..4
  PROVE  HasDigits(WriteLE(v, w), v, w)
<1>1. PICK x : x = WriteLE(v, w)
  OBVIOUS
<1>2. x = [n \in 1..w |-> (v \div RADIX^(n - 1)) % RADIX]
  BY <1>1 DEF WriteLE
<1>3. x[1] = v % 256
  BY <1>2, Powers, RadixAssumption
<1>4. w >= 2 => x[2] = (v \div 256) % 256
  BY <1>2, Powers, RadixAssumption
<1>5. w >= 3 => x[3] = (v \div 65536) % 256
  BY <1>2, Powers, RadixAssumption
<1>6. w >= 4 => x[4] = (v \div 16777216) % 256
  BY <1>2, Powers, RadixAssumption
<1>7. \A n \in 1..w : x[n] \in Byte
  <2>1. v % 256 \in 0..255 /\ (v \div 256) % 256 \in 0..255 /\ (v \div 65536) % 256 \in 0..255
        /\ (v \div 16777216) % 256 \in 0..255
    OBVIOUS
  <2> QED  BY <2>1, <1>3, <1>4, <1>5, <1>6 DEF Byte
<1>8. x \in Seq(Byte) /\ Len(x) = w
  BY <1>2, <1>7
<1>9. HasDigits(x, v, w)
  BY <1>3, <1>4, <1>5, <1>6, <1>8 DEF HasDigits
<1> QED  BY <1>1, <1>9, Zenon

Sum3(b1, b2, b3) == b1 + b2 * 256 + b3 * 65536
Sum4(b1, b2, b3, b4) == b1 + b2 * 256 + b3 * 65536 + b4 * 16777216

\* The digits that division gives back.
AreDigits2(v, b1, b2) == v \in Nat /\ v % 256 = b1 /\ (v \div 256) % 256 = b2
AreDigits3(v, b1, b2, b3) == AreDigits2(v, b1, b2) /\ (v \div 65536) % 256 = b3
AreDigits4(v, b1, b2, b3, b4) == AreDigits3(v, b1, b2, b3) /\ (v \div 16777216) % 256 = b4

\* The digit of a single byte.
LEMMA Digits1 == \A b1 \in 0..255 : b1 % 256 = b1
OBVIOUS

\* The digits of an integer of two bytes.
LEMMA Digits2 ==
  ASSUME NEW b1 \in 0..255, NEW b2 \in 0..255, NEW v, v = b1 + b2 * 256
  PROVE  AreDigits2(v, b1, b2)
BY DEF AreDigits2

\* The digits of an integer of three bytes.
LEMMA Digits3 ==
  ASSUME NEW b1 \in 0..255, NEW b2 \in 0..255, NEW b3 \in 0..255,
         NEW v, v = Sum3(b1, b2, b3)
  PROVE  AreDigits3(v, b1, b2, b3)
<1>1. PICK u \in Nat : u = b2 + b3 * 256
  OBVIOUS
<1>2. v = b1 + u * 256 /\ v \in Nat
  BY <1>1 DEF Sum3
<1>3. v % 256 = b1 /\ v \div 256 = u
  BY <1>2
<1>4. u % 256 = b2 /\ u \div 256 = b3
  BY <1>1
<1>5. v \div 65536 = b3
  BY <1>2, <1>3, <1>4, Divide16
<1> QED  BY <1>2, <1>3, <1>4, <1>5, Digits1 DEF AreDigits2, AreDigits3

\* The digits of an integer of four bytes.
LEMMA Digits4 ==
  ASSUME NEW b1 \in 0..255, NEW b2 \in 0..255, NEW b3 \in 0..255, NEW b4 \in 0..255,
         NEW v, v = Sum4(b1, b2, b3, b4)
  PROVE  AreDigits4(v, b1, b2, b3, b4)
<1>0. PICK t \in Nat : t = b3 + b4 * 256
  OBVIOUS
<1>1. PICK u \in Nat : u = b2 + t * 256
  OBVIOUS
<1>2. v = b1 + u * 256 /\ v \in Nat
  BY <1>0, <1>1 DEF Sum4
<1>3. v % 256 = b1 /\ v \div 256 = u
  BY <1>2
<1>4. u % 256 = b2 /\ u \div 256 = t
  BY <1>1
<1>5. t % 256 = b3 /\ t \div 256 = b4
  BY <1>0
<1>6. v \div 65536 = t /\ v \div 16777216 = b4
  BY <1>2, <1>3, <1>4, <1>5, Divide16, Divide24
<1> QED  BY <1>2, <1>3, <1>4, <1>5, <1>6, Digits1 DEF AreDigits2, AreDigits3, AreDigits4

\* What is read is written again.
LEMMA WriteOfRead ==
  ASSUME NEW bytes \in Seq(Byte), NEW w \in 1..4, Len(bytes) = w
  PROVE  ReadLE(bytes) \in Nat /\ WriteLE(ReadLE(bytes), w) = bytes
<1>0. \A i \in 1..w : bytes[i] \in 0..255
  BY ElementOfSeq DEF Byte
<1>1. PICK b1, b2, b3, b4 : b1 = bytes[1] /\ b2 = bytes[2] /\ b3 = bytes[3] /\ b4 = bytes[4]
  OBVIOUS
<1>2. /\ b1 \in 0..255
      /\ w >= 2 => b2 \in 0..255
      /\ w >= 3 => b3 \in 0..255
      /\ w >= 4 => b4 \in 0..255
  <2>2. 1 \in 1..w /\ (w >= 2 => 2 \in 1..w) /\ (w >= 3 => 3 \in 1..w) /\ (w >= 4 => 4 \in 1..w)
    OBVIOUS
  <2> QED  BY <1>0, <1>1, <2>2
<1>3. PICK v : v = ReadLE(bytes)
  OBVIOUS
<1>4. v = Sum(b1, b2, b3, b4, w)
  BY <1>0, <1>1, <1>3, ReadLEIsSum DEF Byte
<1>5. PICK x : x = WriteLE(v, w)
  OBVIOUS
<1>6. ASSUME v \in Nat PROVE HasDigits(x, v, w)
  BY <1>5, <1>6, WriteLEDigits, Zenon
<1>7. SUFFICES v \in Nat /\ x = bytes
  BY <1>3, <1>5, Zenon
<1>8. CASE w = 1
  <2>0. v = b1
    BY <1>4, <1>8 DEF Sum
  <2>1. v = b1 /\ v \in Nat /\ v % 256 = b1
    BY <2>0, <1>2, Digits1
  <2>2. x \in Seq(Byte) /\ Len(x) = 1 /\ x[1] = b1
    BY <2>1, <1>6, <1>8 DEF HasDigits
  <2>3. x = bytes
    BY <2>2, <1>1, <1>8, SeqEqual
  <2> QED  BY <2>1, <2>3
<1>9. CASE w = 2
  <2>1. v = b1 + b2 * 256
    BY <1>4, <1>9 DEF Sum
  <2>2. v \in Nat /\ v % 256 = b1 /\ (v \div 256) % 256 = b2
    <3>1. b1 \in 0..255 /\ b2 \in 0..255
      BY <1>2, <1>9
    <3>2. AreDigits2(v, b1, b2)
      BY <3>1, <2>1, Digits2, Zenon
    <3> QED  BY <3>2 DEF AreDigits2
  <2>3. x \in Seq(Byte) /\ Len(x) = 2 /\ x[1] = b1 /\ x[2] = b2
    BY <2>2, <1>6, <1>9 DEF HasDigits
  <2>4. \A i \in 1..2 : x[i] = bytes[i]
    BY <2>3, <1>1
  <2>5. x = bytes
    BY <2>3, <2>4, <1>9, SeqEqual
  <2> QED  BY <2>2, <2>5
<1>10. CASE w = 3
  <2>1. v = Sum3(b1, b2, b3)
    BY <1>4, <1>10 DEF Sum, Sum3
  <2>2. v \in Nat /\ v % 256 = b1 /\ (v \div 256) % 256 = b2 /\ (v \div 65536) % 256 = b3
    <3>1. b1 \in 0..255 /\ b2 \in 0..255 /\ b3 \in 0..255
      BY <1>2, <1>10
    <3>2. AreDigits3(v, b1, b2, b3)
      BY <3>1, <2>1, Digits3, Zenon
    <3> QED  BY <3>2 DEF AreDigits2, AreDigits3
  <2>3. x \in Seq(Byte) /\ Len(x) = 3 /\ x[1] = b1 /\ x[2] = b2 /\ x[3] = b3
    BY <2>2, <1>6, <1>10 DEF HasDigits
  <2>4. \A i \in 1..3 : x[i] = bytes[i]
    BY <2>3, <1>1
  <2>5. x = bytes
    BY <2>3, <2>4, <1>10, SeqEqual
  <2> QED  BY <2>2, <2>5
<1>11. CASE w = 4
  <2>1. v = Sum4(b1, b2, b3, b4)
    BY <1>4, <1>11 DEF Sum, Sum4
  <2>2. /\ v \in Nat /\ v % 256 = b1 /\ (v \div 256) % 256 = b2
        /\ (v \div 65536) % 256 = b3 /\ (v \div 16777216) % 256 = b4
    <3>1. b1 \in 0..255 /\ b2 \in 0..255 /\ b3 \in 0..255 /\ b4 \in 0..255
      BY <1>2, <1>11
    <3>2. AreDigits4(v, b1, b2, b3, b4)
      BY <3>1, <2>1, Digits4, Zenon
    <3> QED  BY <3>2 DEF AreDigits2, AreDigits3, AreDigits4
  <2>3. x \in Seq(Byte) /\ Len(x) = 4 /\ x[1] = b1 /\ x[2] = b2 /\ x[3] = b3 /\ x[4] = b4
    BY <2>2, <1>6, <1>11 DEF HasDigits
  <2>4. \A i \in 1..4 : x[i] = bytes[i]
    BY <2>3, <1>1
  <2>5. x = bytes
    BY <2>3, <2>4, <1>11, SeqEqual
  <2> QED  BY <2>2, <2>5
<1> QED  BY <1>8, <1>9, <1>10, <1>11

\* ReadLE() of one byte.
LEMMA ReadOfByte ==
  ASSUME NEW bytes, Len(bytes) = 1
  PROVE  ReadLE(bytes) = 0 + bytes[1] * 1
<1>1. PICK g : g = [n \in 0..1 |-> IF n = 0 THEN 0 ELSE 0 + bytes[1] * 1]
  OBVIOUS
<1>2. g = [n \in 0..1 |-> SummedAt(g, bytes, n)]
  <2>1. ASSUME NEW n \in 0..1 PROVE g[n] = SummedAt(g, bytes, n)
    <3>1. CASE n = 0
      BY <3>1, <1>1 DEF SummedAt
    <3>2. CASE n = 1
      BY <3>2, <1>1, Powers DEF SummedAt
    <3> QED  BY <3>1, <3>2
  <2> QED  BY <2>1, <1>1
<1>3. PICK f : f = [n \in 0..1 |-> SummedAt(f, bytes, n)] /\ ReadLE(bytes) = f[1]
  BY <1>2, ReadLEIsDefined
<1>4. f[0] = 0 /\ f[1] = SummedAt(f, bytes, 1)
  BY <1>3 DEF SummedAt
<1> QED  BY <1>3, <1>4, Powers DEF SummedAt

-----------------------------------------------------------------------------
(* The configuration: where its fields lie, and that reading and writing them are inverse. *)

\* The start of a field of one byte that lies first.
LEMMA FirstOfOne == First(1..1) = 1
<1>1. 1..1 = {1}
  OBVIOUS
<1>2. \A n \in {1} : n = 1
  OBVIOUS
<1>3. First({1}) = CHOOSE n \in {1} : \A o \in {1} : n <= o
  BY DEF First
<1>4. \E n \in {1} : \A o \in {1} : n <= o
  OBVIOUS
<1> QED  BY <1>1, <1>3, <1>4

\* Only the packet types have a size: getConfigurationSize() is 0 for any other byte.
LEMMA SizeHasType ==
  ASSUME NEW x, getConfigurationSize(x) >= COMMON_SIZE
  PROVE  x \in PacketTypes
BY DEF getConfigurationSize, COMMON_SIZE, PacketTypes, LORA, FSK, MSK, BPSK

\* The packet type is the first byte of every layout.
LEMMA TypeBytes ==
  ASSUME NEW x
  PROVE  "packet_type" \in DOMAIN Layout(x) /\ Layout(x)["packet_type"] = 1..1
<1>1. PICK block : block = Block(x)
  OBVIOUS
<1>2. "packet_type" \in DOMAIN Common /\ Common["packet_type"] = <<0, 1>>
  BY DEF Common
<1>3. Layout(x) = [f \in DOMAIN Common \cup DOMAIN block |->
     IF f \in DOMAIN Common THEN (Common[f][1] + 1)..(Common[f][1] + Common[f][2])
     ELSE (COMMON_SIZE + block[f][1] + 1)..(COMMON_SIZE + block[f][1] + block[f][2])]
  BY <1>1, Zenon DEF Layout
<1>4. PICK D : D = DOMAIN Common \cup DOMAIN block
  OBVIOUS
<1>5. "packet_type" \in D
  BY <1>2, <1>4
<1>6. Layout(x)["packet_type"] = (Common["packet_type"][1] + 1)..(Common["packet_type"][1] + Common["packet_type"][2])
  BY <1>2, <1>3, <1>4, <1>5, Zenon
<1>7. DOMAIN Layout(x) = D
  BY <1>3, <1>4, Zenon
<1> QED  BY <1>2, <1>5, <1>6, <1>7

\* A payload of the right size starts with a packet type, which is that of its configuration.
LEMMA TypeOfConfiguration ==
  ASSUME NEW payload, HasConfigurationSize(payload)
  PROVE  /\ payload[1] \in PacketTypes
         /\ getConfiguration(payload).packet_type = payload[1]
<1>1. payload[1] \in PacketTypes
  <2>1. getConfigurationSize(payload[1]) >= COMMON_SIZE
    BY DEF HasConfigurationSize
  <2> QED  BY <2>1, SizeHasType
<1>2. PICK layout : layout = Layout(payload[1])
  OBVIOUS
<1>3. "packet_type" \in DOMAIN layout /\ layout["packet_type"] = 1..1
  BY <1>2, TypeBytes
<1>4. getConfiguration(payload) =
        [f \in DOMAIN layout |->
           FieldValue(f, [n \in 1..(Cardinality(layout[f])) |-> payload[First(layout[f]) + n - 1]])]
  BY <1>2, Zenon DEF getConfiguration
<1>5. getConfiguration(payload)["packet_type"] =
        FieldValue("packet_type", [n \in 1..(Cardinality(layout["packet_type"])) |->
                                     payload[First(layout["packet_type"]) + n - 1]])
  BY <1>3, <1>4, Zenon
<1>6. Cardinality(1..1) = 1
  <2>1. 1..1 = {1}
    OBVIOUS
  <2> QED  BY <2>1, FS_Singleton
<1>7. PICK bytes : bytes = [n \in 1..1 |-> payload[1 + n - 1]]
  OBVIOUS
<1>8. getConfiguration(payload)["packet_type"] = FieldValue("packet_type", bytes)
  <2>1. [n \in 1..(Cardinality(layout["packet_type"])) |-> payload[First(layout["packet_type"]) + n - 1]]
          = [n \in 1..1 |-> payload[1 + n - 1]]
    BY <1>3, <1>6, FirstOfOne
  <2> QED  BY <2>1, <1>5, <1>7, Zenon
<1>9. FieldValue("packet_type", bytes) = ReadLE(bytes)
  BY DEF FieldValue
<1>10. Len(bytes) = 1 /\ bytes[1] = payload[1]
  BY <1>7
<1>11. ReadLE(bytes) = 0 + payload[1] * 1
  BY <1>10, ReadOfByte
<1>12. ReadLE(bytes) = payload[1]
  BY <1>1, <1>11 DEF PacketTypes, LORA, FSK, MSK, BPSK
<1> QED  BY <1>1, <1>8, <1>9, <1>12

(* Where the fields of a block lie: they cover it, and none is wider than an integer of four *)
(* bytes but the sync word.                                                                  *)
FieldFits(f, from, width, size) ==
  /\ from \in Nat /\ width \in 1..8 /\ from + width <= size
  /\ f # "sync_word" => width \in 1..4
  /\ f = "tx_output_power_dbm" => width = 1

BlockFits(block, size) ==
  /\ \A f \in DOMAIN block : FieldFits(f, block[f][1], block[f][2], size)
  /\ \A n \in 0..(size - 1) : \E f \in DOMAIN block : n \in block[f][1]..(block[f][1] + block[f][2] - 1)
  /\ DOMAIN block \cap DOMAIN Common = {}

\* The fields of LORA cover their block and stay inside it.
LEMMA LoraFits == BlockFits(LoraBlock, 33)
<1>1. ASSUME NEW f \in DOMAIN LoraBlock
      PROVE  FieldFits(f, LoraBlock[f][1], LoraBlock[f][2], 33) /\ f \notin DOMAIN Common
  BY DEF LoraBlock, FieldFits, Common
<1>2. ASSUME NEW n \in 0..32
      PROVE  \E f \in DOMAIN LoraBlock : n \in LoraBlock[f][1]..(LoraBlock[f][1] + LoraBlock[f][2] - 1)
  BY DEF LoraBlock
<1>3. 33 - 1 = 32
  OBVIOUS
<1> QED  BY <1>1, <1>2, <1>3, Zenon DEF BlockFits

\* The fields of FSK cover their block and stay inside it.
LEMMA FskFits == BlockFits(FskBlock, 46)
<1>1. ASSUME NEW f \in DOMAIN FskBlock
      PROVE  FieldFits(f, FskBlock[f][1], FskBlock[f][2], 46) /\ f \notin DOMAIN Common
  BY DEF FskBlock, FieldFits, Common
<1>2. ASSUME NEW n \in 0..45
      PROVE  \E f \in DOMAIN FskBlock : n \in FskBlock[f][1]..(FskBlock[f][1] + FskBlock[f][2] - 1)
  BY DEF FskBlock
<1>3. 46 - 1 = 45
  OBVIOUS
<1> QED  BY <1>1, <1>2, <1>3, Zenon DEF BlockFits

\* The fields of MSK cover their block and stay inside it.
LEMMA MskFits == BlockFits(MskBlock, 31)
<1>1. ASSUME NEW f \in DOMAIN MskBlock
      PROVE  FieldFits(f, MskBlock[f][1], MskBlock[f][2], 31) /\ f \notin DOMAIN Common
  BY DEF MskBlock, FieldFits, Common
<1>2. ASSUME NEW n \in 0..30
      PROVE  \E f \in DOMAIN MskBlock : n \in MskBlock[f][1]..(MskBlock[f][1] + MskBlock[f][2] - 1)
  BY DEF MskBlock
<1>3. 31 - 1 = 30
  OBVIOUS
<1> QED  BY <1>1, <1>2, <1>3, Zenon DEF BlockFits

\* The fields of BPSK cover their block and stay inside it.
LEMMA BpskFits == BlockFits(BpskBlock, 6)
<1>1. ASSUME NEW f \in DOMAIN BpskBlock
      PROVE  FieldFits(f, BpskBlock[f][1], BpskBlock[f][2], 6) /\ f \notin DOMAIN Common
  BY DEF BpskBlock, FieldFits, Common
<1>2. ASSUME NEW n \in 0..5
      PROVE  \E f \in DOMAIN BpskBlock : n \in BpskBlock[f][1]..(BpskBlock[f][1] + BpskBlock[f][2] - 1)
  BY DEF BpskBlock
<1>3. 6 - 1 = 5
  OBVIOUS
<1> QED  BY <1>1, <1>2, <1>3, Zenon DEF BlockFits

\* The common fields cover the first seven bytes.
LEMMA CommonFits ==
  /\ \A f \in DOMAIN Common : FieldFits(f, Common[f][1], Common[f][2], COMMON_SIZE)
  /\ \A n \in 0..6 : \E f \in DOMAIN Common : n \in Common[f][1]..(Common[f][1] + Common[f][2] - 1)
<1>1. ASSUME NEW f \in DOMAIN Common
      PROVE  FieldFits(f, Common[f][1], Common[f][2], COMMON_SIZE)
  BY DEF Common, FieldFits, COMMON_SIZE
<1>2. ASSUME NEW n \in 0..6
      PROVE  \E f \in DOMAIN Common : n \in Common[f][1]..(Common[f][1] + Common[f][2] - 1)
  BY DEF Common
<1> QED  BY <1>1, <1>2

\* The block of each packet type fills what its configuration has beyond the common fields.
LEMMA BlocksFit ==
  ASSUME NEW x \in PacketTypes
  PROVE  \E size \in Nat : getConfigurationSize(x) = COMMON_SIZE + size /\ BlockFits(Block(x), size)
<1>1. CASE x = LORA
  <2>1. Block(x) = LoraBlock /\ getConfigurationSize(x) = COMMON_SIZE + 33
    BY <1>1 DEF Block, getConfigurationSize, COMMON_SIZE, LORA, FSK, MSK, BPSK
  <2>2. 33 \in Nat
    OBVIOUS
  <2> QED  BY <2>1, <2>2, LoraFits
<1>2. CASE x = FSK
  <2>1. Block(x) = FskBlock /\ getConfigurationSize(x) = COMMON_SIZE + 46
    BY <1>2 DEF Block, getConfigurationSize, COMMON_SIZE, LORA, FSK, MSK, BPSK
  <2>2. 46 \in Nat
    OBVIOUS
  <2> QED  BY <2>1, <2>2, FskFits
<1>3. CASE x = MSK
  <2>1. Block(x) = MskBlock /\ getConfigurationSize(x) = COMMON_SIZE + 31
    BY <1>3 DEF Block, getConfigurationSize, COMMON_SIZE, LORA, FSK, MSK, BPSK
  <2>2. 31 \in Nat
    OBVIOUS
  <2> QED  BY <2>1, <2>2, MskFits
<1>4. CASE x = BPSK
  <2>1. Block(x) = BpskBlock /\ getConfigurationSize(x) = COMMON_SIZE + 6
    BY <1>4 DEF Block, getConfigurationSize, COMMON_SIZE, LORA, FSK, MSK, BPSK
  <2>2. 6 \in Nat
    OBVIOUS
  <2> QED  BY <2>1, <2>2, BpskFits
<1> QED  BY <1>1, <1>2, <1>3, <1>4 DEF PacketTypes

\* The bytes of a field in a payload.
HasSpan(layout, f, size) ==
  \E from \in Nat, width \in 1..8 :
    layout[f] = (from + 1)..(from + width) /\ FieldFits(f, from, width, size)

\* A layout that covers a payload.
LayoutFits(layout, size) ==
  /\ \A f \in DOMAIN layout : HasSpan(layout, f, size)
  /\ \A n \in 1..size : \E f \in DOMAIN layout : n \in layout[f]

\* The common fields and a block behind them.
IsLaidOut(layout, C, block) ==
  /\ DOMAIN layout = DOMAIN C \cup DOMAIN block
  /\ \A f \in DOMAIN C : layout[f] = (C[f][1] + 1)..(C[f][1] + C[f][2])
  /\ \A f \in DOMAIN block : f \notin DOMAIN C =>
       layout[f] = (COMMON_SIZE + block[f][1] + 1)..(COMMON_SIZE + block[f][1] + block[f][2])

\* Layout() puts the common fields first and the block behind them.
LEMMA LaidOut ==
  ASSUME NEW x
  PROVE  IsLaidOut(Layout(x), Common, Block(x))
<1>0. PICK block : block = Block(x)
  OBVIOUS
<1>1. Layout(x) = [f \in DOMAIN Common \cup DOMAIN block |->
     IF f \in DOMAIN Common THEN (Common[f][1] + 1)..(Common[f][1] + Common[f][2])
     ELSE (COMMON_SIZE + block[f][1] + 1)..(COMMON_SIZE + block[f][1] + block[f][2])]
  BY <1>0, Zenon DEF Layout
<1>2. PICK C, layout : C = Common /\ layout = Layout(x)
  OBVIOUS
<1>3. layout = [f \in DOMAIN C \cup DOMAIN block |->
     IF f \in DOMAIN C THEN (C[f][1] + 1)..(C[f][1] + C[f][2])
     ELSE (COMMON_SIZE + block[f][1] + 1)..(COMMON_SIZE + block[f][1] + block[f][2])]
  BY <1>1, <1>2, Zenon
<1>4. IsLaidOut(layout, C, block)
  BY <1>3 DEF IsLaidOut
<1> QED  BY <1>0, <1>2, <1>4, Zenon

\* The layout of each packet type covers its payload, and each field of it lies inside.
LEMMA LayoutsFit ==
  ASSUME NEW x \in PacketTypes
  PROVE  LayoutFits(Layout(x), getConfigurationSize(x))
<1>1. PICK block : block = Block(x)
  OBVIOUS
<1>2. PICK size \in Nat : getConfigurationSize(x) = COMMON_SIZE + size /\ BlockFits(block, size)
  BY <1>1, BlocksFit
<1>3. PICK C, layout : C = Common /\ layout = Layout(x)
  OBVIOUS
<1>4. PICK total : total = COMMON_SIZE + size
  OBVIOUS
<1>5. /\ DOMAIN layout = DOMAIN C \cup DOMAIN block
      /\ \A f \in DOMAIN C : layout[f] = (C[f][1] + 1)..(C[f][1] + C[f][2])
      /\ \A f \in DOMAIN block : f \notin DOMAIN C =>
              layout[f] = (COMMON_SIZE + block[f][1] + 1)..(COMMON_SIZE + block[f][1] + block[f][2])
  <2>1. IsLaidOut(layout, C, block)
    BY <1>1, <1>3, LaidOut, Zenon
  <2> QED  BY <2>1 DEF IsLaidOut
<1>6. /\ \A f \in DOMAIN C : FieldFits(f, C[f][1], C[f][2], COMMON_SIZE)
      /\ \A n \in 0..6 : \E f \in DOMAIN C : n \in C[f][1]..(C[f][1] + C[f][2] - 1)
  BY <1>3, CommonFits
<1>7. /\ \A f \in DOMAIN block : FieldFits(f, block[f][1], block[f][2], size)
      /\ \A n \in 0..(size - 1) : \E f \in DOMAIN block : n \in block[f][1]..(block[f][1] + block[f][2] - 1)
      /\ DOMAIN block \cap DOMAIN C = {}
  BY <1>2, <1>3 DEF BlockFits
<1>8. ASSUME NEW f \in DOMAIN C PROVE HasSpan(layout, f, total)
  <2>1. PICK a, w : a = C[f][1] /\ w = C[f][2]
    OBVIOUS
  <2>2. layout[f] = (a + 1)..(a + w) /\ FieldFits(f, a, w, COMMON_SIZE)
    BY <1>5, <1>6, <2>1
  <2>3. a \in Nat /\ w \in 1..8 /\ FieldFits(f, a, w, total)
    BY <1>4, <2>2 DEF FieldFits, COMMON_SIZE
  <2> QED  BY <2>2, <2>3, Zenon DEF HasSpan
<1>9. ASSUME NEW f \in DOMAIN block PROVE HasSpan(layout, f, total)
  <2>0. f \notin DOMAIN C
    BY <1>7
  <2>1. PICK a, w : a = block[f][1] /\ w = block[f][2]
    OBVIOUS
  <2>2. layout[f] = (COMMON_SIZE + a + 1)..(COMMON_SIZE + a + w) /\ FieldFits(f, a, w, size)
    BY <1>5, <1>7, <2>0, <2>1
  <2>3. PICK b : b = COMMON_SIZE + a
    OBVIOUS
  <2>4. b \in Nat /\ w \in 1..8 /\ FieldFits(f, b, w, total)
    BY <1>4, <2>2, <2>3 DEF FieldFits, COMMON_SIZE
  <2>5. layout[f] = (b + 1)..(b + w)
    BY <2>2, <2>3
  <2> QED  BY <2>4, <2>5, Zenon DEF HasSpan
<1>10. ASSUME NEW n \in 1..total PROVE \E f \in DOMAIN layout : n \in layout[f]
  <2>1. CASE n <= COMMON_SIZE
    <3>1. n - 1 \in 0..6
      BY <1>4, <2>1 DEF COMMON_SIZE
    <3>2. PICK f \in DOMAIN C : n - 1 \in C[f][1]..(C[f][1] + C[f][2] - 1)
      BY <1>6, <3>1
    <3>3. PICK a, w : a = C[f][1] /\ w = C[f][2]
      OBVIOUS
    <3>4. layout[f] = (a + 1)..(a + w) /\ FieldFits(f, a, w, COMMON_SIZE) /\ n - 1 \in a..(a + w - 1)
      BY <1>5, <1>6, <3>2, <3>3
    <3>5. n \in (a + 1)..(a + w)
      <4>1. a \in Nat /\ w \in Nat
        BY <3>4 DEF FieldFits
      <4> QED  BY <4>1, <3>1, <3>4
    <3> QED  BY <1>5, <3>4, <3>5
  <2>2. CASE ~(n <= COMMON_SIZE)
    <3>1. n - 8 \in 0..(size - 1) /\ n \in Nat
      BY <1>4, <2>2 DEF COMMON_SIZE
    <3>2. PICK f \in DOMAIN block : n - 8 \in block[f][1]..(block[f][1] + block[f][2] - 1)
      BY <1>7, <3>1
    <3>3. PICK a, w : a = block[f][1] /\ w = block[f][2]
      OBVIOUS
    <3>4. /\ layout[f] = (COMMON_SIZE + a + 1)..(COMMON_SIZE + a + w)
          /\ FieldFits(f, a, w, size) /\ n - 8 \in a..(a + w - 1)
      BY <1>5, <1>7, <3>2, <3>3
    <3>5. n \in (COMMON_SIZE + a + 1)..(COMMON_SIZE + a + w)
      <4>1. a \in Nat /\ w \in Nat
        BY <3>4 DEF FieldFits
      <4> QED  BY <4>1, <3>1, <3>4 DEF COMMON_SIZE
    <3> QED  BY <1>5, <3>4, <3>5
  <2> QED  BY <2>1, <2>2
<1>11. \A f \in DOMAIN layout : HasSpan(layout, f, total)
  BY <1>5, <1>8, <1>9
<1>12. LayoutFits(layout, total)
  BY <1>10, <1>11, Zenon DEF LayoutFits
<1> QED  BY <1>2, <1>3, <1>4, <1>12

\* The first byte and the number of bytes of a field.
LEMMA SpanIs ==
  ASSUME NEW from \in Nat, NEW width \in 1..8
  PROVE  First((from + 1)..(from + width)) = from + 1
         /\ Cardinality((from + 1)..(from + width)) = width
<1>1. PICK r : r = (from + 1)..(from + width)
  OBVIOUS
<1>2. from + 1 \in r /\ \A o \in r : from + 1 <= o
  BY <1>1
<1>3. ASSUME NEW n \in r, \A o \in r : n <= o PROVE n = from + 1
  <2>1. n <= from + 1 /\ n \in Int /\ n >= from + 1
    BY <1>1, <1>2, <1>3
  <2> QED  BY <2>1
<1>4. First(r) = from + 1
  <2>1. First(r) = CHOOSE n \in r : \A o \in r : n <= o
    BY DEF First
  <2> QED  BY <1>2, <1>3, <2>1
<1>5. Cardinality(r) = width
  <2>1. from + 1 \in Int /\ from + width \in Int /\ ~(from + 1 > from + width)
        /\ from + width - (from + 1) + 1 = width
    OBVIOUS
  <2> QED  BY <2>1, <1>1, FS_Interval
<1> QED  BY <1>1, <1>4, <1>5

\* A field of bytes that is read is written as the same bytes, whatever its kind.
LEMMA FieldIsKept ==
  ASSUME NEW bytes \in Seq(Byte), NEW f, NEW from, NEW size, FieldFits(f, from, Len(bytes), size)
  PROVE  FieldBytes(f, FieldValue(f, bytes), Len(bytes)) = bytes
<1>1. PICK width : width = Len(bytes)
  OBVIOUS
<1>2. CASE f = "sync_word"
  BY <1>2 DEF FieldBytes, FieldValue
<1>3. CASE f # "sync_word"
  <2>1. width \in 1..4
    BY <1>1, <1>3 DEF FieldFits
  <2>2. PICK v : v = ReadLE(bytes)
    OBVIOUS
  <2>3. v \in Nat /\ WriteLE(v, width) = bytes
    BY <1>1, <2>1, <2>2, WriteOfRead
  <2>4. CASE f = "tx_output_power_dbm" /\ bytes[1] > 127
    <3>1. width = 1
      BY <1>1, <2>4 DEF FieldFits
    <3>2. bytes[1] \in 0..255
      <4>1. 1 \in 1..Len(bytes)
        BY <1>1, <3>1
      <4> QED  BY <4>1, ElementOfSeq DEF Byte
    <3>3. v = bytes[1]
      <4>1. v = 0 + bytes[1] * 1
        BY <1>1, <2>2, <3>1, ReadOfByte
      <4>2. PICK b : b = bytes[1]
        OBVIOUS
      <4>3. b \in 0..255 /\ v = 0 + b * 1
        BY <3>2, <4>1, <4>2
      <4>4. v = b
        BY <4>3
      <4> QED  BY <4>2, <4>4
    <3>4. PICK p : p = bytes[1] - 256
      OBVIOUS
    <3>5. FieldValue(f, bytes) = p
      BY <1>3, <2>4, <3>4, Zenon DEF FieldValue
    <3>6. p < 0 /\ p + 256 = v
      <4>1. PICK b : b = bytes[1]
        OBVIOUS
      <4>2. b \in 0..255 /\ v = b /\ p = b - 256
        BY <3>2, <3>3, <3>4, <4>1
      <4> QED  BY <4>2
    <3>7. FieldBytes(f, p, width) = WriteLE(p + 256, width)
      BY <1>3, <3>6, Zenon DEF FieldBytes
    <3> QED  BY <1>1, <2>3, <3>5, <3>6, <3>7
  <2>5. CASE ~(f = "tx_output_power_dbm" /\ bytes[1] > 127)
    <3>1. FieldValue(f, bytes) = v
      BY <1>3, <2>2, <2>5 DEF FieldValue
    <3>2. ~(v < 0)
      BY <2>3
    <3>3. FieldBytes(f, v, width) = WriteLE(v, width)
      BY <1>3, <3>2 DEF FieldBytes
    <3> QED  BY <1>1, <2>3, <3>1, <3>3
  <2> QED  BY <2>4, <2>5
<1> QED  BY <1>2, <1>3

\* setConfiguration() with its layout as a parameter.
Written(c, layout, size) ==
  [n \in 1..size |->
     IF \A f \in DOMAIN layout : n \notin layout[f] THEN UNWRITTEN
     ELSE FieldBytes(CHOOSE g \in DOMAIN layout : n \in layout[g],
                     c[CHOOSE g \in DOMAIN layout : n \in layout[g]],
                     Cardinality(layout[CHOOSE g \in DOMAIN layout : n \in layout[g]]))
            [n - First(layout[CHOOSE g \in DOMAIN layout : n \in layout[g]]) + 1]]

\* setConfiguration() of what getConfiguration() read from a payload of any packet type writes
\* the payload again, byte by byte, the power and the sync word included.
THEOREM SetOfGet ==
  ASSUME NEW payload \in Seq(Byte), HasConfigurationSize(payload)
  PROVE  setConfiguration(getConfiguration(payload)) = payload
<1>1. PICK c : c = getConfiguration(payload)
  OBVIOUS
<1>2. PICK x : x = payload[1]
  OBVIOUS
<1>3. x \in PacketTypes /\ c.packet_type = x
  BY <1>1, <1>2, TypeOfConfiguration
<1>4. PICK layout : layout = Layout(x)
  OBVIOUS
<1>5. PICK size : size = getConfigurationSize(x)
  OBVIOUS
<1>6. LayoutFits(layout, size)
  BY <1>3, <1>4, <1>5, LayoutsFit
<1>7. Len(payload) = size /\ size \in Nat
  BY <1>2, <1>5 DEF HasConfigurationSize
<1>8. c = [f \in DOMAIN layout |->
             FieldValue(f, [n \in 1..(Cardinality(layout[f])) |-> payload[First(layout[f]) + n - 1]])]
  BY <1>1, <1>2, <1>4, Zenon DEF getConfiguration
<1>9. PICK q : q = setConfiguration(c)
  OBVIOUS
<1>10. q = Written(c, layout, size)
  <2>1. q = Written(c, Layout(c.packet_type), getConfigurationSize(c.packet_type))
    BY <1>9, Zenon DEF setConfiguration, Written
  <2> QED  BY <2>1, <1>3, <1>4, <1>5, Zenon
<1>11. ASSUME NEW n \in 1..size PROVE q[n] = payload[n]
  <2>1. PICK f : f = CHOOSE g \in DOMAIN layout : n \in layout[g]
    OBVIOUS
  <2>2. ~(\A g \in DOMAIN layout : n \notin layout[g])
    BY <1>6 DEF LayoutFits
  <2>3. f \in DOMAIN layout /\ n \in layout[f]
    BY <2>1, <2>2, Zenon
  <2>4. q[n] = FieldBytes(f, c[f], Cardinality(layout[f]))[n - First(layout[f]) + 1]
    BY <1>10, <2>1, <2>2, Zenon DEF Written
  <2>5. HasSpan(layout, f, size)
    BY <1>6, <2>3 DEF LayoutFits
  <2>6. PICK from \in Nat, width \in 1..8 :
          layout[f] = (from + 1)..(from + width) /\ FieldFits(f, from, width, size)
    BY <2>5 DEF HasSpan
  <2>7. First(layout[f]) = from + 1 /\ Cardinality(layout[f]) = width
    BY <2>6, SpanIs
  <2>8. PICK bytes : bytes = [k \in 1..width |-> payload[from + 1 + k - 1]]
    OBVIOUS
  <2>9. c[f] = FieldValue(f, bytes)
    <3>1. c[f] = FieldValue(f, [k \in 1..(Cardinality(layout[f])) |-> payload[First(layout[f]) + k - 1]])
      BY <1>8, <2>3, Zenon
    <3>2. PICK r : r = layout[f]
      OBVIOUS
    <3>3. [k \in 1..(Cardinality(r)) |-> payload[First(r) + k - 1]] = bytes
      BY <2>7, <2>8, <3>2
    <3> QED  BY <3>1, <3>2, <3>3, Zenon
  <2>10. bytes \in Seq(Byte) /\ Len(bytes) = width /\ \A k \in 1..width : bytes[k] = payload[from + k]
    <3>1. width \in Nat /\ from + width <= size
      BY <2>6 DEF FieldFits
    <3>2. \A k \in 1..width : from + 1 + k - 1 = from + k /\ from + k \in 1..size
      BY <1>7, <3>1
    <3>3. \A k \in 1..width : payload[from + k] \in Byte
      BY <1>7, <3>2, ElementOfSeq
    <3>4. bytes = [k \in 1..width |-> payload[from + k]]
      BY <2>8, <3>2
    <3> QED  BY <3>1, <3>3, <3>4
  <2>11. FieldBytes(f, c[f], width) = bytes
    BY <2>6, <2>9, <2>10, FieldIsKept
  <2>12. PICK k : k = n - (from + 1) + 1
    OBVIOUS
  <2>13. k \in 1..width /\ from + k = n
    BY <1>7, <2>3, <2>6, <2>12
  <2>14. q[n] = bytes[k]
    BY <2>4, <2>7, <2>11, <2>12
  <2> QED  BY <2>10, <2>13, <2>14
<1>12. q = [n \in 1..size |-> q[n]]
  BY <1>10 DEF Written
<1>13. q \in Seq(Byte) /\ Len(q) = size
  <2>1. \A n \in 1..size : q[n] \in Byte
    BY <1>7, <1>11, ElementOfSeq
  <2> QED  BY <1>7, <1>12, <2>1
<1>14. q = payload
  BY <1>7, <1>11, <1>13, SeqEqual
<1> QED  BY <1>1, <1>9, <1>14

\* The bit rate of an FSK or MSK payload is a natural number: it is read from three bytes.
LEMMA RateIsNatural ==
  ASSUME NEW payload \in Seq(Byte), HasConfigurationSize(payload),
         payload[1] \in {FSK, MSK}
  PROVE  getConfiguration(payload).bit_rate_bps \in Nat
<1>1. PICK c : c = getConfiguration(payload)
  OBVIOUS
<1>2. PICK x : x = payload[1]
  OBVIOUS
<1>3. x \in PacketTypes
  BY <1>2, TypeOfConfiguration
<1>4. PICK layout : layout = Layout(x)
  OBVIOUS
<1>5. PICK f : f = "bit_rate_bps"
  OBVIOUS
<1>6. f \in DOMAIN layout /\ layout[f] = (7 + 0 + 1)..(7 + 0 + 3)
  <2>1. PICK block : block = Block(x)
    OBVIOUS
  <2>2. f \in DOMAIN block /\ block[f] = <<0, 3>>
    <3>1. CASE x = FSK
      <4>1. block = FskBlock
        BY <2>1, <3>1 DEF Block, LORA, FSK, MSK, BPSK
      <4> QED  BY <4>1, <1>5 DEF FskBlock
    <3>2. CASE x = MSK
      <4>1. block = MskBlock
        BY <2>1, <3>2 DEF Block, LORA, FSK, MSK, BPSK
      <4> QED  BY <4>1, <1>5 DEF MskBlock
    <3> QED  BY <1>2, <3>1, <3>2
  <2>3. f \notin DOMAIN Common
    BY <1>5 DEF Common
  <2>4. IsLaidOut(layout, Common, block)
    BY <1>4, <2>1, LaidOut, Zenon
  <2>5. f \in DOMAIN layout /\ layout[f] = (COMMON_SIZE + block[f][1] + 1)..(COMMON_SIZE + block[f][1] + block[f][2])
    BY <2>2, <2>3, <2>4 DEF IsLaidOut
  <2>6. block[f][1] = 0 /\ block[f][2] = 3
    BY <2>2
  <2> QED  BY <2>5, <2>6 DEF COMMON_SIZE
<1>7. First(layout[f]) = 7 + 1 /\ Cardinality(layout[f]) = 3
  <2>1. 7 \in Nat /\ 3 \in 1..8
    OBVIOUS
  <2>2. First((7 + 1)..(7 + 3)) = 7 + 1 /\ Cardinality((7 + 1)..(7 + 3)) = 3
    BY <2>1, SpanIs, Zenon
  <2>3. layout[f] = (7 + 1)..(7 + 3)
    BY <1>6
  <2> QED  BY <2>2, <2>3, Zenon
<1>8. PICK bytes : bytes = [k \in 1..3 |-> payload[7 + 1 + k - 1]]
  OBVIOUS
<1>9. c[f] = FieldValue(f, bytes)
  <2>0. c = [g \in DOMAIN layout |->
             FieldValue(g, [n \in 1..(Cardinality(layout[g])) |-> payload[First(layout[g]) + n - 1]])]
    BY <1>1, <1>2, <1>4, Zenon DEF getConfiguration
  <2>1. c[f] = FieldValue(f, [k \in 1..(Cardinality(layout[f])) |-> payload[First(layout[f]) + k - 1]])
    BY <2>0, <1>6, Zenon
  <2>2. PICK r : r = layout[f]
    OBVIOUS
  <2>3. [k \in 1..(Cardinality(r)) |-> payload[First(r) + k - 1]] = bytes
    BY <1>7, <1>8, <2>2
  <2> QED  BY <2>1, <2>2, <2>3, Zenon
<1>10. bytes \in Seq(Byte) /\ Len(bytes) = 3
  <2>1. Len(payload) \in Nat /\ Len(payload) >= 38
    BY <1>2 DEF HasConfigurationSize, getConfigurationSize, FSK, MSK, LORA, BPSK
  <2>2. \A k \in 1..3 : 7 + 1 + k - 1 \in 1..Len(payload)
    BY <2>1
  <2>3. \A k \in 1..3 : payload[7 + 1 + k - 1] \in Byte
    BY <2>2, ElementOfSeq
  <2> QED  BY <1>8, <2>3
<1>11. ReadLE(bytes) \in Nat
  BY <1>10, WriteOfRead
<1>12. FieldValue(f, bytes) = ReadLE(bytes)
  BY <1>5 DEF FieldValue
<1> QED  BY <1>1, <1>5, <1>9, <1>11, <1>12

\* A quotient times its divisor is not above the dividend.
LEMMA QuotientBelow ==
  ASSUME NEW n \in Nat, NEW r \in Nat \ {0}, NEW q \in Int, q = n \div r
  PROVE  r * q <= n
OBVIOUS

\* What a divisor too large for three bytes would give with the slowest bit rate.
LEMMA ProductAbove ==
  ASSUME NEW r \in Int, r >= 100, NEW q \in Int, q >= 16777216
  PROVE  r * q >= 1677721600
OBVIOUS

\* The divisor of every bit rate from 100 bit/s on fits in the three bytes of its register.
LEMMA DivisorFits ==
  ASSUME NEW rate \in Int, rate >= 100
  PROVE  (32 * 32000000) \div rate < 16777216
<1>1. PICK q : q = (32 * 32000000) \div rate
  OBVIOUS
<1>2. q \in Int
  BY <1>1
<1>3. q = 1024000000 \div rate
  BY <1>1
<1>4. ~(q >= 16777216)
  <2>1. rate \in Nat \ {0}
    OBVIOUS
  <2>2. PICK p : p = rate * q
    OBVIOUS
  <2>3. p <= 1024000000
    BY <2>1, <2>2, <1>2, <1>3, QuotientBelow
  <2>4. p \in Int
    BY <2>1, <2>2, <1>2
  <2>5. q >= 16777216 => p >= 1677721600
    BY <2>2, <1>2, ProductAbove
  <2> QED  BY <2>3, <2>4, <2>5
<1>5. q < 16777216
  BY <1>2, <1>4
<1> QED  BY <1>1, <1>5

\* isConfigurationValid() promises what the radio HAL demands: its assertions hold, the bit
\* rate fits in its register, and a single reception is not taken for an endless one.
THEOREM ValidIsProgrammable ==
  ASSUME NEW c, c.packet_type \in PacketTypes, isConfigurationValid(c),
         c.packet_type \in {FSK, MSK} => c.bit_rate_bps \in Nat
  PROVE  /\ AssertionsHold(c)
         /\ c.packet_type \in {FSK, MSK} => RateDivisor(c) < RADIX^3
         /\ c.packet_type \in {FSK, LORA} /\ c.rx_mode = 0 => ReceiveTimeout(c) # RX_CONTINUOUS
<1>1. /\ c.packet_type = LORA => isLoraValid(c)
      /\ c.packet_type = FSK => isFskValid(c)
      /\ c.packet_type = MSK => isMskValid(c)
      /\ c.packet_type = BPSK => isBpskValid(c)
  <2>1. LORA # FSK /\ LORA # MSK /\ LORA # BPSK /\ FSK # MSK /\ FSK # BPSK /\ MSK # BPSK
    BY DEF LORA, FSK, MSK, BPSK
  <2>2. CASE c.packet_type = LORA
    BY <2>1, <2>2, Zenon DEF isConfigurationValid
  <2>3. CASE c.packet_type = FSK
    BY <2>1, <2>3, Zenon DEF isConfigurationValid
  <2>4. CASE c.packet_type = MSK
    BY <2>1, <2>4, Zenon DEF isConfigurationValid
  <2>5. CASE c.packet_type = BPSK
    BY <2>1, <2>5, Zenon DEF isConfigurationValid
  <2> QED  BY <2>2, <2>3, <2>4, <2>5, Zenon DEF PacketTypes
<1>2. c.packet_type \in {FSK, MSK} => c.bit_rate_bps \in Int /\ c.bit_rate_bps >= 100
  <2>1. c.packet_type = FSK => c.bit_rate_bps >= 600
    BY <1>1 DEF isFskValid
  <2>2. c.packet_type = MSK => c.bit_rate_bps >= 100
    BY <1>1 DEF isMskValid
  <2> QED  BY <2>1, <2>2
<1>3. AssertionsHold(c)
  <2>1. c.packet_type = LORA => c.synchronization_word \in {5156, 13380}
    BY <1>1 DEF isLoraValid
  <2>2. c.packet_type = BPSK => c.bit_rate_bps \in {10240000, 1706666}
    BY <1>1 DEF isBpskValid
  <2>3. c.packet_type = FSK => c.bit_rate_bps > 0
    BY <1>2
  <2> QED  BY <2>1, <2>2, <2>3 DEF AssertionsHold
<1>4. c.packet_type \in {FSK, MSK} => RateDivisor(c) < RADIX^3
  BY <1>2, DivisorFits, Powers DEF RateDivisor
<1>5. c.packet_type \in {FSK, LORA} => isRxTimeoutValid(c)
  BY <1>1 DEF isFskValid, isLoraValid
<1>6. c.packet_type \in {FSK, LORA} /\ c.rx_mode = 0 => ReceiveTimeout(c) # RX_CONTINUOUS
  BY <1>5 DEF isRxTimeoutValid, ReceiveTimeout, RX_CONTINUOUS
<1> QED  BY <1>3, <1>4, <1>6

-----------------------------------------------------------------------------
(* The CRC. *)

(* The CRC stays one of 16 bits. *)
IsCrc(x) == x \in Nat /\ x < 65536

\* The sixteen bits of a CRC, in the words of ShiftByte.
LEMMA IsOf16 == \A x : x \in 0..(RADIX^2 - 1) <=> IsCrc(x)
BY Powers DEF IsCrc

\* A bit of sixteen that is toggled leaves sixteen bits.
LEMMA ToggledBy ==
  ASSUME NEW x, IsCrc(x), NEW y
  PROVE  /\ (y = IF (x \div 4096) % 2 = 1 THEN x - 4096 ELSE x + 4096) => IsCrc(y)
         /\ (y = IF (x \div 32) % 2 = 1 THEN x - 32 ELSE x + 32) => IsCrc(y)
         /\ (y = IF (x \div 1) % 2 = 1 THEN x - 1 ELSE x + 1) => IsCrc(y)
<1>1. (y = IF (x \div 4096) % 2 = 1 THEN x - 4096 ELSE x + 4096) => IsCrc(y)
  BY DEF IsCrc
<1>2. (y = IF (x \div 32) % 2 = 1 THEN x - 32 ELSE x + 32) => IsCrc(y)
  BY DEF IsCrc
<1>3. (y = IF (x \div 1) % 2 = 1 THEN x - 1 ELSE x + 1) => IsCrc(y)
  BY DEF IsCrc
<1> QED  BY <1>1, <1>2, <1>3

\* The polynomial leaves sixteen bits.
LEMMA ToggleStays ==
  ASSUME NEW x, IsCrc(x)
  PROVE  IsCrc(Toggle(x, 4096)) /\ IsCrc(Toggle(x, 32)) /\ IsCrc(Toggle(x, 1))
<1>1. PICK a : a = Toggle(x, 4096)
  OBVIOUS
<1>2. PICK b : b = Toggle(x, 32)
  OBVIOUS
<1>3. PICK c : c = Toggle(x, 1)
  OBVIOUS
<1>4. /\ a = IF (x \div 4096) % 2 = 1 THEN x - 4096 ELSE x + 4096
      /\ b = IF (x \div 32) % 2 = 1 THEN x - 32 ELSE x + 32
      /\ c = IF (x \div 1) % 2 = 1 THEN x - 1 ELSE x + 1
  BY <1>1, <1>2, <1>3 DEF Toggle
<1>5. IsCrc(a) /\ IsCrc(b) /\ IsCrc(c)
  BY <1>4, ToggledBy
<1> QED  BY <1>1, <1>2, <1>3, <1>5

\* Shifted by one, a CRC keeps sixteen bits.
LEMMA Doubled ==
  ASSUME NEW x, IsCrc(x)
  PROVE  IsCrc((x * 2) % 65536)
BY DEF IsCrc

\* A bit shifted in leaves a CRC of sixteen bits.
LEMMA ShiftInStays ==
  ASSUME NEW crc, IsCrc(crc), NEW bit
  PROVE  IsCrc(ShiftIn(crc, bit))
<1>1. PICK shifted : shifted = (crc * 2) % 65536
  OBVIOUS
<1>2. IsCrc(shifted)
  BY <1>1, Doubled
<1>3. PICK a : a = Toggle(shifted, 4096)
  OBVIOUS
<1>4. IsCrc(a)
  BY <1>2, <1>3, ToggleStays
<1>5. PICK b : b = Toggle(a, 32)
  OBVIOUS
<1>6. IsCrc(b)
  BY <1>4, <1>5, ToggleStays
<1>7. PICK p : p = Poly(shifted)
  OBVIOUS
<1>8. p = Toggle(b, 1)
  BY <1>3, <1>5, <1>7 DEF Poly
<1>9. IsCrc(p)
  BY <1>6, <1>8, ToggleStays
<1>10. ShiftIn(crc, bit) = shifted \/ ShiftIn(crc, bit) = p
  BY <1>1, <1>7 DEF ShiftIn
<1> QED  BY <1>2, <1>9, <1>10

(* A function over 0..size that is start at 0 and, at each n after, what Step makes of the *)
(* value before: it exists, and its values are CRCs. *)
\* A function over 0..size whose value at 0 is in T, and at each n one of T that follows
\* from that at n - 1, exists.
LEMMA ShiftByteStays ==
  ASSUME NEW t \in (0..(RADIX^2 - 1)) \X (0..(RADIX - 1)), IsCrc(t[1])
  PROVE  IsCrc(ShiftByte[t])
<1> DEFINE At(f, n) == IF n = 0 THEN t[1] ELSE ShiftIn(f[n - 1], (t[2] \div 2^(8 - n)) % 2)
           Good == {n \in Nat : n <= 8 =>
                      \E g : \A m \in 0..n : g[m] = At(g, m) /\ IsCrc(g[m])}
<1>1. ASSUME NEW n \in Nat, \A m \in 0..n - 1 : m \in Good, n <= 8
      PROVE  \E g : \A m \in 0..n : g[m] = At(g, m) /\ IsCrc(g[m])
  <2>1. CASE n = 0
    <3>1. PICK g : g = [m \in 0..0 |-> t[1]]
      OBVIOUS
    <3>2. \A m \in 0..0 : g[m] = At(g, m) /\ IsCrc(g[m])
      BY <3>1
    <3> QED  BY <3>2, <2>1
  <2>2. CASE n # 0
    <3>1. n - 1 \in 0..n - 1 /\ n - 1 <= 8 /\ n - 1 \in Nat
      BY <1>1, <2>2
    <3>2. n - 1 \in Good
      BY <3>1, <1>1
    <3>3. PICK g : \A m \in 0..n - 1 : g[m] = At(g, m) /\ IsCrc(g[m])
      BY <3>1, <3>2
    <3>4. PICK x : x = ShiftIn(g[n - 1], (t[2] \div 2^(8 - n)) % 2)
      OBVIOUS
    <3>5. IsCrc(x)
      BY <3>1, <3>3, <3>4, ShiftInStays
    <3>6. PICK h : h = [m \in 0..n |-> IF m = n THEN x ELSE g[m]]
      OBVIOUS
    <3>7. \A m \in 0..n - 1 : h[m] = g[m]
      BY <3>6
    <3>8. h[n] = At(h, n) /\ IsCrc(h[n])
      <4>1. h[n] = x /\ h[n - 1] = g[n - 1]
        BY <3>1, <3>6, <3>7
      <4> QED  BY <4>1, <3>4, <3>5, <2>2, Zenon
    <3>9. ASSUME NEW m \in 0..n - 1 PROVE h[m] = At(h, m) /\ IsCrc(h[m])
      <4>1. m # 0 => m - 1 \in 0..n - 1
        OBVIOUS
      <4>2. At(h, m) = At(g, m)
        BY <4>1, <3>7, Zenon
      <4> QED  BY <4>2, <3>3, <3>7
    <3>10. \A m \in 0..n : h[m] = At(h, m) /\ IsCrc(h[m])
      <4>1. \A m \in 0..n : m = n \/ m \in 0..n - 1
        OBVIOUS
      <4> QED  BY <4>1, <3>8, <3>9, Zenon
    <3> QED  BY <3>10
  <2> QED  BY <2>1, <2>2
<1>2. \A n \in Nat : (\A m \in 0..n - 1 : m \in Good) => n \in Good
  BY <1>1
<1>3. Nat \subseteq Good
  BY <1>2, EveryNatural
<1>4. 8 \in Good
  <2>1. 8 \in Nat
    OBVIOUS
  <2> HIDE DEF Good
  <2> QED  BY <1>3, <2>1, Zenon
<1>5. PICK g : \A m \in 0..8 : g[m] = At(g, m) /\ IsCrc(g[m])
  <2>1. 8 <= 8
    OBVIOUS
  <2> QED  BY <1>4, <2>1, Zenon
<1>6. PICK f : f = [m \in 0..8 |-> g[m]]
  OBVIOUS
<1>7. f = [n \in 0..8 |-> At(f, n)]
  <2>1. ASSUME NEW m \in 0..8 PROVE At(f, m) = g[m]
    <3>1. m # 0 => m - 1 \in 0..8
      OBVIOUS
    <3>2. m # 0 => f[m - 1] = g[m - 1]
      BY <3>1, <1>6
    <3>3. At(f, m) = At(g, m)
      BY <3>2, Zenon
    <3> QED  BY <3>3, <1>5
  <2> HIDE DEF At
  <2> QED  BY <2>1, <1>6
<1> DEFINE e == CHOOSE x : x = [n \in 0..8 |-> At(x, n)]
<1>8. e = [n \in 0..8 |-> At(e, n)]
  BY <1>7
<1>9. ShiftByte[t] = e[8]
  BY DEF ShiftByte
<1> HIDE DEF e
<1> DEFINE Typed == {n \in Nat : n <= 8 => IsCrc(e[n])}
<1>10. ASSUME NEW n \in Nat, \A m \in 0..n - 1 : m \in Typed, n <= 8 PROVE IsCrc(e[n])
  <2>1. e[n] = At(e, n)
    <3>1. n \in 0..8
      BY <1>10
    <3> HIDE DEF At
    <3> QED  BY <1>8, <3>1
  <2>2. CASE n = 0
    BY <2>1, <2>2
  <2>3. CASE n # 0
    <3>1. n - 1 \in 0..n - 1 /\ n - 1 <= 8
      BY <1>10, <2>3
    <3>2. IsCrc(e[n - 1])
      BY <3>1, <1>10
    <3> QED  BY <2>1, <2>3, <3>2, ShiftInStays
  <2> QED  BY <2>2, <2>3
<1>11. \A n \in Nat : (\A m \in 0..n - 1 : m \in Typed) => n \in Typed
  BY <1>10
<1>12. 8 \in Typed
  <2>1. Nat \subseteq Typed
    BY <1>11, EveryNatural
  <2> HIDE DEF Typed
  <2> QED  BY <2>1
<1> QED  BY <1>9, <1>12

\* A byte of the data leaves a CRC of sixteen bits.
LEMMA NextByteStays ==
  ASSUME NEW data \in Seq(Byte), NEW x, IsCrc(x), NEW n \in 1..Len(data)
  PROVE  IsCrc(ShiftByte[<<x, data[n]>>])
<1>1. data[n] \in 0..(RADIX - 1)
  BY RadixAssumption, ElementOfSeq DEF Byte
<1>2. x \in 0..(RADIX^2 - 1)
  BY IsOf16
<1>3. PICK t : t = <<x, data[n]>>
  OBVIOUS
<1>4. t \in (0..(RADIX^2 - 1)) \X (0..(RADIX - 1)) /\ t[1] = x
  BY <1>1, <1>2, <1>3
<1> QED  BY <1>3, <1>4, ShiftByteStays

\* Sixteen bytes of the data, or what there is of them, leave a CRC of sixteen bits.
LEMMA StrideStays ==
  ASSUME NEW data \in Seq(Byte),
         NEW t \in (0..(RADIX^2 - 1)) \X (0..Len(data)), IsCrc(t[1])
  PROVE  IsCrc(ShiftStride(data)[t])
<1> DEFINE RowStep(x, n) == IF 16 * t[2] + n > Len(data) THEN x
                            ELSE ShiftByte[<<x, data[16 * t[2] + n]>>]
<1>s. ASSUME NEW x, IsCrc(x), NEW n \in Nat, n # 0 PROVE IsCrc(RowStep(x, n))
  <2>1. CASE 16 * t[2] + n > Len(data)
    BY <1>s, <2>1
  <2>2. CASE ~(16 * t[2] + n > Len(data))
    <3>1. PICK k : k = 16 * t[2] + n
      OBVIOUS
    <3>2. t[2] \in Nat /\ Len(data) \in Nat
      OBVIOUS
    <3>3. k \in 1..Len(data)
      BY <3>1, <3>2, <2>2, <1>s
    <3>4. IsCrc(ShiftByte[<<x, data[k]>>])
      BY <3>3, <1>s, NextByteStays
    <3> QED  BY <3>1, <3>4, <2>2, Zenon
  <2> QED  BY <2>1, <2>2, Zenon
<1> DEFINE At(f, n) == IF n = 0 THEN t[1] ELSE RowStep(f[n - 1], n)
           Good == {n \in Nat : n <= 16 =>
                      \E g : \A m \in 0..n : g[m] = At(g, m) /\ IsCrc(g[m])}
<1>1. ASSUME NEW n \in Nat, \A m \in 0..n - 1 : m \in Good, n <= 16
      PROVE  \E g : \A m \in 0..n : g[m] = At(g, m) /\ IsCrc(g[m])
  <2>1. CASE n = 0
    <3>1. PICK g : g = [m \in 0..0 |-> t[1]]
      OBVIOUS
    <3>2. \A m \in 0..0 : g[m] = At(g, m) /\ IsCrc(g[m])
      BY <3>1
    <3> QED  BY <3>2, <2>1
  <2>2. CASE n # 0
    <3>1. n - 1 \in 0..n - 1 /\ n - 1 <= 16 /\ n - 1 \in Nat
      BY <1>1, <2>2
    <3>2. n - 1 \in Good
      BY <3>1, <1>1
    <3>3. PICK g : \A m \in 0..n - 1 : g[m] = At(g, m) /\ IsCrc(g[m])
      BY <3>1, <3>2
    <3>4. PICK x : x = RowStep(g[n - 1], n)
      OBVIOUS
    <3>5. IsCrc(x)
      BY <3>1, <3>3, <3>4, <2>2, <1>1, <1>s
    <3>6. PICK h : h = [m \in 0..n |-> IF m = n THEN x ELSE g[m]]
      OBVIOUS
    <3>7. \A m \in 0..n - 1 : h[m] = g[m]
      BY <3>6
    <3>8. h[n] = At(h, n) /\ IsCrc(h[n])
      <4>1. h[n] = x /\ h[n - 1] = g[n - 1]
        BY <3>1, <3>6, <3>7
      <4> QED  BY <4>1, <3>4, <3>5, <2>2, Zenon
    <3>9. ASSUME NEW m \in 0..n - 1 PROVE h[m] = At(h, m) /\ IsCrc(h[m])
      <4>1. m # 0 => m - 1 \in 0..n - 1
        OBVIOUS
      <4>2. At(h, m) = At(g, m)
        BY <4>1, <3>7, Zenon
      <4> QED  BY <4>2, <3>3, <3>7
    <3>10. \A m \in 0..n : h[m] = At(h, m) /\ IsCrc(h[m])
      <4>1. \A m \in 0..n : m = n \/ m \in 0..n - 1
        OBVIOUS
      <4> QED  BY <4>1, <3>8, <3>9, Zenon
    <3> QED  BY <3>10
  <2> QED  BY <2>1, <2>2
<1>2. \A n \in Nat : (\A m \in 0..n - 1 : m \in Good) => n \in Good
  BY <1>1
<1>3. Nat \subseteq Good
  BY <1>2, EveryNatural
<1>4. 16 \in Good
  <2>1. 16 \in Nat
    OBVIOUS
  <2> HIDE DEF Good
  <2> QED  BY <1>3, <2>1, Zenon
<1>5. PICK g : \A m \in 0..16 : g[m] = At(g, m) /\ IsCrc(g[m])
  <2>1. 16 <= 16
    OBVIOUS
  <2> QED  BY <1>4, <2>1, Zenon
<1>6. PICK f : f = [m \in 0..16 |-> g[m]]
  OBVIOUS
<1>7. f = [n \in 0..16 |-> At(f, n)]
  <2>1. ASSUME NEW m \in 0..16 PROVE At(f, m) = g[m]
    <3>1. m # 0 => m - 1 \in 0..16
      OBVIOUS
    <3>2. m # 0 => f[m - 1] = g[m - 1]
      BY <3>1, <1>6
    <3>3. At(f, m) = At(g, m)
      BY <3>2, Zenon
    <3> QED  BY <3>3, <1>5
  <2> HIDE DEF At
  <2> QED  BY <2>1, <1>6
<1> DEFINE e == CHOOSE x : x = [n \in 0..16 |-> At(x, n)]
<1>8. e = [n \in 0..16 |-> At(e, n)]
  BY <1>7
<1>9. ShiftStride(data)[t] = e[16]
  BY DEF ShiftStride
<1> HIDE DEF e
<1> DEFINE Typed == {n \in Nat : n <= 16 => IsCrc(e[n])}
<1>10. ASSUME NEW n \in Nat, \A m \in 0..n - 1 : m \in Typed, n <= 16 PROVE IsCrc(e[n])
  <2>1. e[n] = At(e, n)
    <3>1. n \in 0..16
      BY <1>10
    <3> HIDE DEF At
    <3> QED  BY <1>8, <3>1
  <2>2. CASE n = 0
    BY <2>1, <2>2
  <2>3. CASE n # 0
    <3>1. n - 1 \in 0..n - 1 /\ n - 1 <= 16
      BY <1>10, <2>3
    <3>2. IsCrc(e[n - 1])
      BY <3>1, <1>10
    <3> QED  BY <2>1, <2>3, <3>2, <1>s
  <2> QED  BY <2>2, <2>3
<1>11. \A n \in Nat : (\A m \in 0..n - 1 : m \in Typed) => n \in Typed
  BY <1>10
<1>12. 16 \in Typed
  <2>1. Nat \subseteq Typed
    BY <1>11, EveryNatural
  <2> HIDE DEF Typed
  <2> QED  BY <2>1
<1> QED  BY <1>9, <1>12

\* EMF_crc_16CCITT() of any bytes has sixteen bits.
LEMMA CrcIsCrc ==
  ASSUME NEW data \in Seq(Byte)
  PROVE  IsCrc(Crc(data))
<1> DEFINE len == Len(data) \div 16 + 1
<1>0. len \in Nat /\ IsCrc(0)
  BY DEF IsCrc
<1>s. ASSUME NEW x, IsCrc(x), NEW n \in 1..len PROVE IsCrc(ShiftStride(data)[<<x, n - 1>>])
  <2>1. n - 1 \in 0..Len(data)
    BY <1>0
  <2>2. x \in 0..(RADIX^2 - 1)
    BY <1>s, IsOf16
  <2>3. PICK t : t = <<x, n - 1>>
    OBVIOUS
  <2>4. t \in (0..(RADIX^2 - 1)) \X (0..Len(data)) /\ t[1] = x
    BY <2>1, <2>2, <2>3
  <2> QED  BY <2>3, <2>4, <1>s, StrideStays
<1> HIDE DEF len
<1> DEFINE At(f, n) == IF n = 0 THEN 0 ELSE ShiftStride(data)[<<f[n - 1], n - 1>>]
           Good == {n \in Nat : n <= len =>
                      \E g : \A m \in 0..n : g[m] = At(g, m) /\ IsCrc(g[m])}
<1>1. ASSUME NEW n \in Nat, \A m \in 0..n - 1 : m \in Good, n <= len
      PROVE  \E g : \A m \in 0..n : g[m] = At(g, m) /\ IsCrc(g[m])
  <2>1. CASE n = 0
    <3>1. PICK g : g = [m \in 0..0 |-> 0]
      OBVIOUS
    <3>2. \A m \in 0..0 : g[m] = At(g, m) /\ IsCrc(g[m])
      BY <3>1, <1>0
    <3> QED  BY <3>2, <2>1
  <2>2. CASE n # 0
    <3>1. n - 1 \in 0..n - 1 /\ n - 1 <= len /\ n - 1 \in Nat
      BY <1>0, <1>1, <2>2
    <3>2. n - 1 \in Good
      BY <3>1, <1>1
    <3>3. PICK g : \A m \in 0..n - 1 : g[m] = At(g, m) /\ IsCrc(g[m])
      BY <3>1, <3>2
    <3>4. PICK x : x = ShiftStride(data)[<<g[n - 1], n - 1>>]
      OBVIOUS
    <3>5. IsCrc(x)
      <4>1. n \in 1..len
        BY <1>0, <1>1, <2>2
      <4>2. IsCrc(g[n - 1])
        BY <3>1, <3>3, Zenon
      <4> QED  BY <4>1, <4>2, <3>4, <1>s, Zenon
    <3>6. PICK h : h = [m \in 0..n |-> IF m = n THEN x ELSE g[m]]
      OBVIOUS
    <3>7. \A m \in 0..n - 1 : h[m] = g[m]
      BY <3>6
    <3>8. h[n] = At(h, n) /\ IsCrc(h[n])
      <4>1. h[n] = x /\ h[n - 1] = g[n - 1]
        BY <3>1, <3>6, <3>7
      <4> QED  BY <4>1, <3>4, <3>5, <2>2, Zenon
    <3>9. ASSUME NEW m \in 0..n - 1 PROVE h[m] = At(h, m) /\ IsCrc(h[m])
      <4>1. m # 0 => m - 1 \in 0..n - 1
        OBVIOUS
      <4>2. At(h, m) = At(g, m)
        BY <4>1, <3>7, Zenon
      <4> QED  BY <4>2, <3>3, <3>7
    <3>10. \A m \in 0..n : h[m] = At(h, m) /\ IsCrc(h[m])
      <4>1. \A m \in 0..n : m = n \/ m \in 0..n - 1
        OBVIOUS
      <4> QED  BY <4>1, <3>8, <3>9, Zenon
    <3> QED  BY <3>10
  <2> QED  BY <1>0, <2>1, <2>2
<1>2. \A n \in Nat : (\A m \in 0..n - 1 : m \in Good) => n \in Good
  BY <1>1
<1>3. Nat \subseteq Good
  BY <1>2, EveryNatural
<1>4. len \in Good
  <2>1. len \in Nat
    BY <1>0
  <2> HIDE DEF Good
  <2> QED  BY <1>3, <2>1, Zenon
<1>5. PICK g : \A m \in 0..len : g[m] = At(g, m) /\ IsCrc(g[m])
  <2>1. len <= len
    BY <1>0
  <2> QED  BY <1>4, <2>1, Zenon
<1>6. PICK f : f = [m \in 0..len |-> g[m]]
  OBVIOUS
<1>7. f = [n \in 0..len |-> At(f, n)]
  <2>1. ASSUME NEW m \in 0..len PROVE At(f, m) = g[m]
    <3>1. m # 0 => m - 1 \in 0..len
      BY <1>0
    <3>2. m # 0 => f[m - 1] = g[m - 1]
      BY <3>1, <1>6
    <3>3. At(f, m) = At(g, m)
      BY <3>2, Zenon
    <3> QED  BY <3>3, <1>5
  <2> HIDE DEF At
  <2> QED  BY <2>1, <1>6
<1> DEFINE e == CHOOSE x : x = [n \in 0..len |-> At(x, n)]
<1>8. e = [n \in 0..len |-> At(e, n)]
  BY <1>7
<1>9. Crc(data) = e[len]
  BY DEF Crc, len
<1> HIDE DEF e
<1> DEFINE Typed == {n \in Nat : n <= len => IsCrc(e[n])}
<1>10. ASSUME NEW n \in Nat, \A m \in 0..n - 1 : m \in Typed, n <= len PROVE IsCrc(e[n])
  <2>1. e[n] = At(e, n)
    <3>1. n \in 0..len
      BY <1>10
    <3> HIDE DEF At
    <3> QED  BY <1>8, <3>1
  <2>2. CASE n = 0
    BY <1>0, <2>1, <2>2
  <2>3. CASE n # 0
    <3>1. n - 1 \in 0..n - 1 /\ n - 1 <= len
      BY <1>0, <1>10, <2>3
    <3>2. IsCrc(e[n - 1])
      BY <3>1, <1>10
    <3>3. n \in 1..len
      BY <1>0, <1>10, <2>3
    <3>4. IsCrc(ShiftStride(data)[<<e[n - 1], n - 1>>])
      BY <3>2, <3>3, <1>s, Zenon
    <3> QED  BY <2>1, <2>3, <3>4, Zenon
  <2> QED  BY <2>2, <2>3
<1>11. \A n \in Nat : (\A m \in 0..n - 1 : m \in Typed) => n \in Typed
  BY <1>10
<1>12. len \in Typed
  <2>1. Nat \subseteq Typed
    BY <1>11, EveryNatural
  <2> HIDE DEF Typed
  <2> QED  BY <2>1, <1>0
<1>13. IsCrc(e[len])
  <2>1. len <= len
    BY <1>0
  <2> QED  BY <2>1, <1>12, Zenon
<1> QED  BY <1>9, <1>13

(* The ring of the TX FIFO. *)
IsRing(f) ==
  /\ f = [storage |-> f.storage, size |-> f.size, head |-> f.head, tail |-> f.tail, used |-> f.used]
  /\ f.size \in Nat \ {0}
  /\ f.head \in 0..(f.size - 1) /\ f.tail \in 0..(f.size - 1) /\ f.used \in 0..f.size
  /\ DOMAIN f.storage = 0..(f.size - 1) /\ f.storage = [i \in 0..(f.size - 1) |-> f.storage[i]]
  /\ f.head = IF f.tail + f.used >= f.size THEN f.tail + f.used - f.size ELSE f.tail + f.used

\* What is queued.
Contents(f) == Peek(f, f.used)

\* An index brought back onto the ring.
Wrapped(size, n) == IF n >= size THEN n - size ELSE n

\* An index less than two rounds on is brought back by one round.
LEMMA WrapsOnce ==
  ASSUME NEW size \in Nat \ {0}, NEW n \in Nat, n < 2 * size
  PROVE  n % size = Wrapped(size, n)
BY DEF Wrapped

\* advanceIndex() stays on the ring.
LEMMA AdvancesAround ==
  ASSUME NEW f, f.size \in Nat \ {0}, NEW index \in 0..(f.size - 1), NEW offset \in 0..f.size
  PROVE  /\ advanceIndex(f, index, offset) = Wrapped(f.size, index + offset)
         /\ Wrapped(f.size, index + offset) \in 0..(f.size - 1)
<1>1. PICK size : size = f.size
  OBVIOUS
<1>2. PICK n : n = index + offset
  OBVIOUS
<1>3. size \in Nat \ {0} /\ n \in Nat /\ n < 2 * size
  BY <1>1, <1>2
<1>4. n % size = Wrapped(size, n)
  BY <1>3, WrapsOnce
<1>5. n >= size => n % size = Wrapped(size, n)
  BY <1>4
<1>6. ~(n >= size) => n = Wrapped(size, n)
  BY DEF Wrapped
<1>7. advanceIndex(f, index, offset) = IF n >= size THEN n % size ELSE n
  BY <1>1, <1>2 DEF advanceIndex
<1>8. Wrapped(size, n) \in 0..(size - 1)
  BY <1>3 DEF Wrapped
<1> QED  BY <1>1, <1>2, <1>5, <1>6, <1>7, <1>8

\* What is queued lies from the tail on, around the end of the storage.
LEMMA ContentsAre ==
  ASSUME NEW f, IsRing(f)
  PROVE  Contents(f) = [i \in 1..f.used |-> f.storage[Wrapped(f.size, f.tail + (i - 1))]]
<1>1. advanceIndex(f, f.tail, 0) = f.tail
  BY DEF IsRing, advanceIndex
<1>2. \A i \in 1..f.used : advanceIndex(f, f.tail, i - 1) = Wrapped(f.size, f.tail + (i - 1))
  <2> TAKE i \in 1..f.used
  <2>1. f.size \in Nat \ {0} /\ f.tail \in 0..(f.size - 1) /\ i - 1 \in 0..f.size
    BY DEF IsRing
  <2> QED  BY <2>1, AdvancesAround
<1>3. Contents(f) = [i \in 1..f.used |-> f.storage[advanceIndex(f, f.tail, i - 1)]]
  BY <1>1 DEF Contents, Peek, PeekAt, readBytes
<1> QED  BY <1>2, <1>3

\* The length of what is queued, and each byte of it.
LEMMA ContentsAt ==
  ASSUME NEW f, IsRing(f)
  PROVE  /\ Len(Contents(f)) = f.used /\ DOMAIN Contents(f) = 1..f.used
         /\ \A i \in 1..f.used : Contents(f)[i] = f.storage[Wrapped(f.size, f.tail + (i - 1))]
<1>1. f.used \in Nat
  BY DEF IsRing
<1>2. Contents(f) = [i \in 1..f.used |-> f.storage[Wrapped(f.size, f.tail + (i - 1))]]
  BY ContentsAre
<1> HIDE DEF Contents
<1> QED  BY <1>1, <1>2

\* EMF_byteFifo_push() of what fits keeps the ring and queues the bytes behind all others.
LEMMA RingPushed ==
  ASSUME NEW f, IsRing(f), NEW T, NEW data \in Seq(T), CanPush(f, data)
  PROVE  /\ IsRing(Push(f, data)) /\ Push(f, data).size = f.size
         /\ Push(f, data).used = f.used + Len(data)
         /\ \A k \in 1..(f.used + Len(data)) :
              Contents(Push(f, data))[k] = IF k <= f.used THEN Contents(f)[k] ELSE data[k - f.used]
<1>1. PICK size, head, tail, used, storage :
        /\ size = f.size /\ head = f.head /\ tail = f.tail /\ used = f.used /\ storage = f.storage
  OBVIOUS
<1>2. PICK len : len = Len(data)
  OBVIOUS
<1>3. /\ size \in Nat \ {0} /\ head \in 0..(size - 1) /\ tail \in 0..(size - 1) /\ used \in 0..size
      /\ head = Wrapped(size, tail + used) /\ DOMAIN storage = 0..(size - 1)
  BY <1>1 DEF IsRing, Wrapped
<1>4. len \in Nat /\ used + len <= size
  BY <1>1, <1>2, <1>3 DEF CanPush, getFree
<1>5. PICK h : h = advanceIndex(f, f.head, len)
  OBVIOUS
<1>6. h = Wrapped(size, head + len) /\ h \in 0..(size - 1)
  <2>1. f.size \in Nat \ {0} /\ head \in 0..(f.size - 1) /\ len \in 0..f.size
    BY <1>1, <1>3, <1>4
  <2>2. /\ advanceIndex(f, head, len) = Wrapped(f.size, head + len)
        /\ Wrapped(f.size, head + len) \in 0..(f.size - 1)
    BY <2>1, AdvancesAround
  <2> QED  BY <2>2, <1>1, <1>5
<1>7. PICK s : s = writeBytes(f, f.head, data)
  OBVIOUS
<1>8. s = [i \in 0..(size - 1) |->
              IF ((i - head + size) % size) + 1 <= len THEN data[((i - head + size) % size) + 1] ELSE storage[i]]
  BY <1>1, <1>2, <1>3, <1>7 DEF writeBytes
<1>9. PICK g : g = Push(f, data)
  OBVIOUS
<1>10. g = [storage |-> s, size |-> size, head |-> h, tail |-> tail, used |-> used + len]
  <2>1. f = [storage |-> storage, size |-> size, head |-> head, tail |-> tail, used |-> used]
    BY <1>1 DEF IsRing
  <2>2. g = [f EXCEPT !.storage = s, !.head = h, !.used = @ + len]
    BY <1>2, <1>5, <1>7, <1>9 DEF Push
  <2> QED  BY <2>1, <2>2
<1>11. g.storage = s /\ g.size = size /\ g.head = h /\ g.tail = tail /\ g.used = used + len
  BY <1>10
<1>12. IsRing(g)
  <2>1. used + len \in 0..size
    BY <1>3, <1>4
  <2>2. h = IF tail + (used + len) >= size THEN tail + (used + len) - size ELSE tail + (used + len)
    BY <1>3, <1>4, <1>6 DEF Wrapped
  <2>3. DOMAIN s = 0..(size - 1) /\ s = [i \in 0..(size - 1) |-> s[i]]
    BY <1>8
  <2> QED  BY <1>3, <1>6, <1>10, <1>11, <2>1, <2>2, <2>3 DEF IsRing
<1>13. ASSUME NEW k \in 1..(used + len)
       PROVE  Contents(g)[k] = IF k <= used THEN Contents(f)[k] ELSE data[k - used]
  <2>1. PICK slot : slot = Wrapped(size, tail + (k - 1))
    OBVIOUS
  <2>2. slot \in 0..(size - 1)
    BY <1>3, <1>4, <2>1 DEF Wrapped
  <2>3. Contents(g)[k] = s[slot]
    BY <1>11, <1>12, <2>1, ContentsAt
  <2>4. PICK m : m = ((slot - head + size) % size) + 1
    OBVIOUS
  <2>5. m = Wrapped(size, slot - head + size) + 1
    <3>1. PICK n : n = slot - head + size
      OBVIOUS
    <3>2. n \in Nat /\ n < 2 * size
      BY <1>3, <2>2, <3>1
    <3> QED  BY <1>3, <2>4, <3>1, <3>2, WrapsOnce
  <2>6. s[slot] = IF m <= len THEN data[m] ELSE storage[slot]
    BY <1>8, <2>2, <2>4
  <2>7. (k <= used => m > len) /\ (k > used => m = k - used)
    BY <1>3, <1>4, <2>1, <2>5 DEF Wrapped
  <2>8. CASE k <= used
    <3>1. Contents(f)[k] = storage[slot]
      <4>1. k \in 1..f.used
        BY <1>1, <1>3, <2>8
      <4> QED  BY <4>1, <1>1, <2>1, ContentsAt
    <3>2. ~(m <= len)
      <4>1. m \in Int
        BY <1>3, <2>2, <2>5 DEF Wrapped
      <4> QED  BY <1>4, <2>7, <2>8, <4>1
    <3> QED  BY <2>3, <2>6, <2>8, <3>1, <3>2
  <2>9. CASE ~(k <= used)
    <3>1. m = k - used /\ m <= len
      BY <1>3, <1>4, <2>7, <2>9
    <3> QED  BY <2>3, <2>6, <2>9, <3>1
  <2> QED  BY <2>8, <2>9
<1> QED  BY <1>1, <1>2, <1>9, <1>11, <1>12, <1>13

\* EMF_byteFifo_drop() keeps the ring and takes the bytes at its front, and no other.
LEMMA RingDropped ==
  ASSUME NEW f, IsRing(f), NEW n \in 0..f.used
  PROVE  /\ IsRing(Drop(f, n)) /\ Drop(f, n).size = f.size
         /\ Drop(f, n).used = f.used - n
         /\ \A k \in 1..(f.used - n) : Contents(Drop(f, n))[k] = Contents(f)[n + k]
<1>1. PICK size, head, tail, used, storage :
        /\ size = f.size /\ head = f.head /\ tail = f.tail /\ used = f.used /\ storage = f.storage
  OBVIOUS
<1>3. /\ size \in Nat \ {0} /\ head \in 0..(size - 1) /\ tail \in 0..(size - 1) /\ used \in 0..size
      /\ head = Wrapped(size, tail + used) /\ DOMAIN storage = 0..(size - 1)
      /\ storage = [i \in 0..(size - 1) |-> storage[i]]
  BY <1>1 DEF IsRing, Wrapped
<1>4. n \in 0..size /\ n <= used /\ n \in Nat
  BY <1>1, <1>3
<1>5. PICK t : t = advanceIndex(f, f.tail, n)
  OBVIOUS
<1>6. t = Wrapped(size, tail + n) /\ t \in 0..(size - 1)
  <2>1. f.size \in Nat \ {0} /\ tail \in 0..(f.size - 1) /\ n \in 0..f.size
    BY <1>1, <1>3, <1>4
  <2>2. /\ advanceIndex(f, tail, n) = Wrapped(f.size, tail + n)
        /\ Wrapped(f.size, tail + n) \in 0..(f.size - 1)
    BY <2>1, AdvancesAround
  <2> QED  BY <2>2, <1>1, <1>5
<1>9. PICK g : g = Drop(f, n)
  OBVIOUS
<1>10. g = [storage |-> storage, size |-> size, head |-> head, tail |-> t, used |-> used - n]
  <2>1. f = [storage |-> storage, size |-> size, head |-> head, tail |-> tail, used |-> used]
    BY <1>1 DEF IsRing
  <2>2. g = [f EXCEPT !.tail = t, !.used = @ - n]
    BY <1>5, <1>9 DEF Drop
  <2> QED  BY <2>1, <2>2
<1>11. g.storage = storage /\ g.size = size /\ g.head = head /\ g.tail = t /\ g.used = used - n
  BY <1>10
<1>12. IsRing(g)
  <2>1. used - n \in 0..size
    BY <1>3, <1>4
  <2>2. head = IF t + (used - n) >= size THEN t + (used - n) - size ELSE t + (used - n)
    BY <1>3, <1>4, <1>6 DEF Wrapped
  <2> QED  BY <1>3, <1>6, <1>10, <1>11, <2>1, <2>2 DEF IsRing
<1>13. ASSUME NEW k \in 1..(used - n)
       PROVE  Contents(g)[k] = Contents(f)[n + k]
  <2>1. Wrapped(size, t + (k - 1)) = Wrapped(size, tail + (n + k - 1))
    BY <1>3, <1>4, <1>6 DEF Wrapped
  <2>2. Contents(g)[k] = storage[Wrapped(size, t + (k - 1))]
    BY <1>11, <1>12, ContentsAt
  <2>3. n + k \in 1..f.used
    BY <1>1, <1>3, <1>4
  <2>4. Contents(f)[n + k] = storage[Wrapped(size, tail + (n + k - 1))]
    BY <1>1, <2>3, ContentsAt
  <2> QED  BY <2>1, <2>2, <2>4
<1> QED  BY <1>1, <1>9, <1>11, <1>12, <1>13

\* EMF_byteFifo_init() makes a ring that is empty.
LEMMA RingStarts ==
  ASSUME NEW size \in Nat \ {0}, NEW filler
  PROVE  IsRing(NewFifo(size, filler)) /\ NewFifo(size, filler).size = size
         /\ NewFifo(size, filler).used = 0
BY DEF NewFifo, IsRing

(* The answers that lie in the ring, one behind the other. *)
Answer(d) == Encode(FrameOf(d[1], d[2]))

LiesAt(q, from, w) == \A k \in 1..Len(w) : q[from + k] = w[k]

\* One answer between two cuts of the queue.
IsPart(cut, q, size, owed, i) ==
  /\ cut[i - 1] \in Nat /\ cut[i] = cut[i - 1] + Len(Answer(owed[i])) /\ cut[i] <= size
  /\ LiesAt(q, cut[i - 1], Answer(owed[i]))

\* Cuts of the queue between the answers.
IsCut(cut, q, size, owed) ==
  /\ DOMAIN cut = 0..Len(owed)
  /\ cut[0] = 0 /\ cut[Len(owed)] = size
  /\ \A i \in 1..Len(owed) : IsPart(cut, q, size, owed, i)

\* The queue is the answers that are owed.
Carries(f, owed) == \E cut : IsCut(cut, Contents(f), f.used, owed)

\* An empty ring carries no answer.
LEMMA NothingIsCarried ==
  ASSUME NEW f, f.used = 0
  PROVE  Carries(f, <<>>)
<1>1. PICK cut : cut = [i \in 0..0 |-> 0]
  OBVIOUS
<1>2. IsCut(cut, Contents(f), 0, <<>>)
  BY <1>1 DEF IsCut
<1> QED  BY <1>2 DEF Carries

\* A ring that is empty has no answer left to carry: each is of at least two bytes.
LEMMA EmptyCarriesNothing ==
  ASSUME NEW f, f.used = 0, NEW owed \in Seq(Nat \X Seq(Byte)), Carries(f, owed),
         \A i \in 1..Len(owed) : Delimited(Byte, Answer(owed[i]))
  PROVE  owed = <<>>
<1>1. PICK cut : IsCut(cut, Contents(f), 0, owed)
  BY DEF Carries
<1>2. ASSUME Len(owed) # 0 PROVE FALSE
  <2>1. 1 \in 1..Len(owed)
    BY <1>2
  <2>2. PICK a : a = Len(Answer(owed[1]))
    OBVIOUS
  <2>3. a \in Nat /\ a >= 2
    BY <2>1, <2>2 DEF Delimited
  <2>4. cut[0] = 0 /\ cut[1] = cut[1 - 1] + a /\ cut[1] <= 0
    BY <1>1, <2>1, <2>2 DEF IsCut, IsPart
  <2> QED  BY <2>3, <2>4
<1> QED  BY <1>2, EmptySeq

\* A ring that carries some answers carries one more once it is pushed.
LEMMA AnswerIsPushed ==
  ASSUME NEW f, IsRing(f), NEW owed \in Seq(Nat \X Seq(Byte)), Carries(f, owed),
         NEW d \in Nat \X Seq(Byte), NEW T, Answer(d) \in Seq(T), CanPush(f, Answer(d))
  PROVE  Carries(Push(f, Answer(d)), Append(owed, d))
<1>1. PICK w : w = Answer(d)
  OBVIOUS
<1>2. PICK g : g = Push(f, w)
  OBVIOUS
<1>3. PICK m : m = Len(owed)
  OBVIOUS
<1>4. m \in Nat
  BY <1>3
<1>5. PICK size : size = f.used
  OBVIOUS
<1>6. size \in Nat /\ Len(w) \in Nat
  BY <1>1, <1>5 DEF IsRing
<1>7. /\ g.used = size + Len(w)
      /\ \A k \in 1..(size + Len(w)) : Contents(g)[k] = IF k <= size THEN Contents(f)[k] ELSE w[k - size]
  BY <1>1, <1>2, <1>5, RingPushed
<1>8. PICK after : after = Append(owed, d)
  OBVIOUS
<1>9. /\ Len(after) = m + 1 /\ after[m + 1] = d
      /\ \A i \in 1..m : after[i] = owed[i]
  BY <1>3, <1>8
<1>10. PICK cut : IsCut(cut, Contents(f), size, owed)
  BY <1>5 DEF Carries
<1>11. /\ cut[0] = 0 /\ cut[m] = size
       /\ \A i \in 1..m :
            /\ cut[i - 1] \in Nat /\ cut[i] = cut[i - 1] + Len(Answer(owed[i])) /\ cut[i] <= size
            /\ LiesAt(Contents(f), cut[i - 1], Answer(owed[i]))
  BY <1>3, <1>10 DEF IsCut, IsPart
<1>12. PICK c : c = [i \in 0..(m + 1) |-> IF i = m + 1 THEN size + Len(w) ELSE cut[i]]
  OBVIOUS
<1>13. /\ DOMAIN c = 0..(m + 1) /\ c[0] = 0 /\ c[m + 1] = size + Len(w) /\ c[m] = size
       /\ \A i \in 0..m : c[i] = cut[i]
  BY <1>4, <1>11, <1>12
<1>14. ASSUME NEW i, i = m + 1 PROVE IsPart(c, Contents(g), size + Len(w), after, i)
  <2>1. i - 1 = m
    BY <1>4, <1>14
  <2>2. Answer(after[i]) = w
    BY <1>1, <1>9, <1>14
  <2>3. LiesAt(Contents(g), size, w)
    <3> SUFFICES ASSUME NEW k \in 1..Len(w) PROVE Contents(g)[size + k] = w[k]
      BY DEF LiesAt
    <3>1. PICK j : j = size + k
      OBVIOUS
    <3>2. j \in 1..(size + Len(w)) /\ ~(j <= size) /\ j - size = k
      BY <1>6, <3>1
    <3>3. Contents(g)[j] = w[j - size]
      BY <1>7, <3>2, Zenon
    <3> QED  BY <3>1, <3>2, <3>3
  <2>4. c[i - 1] = size /\ c[i] = size + Len(w)
    BY <1>13, <1>14, <2>1
  <2>5. size + Len(w) <= size + Len(w)
    BY <1>6
  <2>6. c[i - 1] \in Nat
    BY <1>6, <2>4
  <2>7. c[i] = c[i - 1] + Len(Answer(after[i]))
    BY <2>2, <2>4
  <2>8. c[i] <= size + Len(w)
    BY <2>4, <2>5
  <2>9. LiesAt(Contents(g), c[i - 1], Answer(after[i]))
    BY <2>2, <2>3, <2>4
  <2> QED  BY <2>6, <2>7, <2>8, <2>9 DEF IsPart
<1>15. ASSUME NEW i \in 1..m
       PROVE  IsPart(c, Contents(g), size + Len(w), after, i)
  <2>1. i - 1 \in 0..m /\ i \in 0..m
    BY <1>4
  <2>2. c[i - 1] = cut[i - 1] /\ c[i] = cut[i] /\ after[i] = owed[i]
    BY <2>1, <1>9, <1>13
  <2>3. PICK v : v = Answer(owed[i])
    OBVIOUS
  <2>4. PICK from : from = cut[i - 1]
    OBVIOUS
  <2>5. from \in Nat /\ cut[i] = from + Len(v) /\ from + Len(v) <= size /\ LiesAt(Contents(f), from, v)
    BY <1>11, <2>3, <2>4
  <2>6. LiesAt(Contents(g), from, v)
    <3> SUFFICES ASSUME NEW k \in 1..Len(v) PROVE Contents(g)[from + k] = v[k]
      BY DEF LiesAt
    <3>1. Contents(f)[from + k] = v[k]
      BY <2>5 DEF LiesAt
    <3>2. from + k \in 1..(size + Len(w)) /\ from + k <= size
      <4>1. k \in Nat /\ k >= 1 /\ k <= Len(v)
        OBVIOUS
      <4>2. PICK l : l = Len(v)
        OBVIOUS
      <4>3. l \in Int \/ l \notin Int
        OBVIOUS
      <4> QED  BY <1>6, <2>5, <4>1
    <3> QED  BY <1>7, <3>1, <3>2
  <2>7. cut[i] <= size + Len(w)
    BY <1>6, <2>5
  <2> QED  BY <2>2, <2>3, <2>4, <2>5, <2>6, <2>7 DEF IsPart
<1>16. IsCut(c, Contents(g), size + Len(w), after)
  <2>1. \A i \in 1..(m + 1) : i = m + 1 \/ i \in 1..m
    BY <1>4
  <2>2. \A i \in 1..(m + 1) : IsPart(c, Contents(g), size + Len(w), after, i)
    BY <2>1, <1>14, <1>15, Zenon
  <2>3. DOMAIN c = 0..Len(after) /\ c[0] = 0 /\ c[Len(after)] = size + Len(w)
    <3>1. PICK n : n = m + 1
      OBVIOUS
    <3>2. Len(after) = n /\ DOMAIN c = 0..n /\ c[0] = 0 /\ c[n] = size + Len(w)
      BY <1>9, <1>13, <3>1, Zenon
    <3> QED  BY <3>2
  <2>4. \A i \in 1..Len(after) : IsPart(c, Contents(g), size + Len(w), after, i)
    BY <1>9, <2>2, Zenon
  <2> QED  BY <2>3, <2>4, Zenon DEF IsCut
<1> QED  BY <1>1, <1>2, <1>7, <1>8, <1>16, Zenon DEF Carries

\* The first delimiter of a queue.
IsEnd(q, n) == q[n] = PACKET_DELIMITER /\ \A i \in 1..(n - 1) : q[i] # PACKET_DELIMITER

\* The bytes up to the first delimiter are those of the first answer.
LEMMA FirstAnswerLies ==
  ASSUME NEW f, IsRing(f), NEW owed \in Seq(Nat \X Seq(Byte)),
         \A i \in 1..Len(owed) : Delimited(Byte, Answer(owed[i])),
         NEW n \in 1..f.used, IsEnd(Contents(f), n),
         NEW cut, IsCut(cut, Contents(f), f.used, owed)
  PROVE  /\ 1 \in 1..Len(owed) /\ cut[1] = n /\ Len(Answer(owed[1])) = n
         /\ \A k \in 1..n : Contents(f)[k] = Answer(owed[1])[k]
<1>1. PICK size : size = f.used
  OBVIOUS
<1>2. size \in Nat
  BY <1>1 DEF IsRing
<1>3. PICK m : m = Len(owed)
  OBVIOUS
<1>4. m \in Nat
  BY <1>3
<1>5. cut[0] = 0 /\ cut[m] = size
  BY <1>1, <1>3, Zenon DEF IsCut
<1>6. m # 0
  BY <1>1, <1>2, <1>5
<1>7. 1 \in 1..m
  BY <1>4, <1>6
<1>8. PICK q : q = Contents(f)
  OBVIOUS
<1>9. PICK a : a = Answer(owed[1])
  OBVIOUS
<1>10. Delimited(Byte, a)
  BY <1>3, <1>7, <1>9
<1>11. PICK l : l = Len(a)
  OBVIOUS
<1>12. l \in Nat /\ l >= 2 /\ \A i \in 1..l : a[i] = PACKET_DELIMITER <=> i = l
  BY <1>10, <1>11 DEF Delimited
<1>13. IsPart(cut, q, size, owed, 1)
  BY <1>1, <1>3, <1>7, <1>8 DEF IsCut
<1>14. cut[1] = cut[1 - 1] + Len(Answer(owed[1])) /\ cut[1] <= size /\ LiesAt(q, cut[1 - 1], a)
  BY <1>9, <1>13 DEF IsPart
<1>15. cut[1 - 1] = 0
  BY <1>5
<1>16. cut[1] = l /\ l <= size
  BY <1>9, <1>11, <1>12, <1>14, <1>15
<1>17. \A k \in 1..l : q[0 + k] = a[k]
  BY <1>11, <1>14, <1>15 DEF LiesAt
<1>18. \A k \in 1..l : q[k] = a[k]
  <2> TAKE k \in 1..l
  <2>1. 0 + k = k
    BY <1>12
  <2> QED  BY <2>1, <1>17
<1>19. q[n] = PACKET_DELIMITER /\ \A i \in 1..(n - 1) : q[i] # PACKET_DELIMITER
  BY <1>8 DEF IsEnd
<1>20. n \in Nat /\ n >= 1
  BY <1>1, <1>2
<1>21. l \in 1..l
  BY <1>12
<1>22. q[l] = PACKET_DELIMITER
  BY <1>12, <1>18, <1>21
<1>23. l \notin 1..(n - 1)
  BY <1>19, <1>22
<1>24. n \in 1..l
  BY <1>12, <1>20, <1>23
<1>25. a[n] = PACKET_DELIMITER
  BY <1>18, <1>19, <1>24
<1>26. n = l
  BY <1>12, <1>24, <1>25
<1> QED  BY <1>3, <1>7, <1>8, <1>9, <1>11, <1>16, <1>18, <1>26

\* A function that is a sequence of that length.
HasLength(q, size) == q = [i \in 1..size |-> q[i]]

\* A queue that starts with the bytes of a sequence has it as its prefix.
LEMMA PrefixIs ==
  ASSUME NEW q, NEW size \in Nat, HasLength(q, size), NEW n \in 1..size,
         NEW T, NEW a \in Seq(T), Len(a) = n, \A k \in 1..n : q[k] = a[k]
  PROVE  SubSeq(q, 1, n) = a
<1>1. PICK X : X = {q[i] : i \in 1..size}
  OBVIOUS
<1>2. q \in Seq(X) /\ Len(q) = size
  BY <1>1 DEF HasLength
<1>3. SubSeq(q, 1, n) \in Seq(X) /\ Len(SubSeq(q, 1, n)) = n
      /\ \A k \in 1..n : SubSeq(q, 1, n)[k] = q[k]
  BY <1>2
<1>4. PICK s : s = SubSeq(q, 1, n)
  OBVIOUS
<1>5. s \in Seq(X) /\ Len(s) = n /\ \A k \in 1..n : s[k] = a[k]
  BY <1>3, <1>4
<1>6. s = a
  BY <1>5, SeqEqual
<1> QED  BY <1>4, <1>6

\* What the USART takes up to a delimiter is the first answer, and the ring carries the rest.
LEMMA AnswerIsHeard ==
  ASSUME NEW f, IsRing(f), NEW owed \in Seq(Nat \X Seq(Byte)), Carries(f, owed),
         \A i \in 1..Len(owed) : Delimited(Byte, Answer(owed[i])),
         NEW n \in 1..f.used, IsEnd(Contents(f), n)
  PROVE  /\ owed # <<>>
         /\ SubSeq(Contents(f), 1, n) = Answer(Head(owed))
         /\ Carries(Drop(f, n), Tail(owed))
<1>1. PICK q : q = Contents(f)
  OBVIOUS
<1>2. PICK size : size = f.used
  OBVIOUS
<1>3. size \in Nat
  BY <1>2 DEF IsRing
<1>4. PICK cut : IsCut(cut, q, size, owed)
  BY <1>1, <1>2 DEF Carries
<1>5. /\ 1 \in 1..Len(owed) /\ cut[1] = n /\ Len(Answer(owed[1])) = n
      /\ \A k \in 1..n : q[k] = Answer(owed[1])[k]
  <2>1. IsCut(cut, Contents(f), f.used, owed)
    BY <1>1, <1>2, <1>4, Zenon
  <2>2. /\ 1 \in 1..Len(owed) /\ cut[1] = n /\ Len(Answer(owed[1])) = n
        /\ \A k \in 1..n : Contents(f)[k] = Answer(owed[1])[k]
    BY <2>1, FirstAnswerLies
  <2> QED  BY <1>1, <2>2, Zenon
<1>6. owed # <<>> /\ Head(owed) = owed[1]
  <2>1. 1 \in 1..Len(owed)
    BY <1>5
  <2> QED  BY <2>1, HeadTailProperties, EmptySeq
<1>7. SubSeq(q, 1, n) = Answer(owed[1])
  <2>0. PICK w : w = Answer(owed[1])
    OBVIOUS
  <2>1. w \in Seq(Byte) /\ Len(w) = n /\ \A k \in 1..n : q[k] = w[k]
    BY <1>5, <2>0 DEF Delimited
  <2>2. HasLength(q, size)
    BY <1>1, <1>2, ContentsAre DEF HasLength
  <2>3. n \in 1..size
    BY <1>2
  <2>4. SubSeq(q, 1, n) = w
    BY <1>3, <2>1, <2>2, <2>3, PrefixIs
  <2> QED  BY <2>0, <2>4
<1>8. PICK g : g = Drop(f, n)
  OBVIOUS
<1>9. g.used = size - n /\ \A k \in 1..(size - n) : Contents(g)[k] = q[n + k]
  <2>1. n \in 0..f.used
    BY <1>2, <1>3
  <2> QED  BY <1>1, <1>2, <1>8, <2>1, RingDropped
<1>10. n \in Nat /\ n <= size /\ n >= 1
  BY <1>2, <1>3
<1>11. PICK m : m = Len(owed)
  OBVIOUS
<1>12. m \in Nat /\ m >= 1
  BY <1>5, <1>11
<1>13. PICK rest : rest = Tail(owed)
  OBVIOUS
<1>14. Len(rest) = m - 1 /\ \A i \in 1..(m - 1) : rest[i] = owed[i + 1]
  BY <1>6, <1>11, <1>13
<1>15. PICK c : c = [i \in 0..(m - 1) |-> cut[i + 1] - n]
  OBVIOUS
<1>16. DOMAIN c = 0..(m - 1) /\ c[0] = 0 /\ c[m - 1] = size - n
  <2>1. cut[m] = size
    BY <1>4, <1>11 DEF IsCut
  <2>2. 0 \in 0..(m - 1) /\ m - 1 \in 0..(m - 1) /\ 0 + 1 = 1 /\ m - 1 + 1 = m
    BY <1>12
  <2>3. c[0] = cut[0 + 1] - n /\ c[m - 1] = cut[m - 1 + 1] - n
    BY <1>15, <2>2, Zenon
  <2> QED  BY <1>5, <1>10, <1>15, <2>1, <2>2, <2>3
<1>17. ASSUME NEW i \in 1..(m - 1) PROVE IsPart(c, Contents(g), size - n, rest, i)
  <2>1. PICK j : j = i + 1
    OBVIOUS
  <2>2. j \in 1..m /\ j - 1 = i /\ i \in 1..m /\ i \in Nat /\ i >= 1
    BY <1>12, <2>1
  <2>3. IsPart(cut, q, size, owed, j) /\ IsPart(cut, q, size, owed, i)
    BY <1>4, <1>11, <2>2 DEF IsCut
  <2>4. PICK from : from = cut[i]
    OBVIOUS
  <2>5. PICK v : v = Answer(owed[j])
    OBVIOUS
  <2>6. from \in Nat /\ cut[j] = from + Len(v) /\ from + Len(v) <= size /\ LiesAt(q, from, v)
    BY <2>2, <2>3, <2>4, <2>5 DEF IsPart
  <2>7. from >= n
    <3> DEFINE Good == {d \in Nat : d + 1 <= m => cut[d + 1] \in Nat /\ cut[d + 1] >= n}
    <3>1. ASSUME NEW d \in Nat, \A e \in 0..d - 1 : e \in Good, d + 1 <= m
          PROVE  cut[d + 1] \in Nat /\ cut[d + 1] >= n
      <4>1. CASE d = 0
        BY <1>5, <1>10, <4>1
      <4>2. CASE d # 0
        <5>1. d - 1 \in 0..d - 1 /\ d - 1 + 1 <= m /\ d - 1 + 1 = d
          BY <1>12, <3>1, <4>2
        <5>2. cut[d] \in Nat /\ cut[d] >= n
          BY <5>1, <3>1
        <5>3. PICK k : k = d + 1
          OBVIOUS
        <5>4. k \in 1..m /\ k - 1 = d
          BY <1>12, <3>1, <5>3
        <5>5. IsPart(cut, q, size, owed, k)
          BY <1>4, <1>11, <5>4 DEF IsCut
        <5>6. Len(Answer(owed[k])) \in Nat
          BY <1>11, <5>4 DEF Delimited
        <5>7. cut[k] = cut[d] + Len(Answer(owed[k]))
          BY <5>4, <5>5 DEF IsPart
        <5>8. cut[k] \in Nat /\ cut[k] >= n
          BY <1>10, <5>2, <5>6, <5>7
        <5> QED  BY <5>3, <5>8
      <4> QED  BY <4>1, <4>2
    <3>2. \A d \in Nat : (\A e \in 0..d - 1 : e \in Good) => d \in Good
      BY <3>1
    <3>3. Nat \subseteq Good
      BY <3>2, EveryNatural
    <3>4. i - 1 \in Good
      <4>1. i - 1 \in Nat
        BY <2>2
      <4> HIDE DEF Good
      <4> QED  BY <3>3, <4>1
    <3>5. i - 1 + 1 = i /\ i - 1 + 1 <= m
      BY <1>12, <2>2
    <3> QED  BY <2>4, <3>4, <3>5
  <2>8. c[i - 1] = from - n /\ c[i] = cut[j] - n
    <3>1. i - 1 \in 0..(m - 1) /\ i \in 0..(m - 1) /\ i - 1 + 1 = i
      BY <1>12, <2>2
    <3> QED  BY <1>15, <2>1, <2>4, <3>1
  <2>9. rest[i] = owed[j]
    BY <1>14, <2>1
  <2>10. Len(v) \in Nat
    BY <1>11, <2>2, <2>5 DEF Delimited
  <2>11. c[i - 1] \in Nat /\ c[i] = c[i - 1] + Len(v) /\ c[i] <= size - n
    BY <1>3, <1>10, <2>6, <2>7, <2>8, <2>10
  <2>12. LiesAt(Contents(g), c[i - 1], v)
    <3> SUFFICES ASSUME NEW k \in 1..Len(v) PROVE Contents(g)[c[i - 1] + k] = v[k]
      BY DEF LiesAt
    <3>1. PICK x : x = c[i - 1] + k
      OBVIOUS
    <3>2. x \in 1..(size - n) /\ n + x = from + k
      BY <1>3, <1>10, <2>6, <2>7, <2>8, <2>10, <3>1
    <3>3. Contents(g)[x] = q[n + x]
      BY <1>9, <3>2, Zenon
    <3>4. q[from + k] = v[k]
      BY <2>6 DEF LiesAt
    <3> QED  BY <3>1, <3>2, <3>3, <3>4
  <2> QED  BY <2>5, <2>9, <2>11, <2>12 DEF IsPart
<1>18. IsCut(c, Contents(g), size - n, rest)
  <2>1. DOMAIN c = 0..Len(rest) /\ c[0] = 0 /\ c[Len(rest)] = size - n
    BY <1>14, <1>16
  <2>2. \A i \in 1..Len(rest) : IsPart(c, Contents(g), size - n, rest, i)
    BY <1>14, <1>17, Zenon
  <2> QED  BY <2>1, <2>2, Zenon DEF IsCut
<1>19. Carries(g, rest)
  BY <1>9, <1>18 DEF Carries
<1> QED  BY <1>1, <1>6, <1>7, <1>8, <1>13, <1>19

-----------------------------------------------------------------------------
(* Frames, there and back. *)

\* Division keeps order.
LEMMA QuotientsGrow ==
  ASSUME NEW a \in Nat, NEW b \in Nat, a <= b, NEW k \in Nat \ {0}
  PROVE  a \div k <= b \div k
<1>1. PICK p, q : p = a \div k /\ q = b \div k
  OBVIOUS
<1>2. p \in Int /\ q \in Int
  BY <1>1
<1>3. k * p <= a
  BY <1>1
<1>4. b < k * (q + 1)
  BY <1>1
<1>5. ~(p >= q + 1)
  <2> SUFFICES ASSUME p >= q + 1 PROVE FALSE
    OBVIOUS
  <2>1. k * p >= k * (q + 1)
    BY <1>2
  <2>2. PICK x, y : x = k * p /\ y = k * (q + 1)
    OBVIOUS
  <2>3. x \in Int /\ y \in Int
    BY <1>2, <2>2
  <2> QED  BY <1>3, <1>4, <2>1, <2>2, <2>3
<1> QED  BY <1>1, <1>2, <1>5

\* A longer frame has no shorter bound.
LEMMA EncodedSizesGrow ==
  ASSUME NEW a \in Nat, NEW b \in Nat, a <= b
  PROVE  ENCODED_SIZE(a) <= ENCODED_SIZE(b) /\ ENCODED_SIZE(a) \in Nat
<1>1. PICK p, q : p = a \div BLOCK_MAX /\ q = b \div BLOCK_MAX
  OBVIOUS
<1>2. p \in Nat /\ q \in Nat /\ p <= q
  BY <1>1, BlockMaxIsNatural, QuotientsGrow
<1>3. ENCODED_SIZE(a) = a + (p + 1) + 1 /\ ENCODED_SIZE(b) = b + (q + 1) + 1
  BY <1>1 DEF ENCODED_SIZE
<1> QED  BY <1>2, <1>3

\* What a frame of bytes is encoded to are bytes.
LEMMA WireOfBytes == Wire(Byte) = Byte /\ Byte \subseteq Nat
<1>1. COBS_CODE_MAX \in Nat /\ COBS_CODE_MAX <= 255
  BY BlockMaxIsNatural, RadixAssumption DEF COBS_CODE_MAX
<1> QED  BY <1>1 DEF Wire, Codes, Byte

\* All that is known of an encoding.
EncodesTo(data, e) ==
  /\ Delimited(Byte, e) /\ Len(e) <= ENCODED_SIZE(Len(data))
  /\ Unstuff(e) = [found |-> TRUE, out |-> data] /\ Decode(e) = data

\* The encoding of bytes: delimited, bounded, and decoded to what it was.
LEMMA BytesEncode ==
  ASSUME NEW data \in Seq(Byte)
  PROVE  EncodesTo(data, Encode(data))
<1>1. Wire(Byte) \subseteq Nat
  BY WireOfBytes
<1>2. PICK e : e = Encode(data)
  OBVIOUS
<1>3. /\ Delimited(Wire(Byte), e) /\ Len(e) <= ENCODED_SIZE(Len(data))
      /\ Unstuff(e) = [found |-> TRUE, out |-> data] /\ Decode(e) = data
  BY <1>1, <1>2, RoundTrip
<1>4. Delimited(Byte, e)
  BY <1>3, WireOfBytes
<1> QED  BY <1>2, <1>3, <1>4, Zenon DEF EncodesTo

\* A concatenation of two sequences is one, of both lengths.
LEMMA Concatenates ==
  ASSUME NEW T, NEW a \in Seq(T), NEW b \in Seq(T)
  PROVE  a \o b \in Seq(T) /\ Len(a \o b) = Len(a) + Len(b)
BY ConcatProperties

IsFrame(frame, payload) == frame \in Seq(Byte) /\ Len(frame) = FRAME_OVERHEAD + Len(payload)

\* sendResponse() makes a frame of bytes, six longer than its payload.
LEMMA FramesAreBytes ==
  ASSUME NEW command \in Nat, NEW payload \in Seq(Byte)
  PROVE  IsFrame(FrameOf(command, payload), payload)
<1>1. PICK a, b : a = WriteLE(command, 2) /\ b = WriteLE(Len(payload), 2)
  OBVIOUS
<1>2. 2 \in 1..4 /\ Len(payload) \in Nat
  OBVIOUS
<1>3. HasDigits(a, command, 2) /\ HasDigits(b, Len(payload), 2)
  BY <1>1, <1>2, WriteLEDigits, Zenon
<1>4. a \in Seq(Byte) /\ Len(a) = 2 /\ b \in Seq(Byte) /\ Len(b) = 2
  BY <1>3 DEF HasDigits
<1>5. PICK covered : covered = a \o b \o payload
  OBVIOUS
<1>6. covered \in Seq(Byte) /\ Len(covered) = 4 + Len(payload)
  <2>1. PICK ab : ab = a \o b
    OBVIOUS
  <2>a. a \o b \in Seq(Byte) /\ Len(a \o b) = Len(a) + Len(b)
    BY <1>4, Concatenates
  <2>2. ab \in Seq(Byte) /\ Len(ab) = 4
    BY <1>4, <2>1, <2>a
  <2>3. covered = ab \o payload
    BY <1>5, <2>1
  <2> QED  BY <2>2, <2>3, Concatenates
<1>7. PICK crc : crc = Crc(covered)
  OBVIOUS
<1>8. crc \in Nat
  BY <1>6, <1>7, CrcIsCrc DEF IsCrc
<1>9. PICK c : c = WriteLE(crc, 2)
  OBVIOUS
<1>10. HasDigits(c, crc, 2)
  BY <1>2, <1>8, <1>9, WriteLEDigits, Zenon
<1>11. c \in Seq(Byte) /\ Len(c) = 2
  BY <1>10 DEF HasDigits
<1>12. PICK frame : frame = FrameOf(command, payload)
  OBVIOUS
<1>13. frame = covered \o c
  BY <1>1, <1>5, <1>7, <1>9, <1>12, Zenon DEF FrameOf
<1>14. frame \in Seq(Byte) /\ Len(frame) = 6 + Len(payload)
  <2>1. frame \in Seq(Byte) /\ Len(frame) = Len(covered) + Len(c)
    BY <1>6, <1>11, <1>13, Concatenates
  <2> QED  BY <1>2, <1>6, <1>11, <2>1
<1> QED  BY <1>12, <1>14 DEF IsFrame, FRAME_OVERHEAD

\* Each answer is the encoding of its frame.
LEMMA AnswersEncode ==
  ASSUME NEW d \in Nat \X Seq(Byte)
  PROVE  /\ EncodesTo(FrameOf(d[1], d[2]), Answer(d))
         /\ IsFrame(FrameOf(d[1], d[2]), d[2])
         /\ Delimited(Byte, Answer(d))
<1>1. d[1] \in Nat /\ d[2] \in Seq(Byte)
  OBVIOUS
<1>2. PICK frame : frame = FrameOf(d[1], d[2])
  OBVIOUS
<1>3. IsFrame(frame, d[2])
  BY <1>1, <1>2, FramesAreBytes
<1>4. EncodesTo(frame, Encode(frame))
  BY <1>3, BytesEncode DEF IsFrame
<1>5. Answer(d) = Encode(frame)
  BY <1>2 DEF Answer
<1>6. Delimited(Byte, Encode(frame))
  BY <1>4 DEF EncodesTo
<1> QED  BY <1>2, <1>3, <1>4, <1>5, <1>6

-----------------------------------------------------------------------------
(* What the line does to a frame. *)

\* A byte with one bit harmed, p being its weight.
FlippedBy(x, p) == IF (x \div p) % 2 = 1 THEN x - p ELSE x + p

IsBit(p) == p \in {1, 2, 4, 8, 16, 32, 64, 128}

\* A byte with one bit harmed is a byte.
LEMMA FlipStays ==
  ASSUME NEW x \in Byte, NEW p, IsBit(p)
  PROVE  FlippedBy(x, p) \in Byte
<1>1. CASE p = 1
  BY <1>1 DEF FlippedBy, Byte
<1>2. CASE p = 2
  BY <1>2 DEF FlippedBy, Byte
<1>3. CASE p = 4
  BY <1>3 DEF FlippedBy, Byte
<1>4. CASE p = 8
  BY <1>4 DEF FlippedBy, Byte
<1>5. CASE p = 16
  BY <1>5 DEF FlippedBy, Byte
<1>6. CASE p = 32
  BY <1>6 DEF FlippedBy, Byte
<1>7. CASE p = 64
  BY <1>7 DEF FlippedBy, Byte
<1>8. CASE p = 128
  BY <1>8 DEF FlippedBy, Byte
<1> QED  BY <1>1, <1>2, <1>3, <1>4, <1>5, <1>6, <1>7, <1>8 DEF IsBit

\* The bits of a byte.
LEMMA PowersOfTwo == \A b \in 0..7 : IsBit(2^b)
<1>1. 2^0 = 1 /\ 2^1 = 2 /\ 2^2 = 4 /\ 2^3 = 8 /\ 2^4 = 16 /\ 2^5 = 32 /\ 2^6 = 64 /\ 2^7 = 128
  OBVIOUS
<1>2. /\ IsBit(2^0) /\ IsBit(2^1) /\ IsBit(2^2) /\ IsBit(2^3)
      /\ IsBit(2^4) /\ IsBit(2^5) /\ IsBit(2^6) /\ IsBit(2^7)
  BY <1>1 DEF IsBit
<1>3. ASSUME NEW b \in 0..7 PROVE IsBit(2^b)
  <2>1. CASE b = 0 \/ b = 1
    BY <1>2, <2>1, Zenon
  <2>2. CASE b = 2 \/ b = 3
    BY <1>2, <2>2, Zenon
  <2>3. CASE b = 4 \/ b = 5
    BY <1>2, <2>3, Zenon
  <2>4. CASE b = 6 \/ b = 7
    BY <1>2, <2>4, Zenon
  <2> QED  BY <2>1, <2>2, <2>3, <2>4
<1> QED  BY <1>3

IsDamaged(e, frame) == e \in Seq(Byte) /\ Len(e) <= Len(frame)

\* What the line makes of a frame are bytes, no more than there were.
LEMMA DamagesAreBytes ==
  ASSUME NEW frame \in Seq(Byte), Len(frame) >= 1, NEW e \in Damages(frame)
  PROVE  IsDamaged(e, frame)
<1>1. PICK size \in Nat : size = Len(frame) /\ size >= 1
  OBVIOUS
<1>2. \A i \in 1..size : frame[i] \in Byte
  BY <1>1, ElementOfSeq
<1>3. \/ \E lost \in 1..(size - 1) :
           e = [i \in 1..(size - 1) |-> IF i < lost THEN frame[i] ELSE frame[i + 1]]
      \/ \E i \in 1..(size - 1), b \in 0..7 : e = [frame EXCEPT ![i] = FlippedBy(@, 2^b)]
  <2>1. \/ e \in {[i \in 1..(size - 1) |-> IF i < lost THEN frame[i] ELSE frame[i + 1]] : lost \in 1..(size - 1)}
        \/ e \in {[frame EXCEPT ![i] = FlippedBy(@, 2^b)] : i \in 1..(size - 1), b \in 0..7}
    BY <1>1 DEF Damages, FlippedBy
  <2> QED  BY <2>1
<1>4. CASE \E lost \in 1..(size - 1) :
             e = [i \in 1..(size - 1) |-> IF i < lost THEN frame[i] ELSE frame[i + 1]]
  <2>1. PICK lost \in 1..(size - 1) :
             e = [i \in 1..(size - 1) |-> IF i < lost THEN frame[i] ELSE frame[i + 1]]
    BY <1>4
  <2>2. \A i \in 1..(size - 1) : i \in 1..size /\ i + 1 \in 1..size
    BY <1>1
  <2>3. \A i \in 1..(size - 1) : e[i] \in Byte
    BY <1>2, <2>1, <2>2
  <2>4. size - 1 \in Nat
    BY <1>1
  <2>5. e \in Seq(Byte) /\ Len(e) = size - 1
    BY <2>1, <2>3, <2>4
  <2> QED  BY <1>1, <2>5 DEF IsDamaged
<1>5. CASE \E i \in 1..(size - 1), b \in 0..7 : e = [frame EXCEPT ![i] = FlippedBy(@, 2^b)]
  <2>1. PICK i \in 1..(size - 1), b \in 0..7 : e = [frame EXCEPT ![i] = FlippedBy(@, 2^b)]
    BY <1>5
  <2>2. PICK x : x = FlippedBy(frame[i], 2^b)
    OBVIOUS
  <2>3. x \in Byte
    <3>1. frame[i] \in Byte
      <4>1. i \in 1..size
        BY <1>1
      <4> QED  BY <1>2, <4>1
    <3>2. IsBit(2^b)
      BY PowersOfTwo
    <3> QED  BY <2>2, <3>1, <3>2, FlipStays, Zenon
  <2>4. e = [frame EXCEPT ![i] = x]
    BY <2>1, <2>2
  <2>5. e \in Seq(Byte) /\ Len(e) = size
    BY <1>1, <2>3, <2>4
  <2> QED  BY <1>1, <2>5 DEF IsDamaged
<1> QED  BY <1>3, <1>4, <1>5

-----------------------------------------------------------------------------
(* processFrame() of any bytes. *)

\* What a published request is.
IsPublished(p) == p = NOTHING \/ (IsRequest(p.command, p.payload) /\ p.payload \in Seq(Byte))

\* A part of the decoded array is of bytes.
LEMMA BytesAreBytes ==
  ASSUME NEW s \in Seq(Byte), NEW from \in Nat, NEW to \in Int, to - from + 1 \in Nat
  PROVE  Bytes(s, from, to) \in Seq(Byte) /\ Len(Bytes(s, from, to)) = to - from + 1
<1>1. PICK n \in Nat : n = to - from + 1
  OBVIOUS
<1>2. PICK q : q = Bytes(s, from, to)
  OBVIOUS
<1>3. q = [i \in 1..n |-> IF from + i - 1 \in DOMAIN s THEN s[from + i - 1] ELSE 0]
  BY <1>1, <1>2 DEF Bytes
<1>4. \A i \in 1..n : q[i] \in Byte
  BY <1>3, ElementOfSeq, ByteIsNatural
<1>5. q \in Seq(Byte) /\ Len(q) = n
  BY <1>3, <1>4
<1> QED  BY <1>1, <1>2, <1>5

\* A field of two bytes is below 65536.
LEMMA ShortIsRead ==
  ASSUME NEW bytes \in Seq(Byte), Len(bytes) = 2
  PROVE  ReadLE(bytes) \in Nat /\ ReadLE(bytes) <= 65535
<1>1. \A i \in 1..2 : bytes[i] \in Byte
  BY ElementOfSeq
<1>2. 2 \in 1..4
  OBVIOUS
<1>3. ReadLE(bytes) = Sum(bytes[1], bytes[2], bytes[3], bytes[4], 2)
  BY <1>1, <1>2, ReadLEIsSum
<1>4. Sum(bytes[1], bytes[2], bytes[3], bytes[4], 2) = bytes[1] + bytes[2] * 256
  BY DEF Sum
<1>5. PICK x, y : x = bytes[1] /\ y = bytes[2]
  OBVIOUS
<1>6. x \in Byte /\ y \in Byte
  BY <1>1, <1>5
<1>7. x + y * 256 \in Nat /\ x + y * 256 <= 65535
  BY <1>6 DEF Byte
<1> QED  BY <1>3, <1>4, <1>5, <1>7

\* processFrame() reads no byte behind the frame it decoded: a length field that passes the
\* comparison in 16 bits is the length, for any frame of bytes.
LEMMA ReadsStayInside ==
  ASSUME NEW s \in Seq(Byte)
  PROVE  ~(LastByteRead(s) > Len(s))
<1>1. PICK len \in Nat : len = Len(s)
  OBVIOUS
<1>2. CASE ~HasOverhead(s)
  BY <1>1, <1>2 DEF LastByteRead
<1>3. CASE HasOverhead(s)
  <2>1. len >= 6
    BY <1>1, <1>3 DEF HasOverhead, FRAME_OVERHEAD
  <2>2. CASE ~(LengthMatches(s) /\ CrcMatches(s))
    <3>1. LastByteRead(s) = 4
      BY <1>3, <2>2, Zenon DEF LastByteRead
    <3> QED  BY <1>1, <2>1, <3>1
  <2>3. CASE LengthMatches(s) /\ CrcMatches(s)
    <3>1. PICK field : field = ReadLE(Bytes(s, 3, 4))
      OBVIOUS
    <3>2. field \in Nat /\ field <= 65535
      <4>a. 3 \in Nat /\ 4 \in Int /\ 4 - 3 + 1 \in Nat
        OBVIOUS
      <4>1. Bytes(s, 3, 4) \in Seq(Byte) /\ Len(Bytes(s, 3, 4)) = 4 - 3 + 1
        BY <4>a, BytesAreBytes
      <4>2. Len(Bytes(s, 3, 4)) = 2
        BY <4>1
      <4> QED  BY <3>1, <4>1, <4>2, ShortIsRead
    <3>3. len = (field + 6) % 65536
      BY <1>1, <2>3, <3>1 DEF LengthMatches, FRAME_OVERHEAD
    <3>4. field + 6 < 65536
      BY <2>1, <3>2, <3>3
    <3>5. len = field + 6
      BY <3>2, <3>3, <3>4
    <3>6. LastByteRead(s) = 4 + field
      BY <1>3, <2>3, <3>1, Zenon DEF LastByteRead
    <3> QED  BY <1>1, <3>2, <3>5, <3>6
  <2> QED  BY <2>2, <2>3
<1> QED  BY <1>2, <1>3

\* What publishRequest() publishes of a decoded frame is one of the requests, of bytes.
LEMMA RequestIsPublished ==
  ASSUME NEW s \in Seq(Byte), HasOverhead(s)
  PROVE  IsPublished(RequestIn(s))
<1>1. PICK command, payload :
        command = ReadLE(Bytes(s, 1, 2)) /\ payload = Bytes(s, 5, Len(s) - 2)
  OBVIOUS
<1>2. payload \in Seq(Byte)
  <2>1. Len(s) \in Nat /\ Len(s) >= 6
    BY DEF HasOverhead, FRAME_OVERHEAD
  <2>2. 5 \in Nat /\ Len(s) - 2 \in Int /\ Len(s) - 2 - 5 + 1 \in Nat
    BY <2>1
  <2> QED  BY <1>1, <2>2, BytesAreBytes
<1>3. RequestIn(s) = IF IsRequest(command, payload) THEN [command |-> command, payload |-> payload] ELSE NOTHING
  BY <1>1, Zenon DEF RequestIn
<1>4. PICK r : r = [command |-> command, payload |-> payload]
  OBVIOUS
<1>5. r.command = command /\ r.payload = payload
  BY <1>4
<1>6. IsRequest(command, payload) => IsPublished(r)
  BY <1>2, <1>5, Zenon DEF IsPublished
<1>7. IsPublished(NOTHING)
  BY DEF IsPublished
<1> QED  BY <1>3, <1>4, <1>6, <1>7, Zenon

\* What processFrame() looks into.
DecodedFrame(d) == IF d.found THEN d.out ELSE NOT_FOUND

\* processFrame() of any bytes stays inside its arrays and publishes only requests.
LEMMA FrameIsProcessed ==
  ASSUME NEW frame \in Seq(Byte), frame # <<>>, Len(frame) <= RX_FRAME_CAPACITY,
         NEW d, d = Unstuff(frame), NEW decoded, decoded = DecodedFrame(d)
  PROVE  /\ ~(Len(d.out) > DECODED_FRAME_CAPACITY)
         /\ ~(LastByteRead(decoded) > Len(decoded))
         /\ HasOverhead(decoded) => IsPublished(RequestIn(decoded))
<1>1. PICK t \in BOOLEAN, s \in Seq(Byte) : Unstuff(frame) = Record(t, s) /\ Len(s) <= Len(frame) - 1
  BY UnstuffIsBounded
<1>2. d.found = t /\ d.out = s
  BY <1>1 DEF Record
<1>3. ~(Len(s) > DECODED_FRAME_CAPACITY)
  <2>1. RX_FRAME_CAPACITY \in Nat /\ DECODED_FRAME_CAPACITY \in Nat /\ RX_FRAME_CAPACITY <= DECODED_FRAME_CAPACITY + 1
    BY HostCommandAssumption DEF HostCommandAssumption
  <2>2. PICK m \in Nat, l \in Nat : m = Len(frame) /\ l = Len(s)
    OBVIOUS
  <2> QED  BY <1>1, <2>1, <2>2
<1>4. CASE t = TRUE
  <2>1. decoded = s
    BY <1>2, <1>4 DEF DecodedFrame
  <2> QED  BY <1>2, <1>3, <2>1, ReadsStayInside, RequestIsPublished
<1>5. CASE t = FALSE
  <2>1. decoded = NOT_FOUND
    BY <1>2, <1>5 DEF DecodedFrame
  <2>2. ~HasOverhead(decoded)
    BY <2>1 DEF HasOverhead
  <2>3. LastByteRead(decoded) = 0
    BY <2>2, Zenon DEF LastByteRead
  <2>4. Len(decoded) = 1
    BY <2>1 DEF NOT_FOUND
  <2> QED  BY <1>2, <1>3, <2>2, <2>3, <2>4
<1> QED  BY <1>4, <1>5

-----------------------------------------------------------------------------
(* What the invariant says of the answers: the ring is one, and it carries those that are due. *)

\* The ring carries what is due, unless an answer behind another found no room.
AnswersKept(f, owed, gone, got) ==
  /\ IsRing(f) /\ f.size = TX_FIFO_CAPACITY
  /\ owed \in Seq(Nat \X Seq(Byte))
  /\ ~gone => Carries(f, owed)
  /\ gone => Len(owed) > 1
  /\ got # <<>> => got[1] = got[2]

\* A response or report: its payload leaves room for the overhead of its frame.
IsAnswer(d) == d \in Nat \X Seq(Byte) /\ Len(d[2]) <= PACKET_DATA_CAPACITY + 3

\* The capacities of the buffers, from the assumption.
LEMMA Capacities ==
  /\ RX_FRAME_CAPACITY \in Nat /\ DECODED_FRAME_CAPACITY \in Nat /\ TX_FIFO_CAPACITY \in Nat
  /\ FRAME_OVERHEAD + PACKET_DATA_CAPACITY + 3 <= DECODED_FRAME_CAPACITY
  /\ ENCODED_SIZE(DECODED_FRAME_CAPACITY) <= TX_FIFO_CAPACITY
BY HostCommandAssumption DEF HostCommandAssumption

\* An answer passes the assertions of sendResponse() on its length.
LEMMA AnswerFits ==
  ASSUME NEW d, IsAnswer(d)
  PROVE  /\ Answer(d) \in Seq(Byte)
         /\ Len(Answer(d)) <= ENCODED_SIZE(DECODED_FRAME_CAPACITY)
         /\ Len(d[2]) <= DECODED_FRAME_CAPACITY - FRAME_OVERHEAD
<1>1. d \in Nat \X Seq(Byte) /\ Len(d[2]) <= PACKET_DATA_CAPACITY + 3
  BY DEF IsAnswer
<1>2. PICK frame : frame = FrameOf(d[1], d[2])
  OBVIOUS
<1>3. EncodesTo(frame, Answer(d)) /\ IsFrame(frame, d[2]) /\ Delimited(Byte, Answer(d))
  BY <1>1, <1>2, AnswersEncode
<1>4. Answer(d) \in Seq(Byte)
  BY <1>3 DEF Delimited
<1>5. Len(Answer(d)) <= ENCODED_SIZE(Len(frame))
  BY <1>3 DEF EncodesTo
<1>6. PICK l \in Nat : l = Len(d[2])
  <2>1. d[2] \in Seq(Byte)
    BY <1>1
  <2> QED  BY <2>1
<1>7. Len(frame) = FRAME_OVERHEAD + l
  BY <1>3, <1>6 DEF IsFrame
<1>8. l <= PACKET_DATA_CAPACITY + 3
  BY <1>1, <1>6
<1>9. PICK n \in Nat : n = DECODED_FRAME_CAPACITY /\ FRAME_OVERHEAD + l <= n
  <2>1. FRAME_OVERHEAD + l <= DECODED_FRAME_CAPACITY
    BY <1>8, Capacities DEF FRAME_OVERHEAD, PACKET_DATA_CAPACITY
  <2> QED  BY <2>1, Capacities
<1>10. FRAME_OVERHEAD + l \in Nat
  BY DEF FRAME_OVERHEAD
<1>11. ENCODED_SIZE(FRAME_OVERHEAD + l) <= ENCODED_SIZE(n) /\ ENCODED_SIZE(FRAME_OVERHEAD + l) \in Nat
  BY <1>9, <1>10, EncodedSizesGrow
<1>12. ENCODED_SIZE(n) \in Nat
  BY <1>9, EncodedSizesGrow
<1>13. Len(Answer(d)) \in Nat
  BY <1>4
<1>14. PICK a, b, c : a = Len(Answer(d)) /\ b = ENCODED_SIZE(FRAME_OVERHEAD + l) /\ c = ENCODED_SIZE(n)
  OBVIOUS
<1>15. a <= c
  BY <1>5, <1>7, <1>11, <1>12, <1>13, <1>14
<1>16. l <= n - FRAME_OVERHEAD
  BY <1>9 DEF FRAME_OVERHEAD
<1> QED  BY <1>4, <1>6, <1>9, <1>14, <1>15, <1>16

\* A ring that carries no answer is empty.
LEMMA NothingOwed ==
  ASSUME NEW f, Carries(f, <<>>)
  PROVE  f.used = 0
<1>1. PICK cut : IsCut(cut, Contents(f), f.used, <<>>)
  BY DEF Carries
<1>2. Len(<<>>) = 0
  OBVIOUS
<1> QED  BY <1>1, <1>2, Zenon DEF IsCut

\* An answer that finds room is queued behind the others.
LEMMA Responding ==
  ASSUME NEW f, NEW owed, NEW got, AnswersKept(f, owed, FALSE, got),
         NEW d, IsAnswer(d), CanPush(f, Answer(d))
  PROVE  AnswersKept(Push(f, Answer(d)), Append(owed, d), FALSE, got)
<1>1. IsRing(f) /\ f.size = TX_FIFO_CAPACITY /\ owed \in Seq(Nat \X Seq(Byte)) /\ Carries(f, owed)
      /\ (got # <<>> => got[1] = got[2])
  BY DEF AnswersKept
<1>2. Answer(d) \in Seq(Byte) /\ d \in Nat \X Seq(Byte)
  BY AnswerFits DEF IsAnswer
<1>3. IsRing(Push(f, Answer(d))) /\ Push(f, Answer(d)).size = f.size
  BY <1>1, <1>2, RingPushed
<1>4. Carries(Push(f, Answer(d)), Append(owed, d))
  BY <1>1, <1>2, AnswerIsPushed
<1>5. Append(owed, d) \in Seq(Nat \X Seq(Byte))
  BY <1>1, <1>2
<1> QED  BY <1>1, <1>3, <1>4, <1>5 DEF AnswersKept

\* An answer finds no room only behind another.
LEMMA NoRoom ==
  ASSUME NEW f, NEW owed, NEW got, AnswersKept(f, owed, FALSE, got),
         NEW d, IsAnswer(d), ~CanPush(f, Answer(d))
  PROVE  AnswersKept(f, Append(owed, d), TRUE, got)
<1>1. IsRing(f) /\ f.size = TX_FIFO_CAPACITY /\ owed \in Seq(Nat \X Seq(Byte)) /\ Carries(f, owed)
      /\ (got # <<>> => got[1] = got[2])
  BY DEF AnswersKept
<1>2. Answer(d) \in Seq(Byte) /\ d \in Nat \X Seq(Byte) /\ Len(Answer(d)) <= ENCODED_SIZE(DECODED_FRAME_CAPACITY)
  BY AnswerFits DEF IsAnswer
<1>3. owed # <<>>
  <2> SUFFICES ASSUME owed = <<>> PROVE FALSE
    OBVIOUS
  <2>1. f.used = 0
    BY <1>1, NothingOwed
  <2>2. PICK e : e = ENCODED_SIZE(DECODED_FRAME_CAPACITY)
    OBVIOUS
  <2>3. e \in Nat
    BY <2>2, Capacities, EncodedSizesGrow
  <2>4. PICK a : a = Len(Answer(d))
    OBVIOUS
  <2>5. a \in Nat
    BY <1>2, <2>4
  <2>6. a <= e /\ e <= TX_FIFO_CAPACITY /\ TX_FIFO_CAPACITY \in Nat
    BY <1>2, <2>2, <2>4, Capacities
  <2>7. ~(a <= TX_FIFO_CAPACITY - 0)
    BY <1>1, <2>1, <2>4 DEF CanPush, getFree
  <2> QED  BY <2>3, <2>5, <2>6, <2>7
<1>4. Append(owed, d) \in Seq(Nat \X Seq(Byte)) /\ Len(Append(owed, d)) > 1
  <2>1. Len(owed) \in Nat /\ Len(owed) # 0
    BY <1>1, <1>3, EmptySeq
  <2>2. Append(owed, d) \in Seq(Nat \X Seq(Byte)) /\ Len(Append(owed, d)) = Len(owed) + 1
    BY <1>1, <1>2
  <2> QED  BY <2>1, <2>2
<1> QED  BY <1>1, <1>4 DEF AnswersKept

\* The host hears the answer that was due first.
LEMMA Hearing ==
  ASSUME NEW f, NEW owed, NEW got, AnswersKept(f, owed, FALSE, got),
         NEW n \in 1..f.used, IsEnd(Contents(f), n)
  PROVE  AnswersKept(Drop(f, n), Tail(owed), FALSE,
                     <<Decode(SubSeq(Contents(f), 1, n)), FrameOf(Head(owed)[1], Head(owed)[2])>>)
<1>1. IsRing(f) /\ f.size = TX_FIFO_CAPACITY /\ owed \in Seq(Nat \X Seq(Byte)) /\ Carries(f, owed)
  BY DEF AnswersKept
<1>2. \A i \in 1..Len(owed) : Delimited(Byte, Answer(owed[i]))
  <2> TAKE i \in 1..Len(owed)
  <2>1. owed[i] \in Nat \X Seq(Byte)
    BY <1>1, ElementOfSeq
  <2> QED  BY <2>1, AnswersEncode
<1>3. /\ owed # <<>>
      /\ SubSeq(Contents(f), 1, n) = Answer(Head(owed))
      /\ Carries(Drop(f, n), Tail(owed))
  BY <1>1, <1>2, AnswerIsHeard
<1>4. n \in 0..f.used
  BY <1>1 DEF IsRing
<1>5. IsRing(Drop(f, n)) /\ Drop(f, n).size = f.size
  BY <1>1, <1>4, RingDropped
<1>6. PICK d : d = Head(owed)
  OBVIOUS
<1>7. d \in Nat \X Seq(Byte) /\ Tail(owed) \in Seq(Nat \X Seq(Byte))
  BY <1>1, <1>3, <1>6
<1>8. EncodesTo(FrameOf(d[1], d[2]), Answer(d))
  BY <1>7, AnswersEncode
<1>9. Decode(Answer(d)) = FrameOf(d[1], d[2])
  BY <1>8 DEF EncodesTo
<1>10. PICK x, y : x = Decode(SubSeq(Contents(f), 1, n)) /\ y = FrameOf(Head(owed)[1], Head(owed)[2])
  OBVIOUS
<1>11. x = y
  BY <1>3, <1>6, <1>9, <1>10, Zenon
<1>12. <<x, y>>[1] = <<x, y>>[2]
  BY <1>11
<1>13. AnswersKept(Drop(f, n), Tail(owed), FALSE, <<x, y>>)
  BY <1>1, <1>3, <1>5, <1>7, <1>12, Zenon DEF AnswersKept
<1> QED  BY <1>10, <1>13, Zenon

-----------------------------------------------------------------------------
(* What it says of the bytes on their way in, and the steps. *)

\* What arrives are bytes; what is published, a request; what is kept, a configuration.
BytesKept ==
  /\ encoded \in Seq(Byte) /\ Len(encoded) <= RX_FRAME_CAPACITY
  /\ IsPublished(published)
  /\ kept \in Seq(Byte) /\ HasConfigurationSize(kept)
  /\ configuration = getConfiguration(kept)
  /\ overrun = FALSE

ScriptKept == frames \in Nat /\ (script = 0 \/ script \in DOMAIN Scripts)

\* The inductive invariant.
HostCommandInvariant == BytesKept /\ ScriptKept /\ failed \in BOOLEAN /\ AnswersKept(txFifo, due, failed, heard)

\* The commands with a payload are told apart.
LEMMA Signals ==
  /\ SET_CONFIG # CALIBRATE /\ SET_CONFIG # TX_PACKET /\ SET_CONFIG \notin PayloadFree
  /\ CALIBRATE # TX_PACKET /\ CALIBRATE \notin PayloadFree
  /\ NOTHING.command # SET_CONFIG /\ NOTHING.command # CALIBRATE
BY DEF SET_CONFIG, CALIBRATE, TX_PACKET, PayloadFree, NOTHING, GET_CONFIG_REQUEST, GET_DIAGNOSTICS_REQUEST

\* The bytes of the codec are those of the frames.
LEMMA RadixBytes == 0..(RADIX - 1) = Byte
BY RadixAssumption DEF Byte

\* A published configuration has its size and is valid.
LEMMA PublishedConfiguration ==
  ASSUME NEW p, IsPublished(p), p.command = SET_CONFIG
  PROVE  /\ p.payload \in Seq(Byte) /\ HasConfigurationSize(p.payload)
         /\ isConfigurationValid(getConfiguration(p.payload))
<1>1. p # NOTHING
  BY Signals
<1>2. IsRequest(p.command, p.payload) /\ p.payload \in Seq(Byte)
  BY <1>1 DEF IsPublished
<1> QED  BY <1>2, Signals, Zenon DEF IsRequest

\* rfManager_init() and hostCommandManager_init() establish the invariant.
LEMMA Initially == Init => HostCommandInvariant
<1> SUFFICES ASSUME Init PROVE HostCommandInvariant
  OBVIOUS
<1>1. PICK z : z = ZeroPayload
  OBVIOUS
<1>2. PICK size \in Nat : size = getConfigurationSize(FSK) /\ size >= 7
  BY DEF getConfigurationSize, FSK, LORA, MSK, BPSK
<1>3. z = [n \in 1..size |-> 0]
  BY <1>1, <1>2 DEF ZeroPayload
<1>4. z \in Seq(Byte) /\ Len(z) = size /\ z[1] = 0
  BY <1>2, <1>3, ByteIsNatural
<1>5. HasConfigurationSize(z)
  BY <1>2, <1>4 DEF HasConfigurationSize, COMMON_SIZE, FSK
<1>6. kept = z /\ configuration = getConfiguration(kept) /\ encoded = <<>> /\ published = NOTHING
      /\ overrun = FALSE
  BY <1>1 DEF Init, NONE
<1>7. encoded \in Seq(Byte) /\ Len(encoded) <= RX_FRAME_CAPACITY
  BY <1>6, Capacities
<1>8. BytesKept
  BY <1>4, <1>5, <1>6, <1>7, Zenon DEF BytesKept, IsPublished
<1>9. ScriptKept /\ failed \in BOOLEAN
  BY DEF Init, ScriptKept
<1>10. txFifo = NewFifo(TX_FIFO_CAPACITY, 0) /\ due = <<>> /\ failed = FALSE /\ heard = <<>>
  BY DEF Init
<1>11. TX_FIFO_CAPACITY \in Nat \ {0}
  <2>1. PICK n \in Nat : n = DECODED_FRAME_CAPACITY
    BY Capacities
  <2>2. PICK q : q = n \div BLOCK_MAX
    OBVIOUS
  <2>3. q \in Nat
    BY <2>2, BlockMaxIsNatural
  <2>4. n + (q + 1) + 1 <= TX_FIFO_CAPACITY
    BY <2>1, <2>2, Capacities DEF ENCODED_SIZE
  <2> QED  BY <2>3, <2>4, Capacities
<1>12. AnswersKept(txFifo, due, failed, heard)
  <2>1. IsRing(txFifo) /\ txFifo.size = TX_FIFO_CAPACITY /\ txFifo.used = 0
    BY <1>10, <1>11, RingStarts
  <2>2. Carries(txFifo, due)
    BY <2>1, <1>10, NothingIsCarried
  <2>3. due \in Seq(Nat \X Seq(Byte))
    BY <1>10
  <2> QED  BY <1>10, <2>1, <2>2, <2>3 DEF AnswersKept
<1> QED  BY <1>8, <1>9, <1>12 DEF HostCommandInvariant

\* The frames of the host are of bytes and fit in the RX buffer.
LEMMA FrameIsSent ==
  ASSUME NEW s \in DOMAIN Scripts, NEW n \in Nat, n < Len(Scripts[s].traffic),
         NEW frame \in Scripts[s].traffic[n + 1]
  PROVE  frame \in Seq(Byte) /\ ENCODED_SIZE(Len(frame)) <= RX_FRAME_CAPACITY
<1>1. Len(Scripts[s].traffic) \in Nat
  BY HostCommandAssumption DEF HostCommandAssumption
<1>2. n + 1 \in 1..Len(Scripts[s].traffic)
  BY <1>1
<1>3. PICK m : m = n + 1
  OBVIOUS
<1>4. m \in 1..Len(Scripts[s].traffic) /\ frame \in Scripts[s].traffic[m]
  BY <1>2, <1>3
<1>5. frame \in Seq(0..(RADIX - 1)) /\ ENCODED_SIZE(Len(frame)) <= RX_FRAME_CAPACITY
  BY <1>4, HostCommandAssumption DEF HostCommandAssumption
<1> QED  BY <1>5, RadixBytes

\* What arrives of a frame, harmed or not, fits in the RX buffer.
LEMMA SentFrameFits ==
  ASSUME NEW frame \in Seq(Byte), ENCODED_SIZE(Len(frame)) <= RX_FRAME_CAPACITY,
         NEW e, e = Encode(frame) \/ e \in Damages(Encode(frame))
  PROVE  e \in Seq(Byte) /\ Len(e) <= RX_FRAME_CAPACITY
<1>1. PICK w : w = Encode(frame)
  OBVIOUS
<1>2. EncodesTo(frame, w)
  BY <1>1, BytesEncode
<1>3. w \in Seq(Byte) /\ Len(w) >= 1 /\ Len(w) <= ENCODED_SIZE(Len(frame))
  BY <1>2 DEF EncodesTo, Delimited
<1>4. e \in Seq(Byte) /\ Len(e) <= Len(w)
  <2>1. CASE e = w
    BY <1>3, <2>1
  <2>2. CASE e \in Damages(w)
    BY <1>3, <2>2, DamagesAreBytes DEF IsDamaged
  <2> QED  BY <1>1, <2>1, <2>2
<1>5. PICK a, b, c : a = Len(e) /\ b = Len(w) /\ c = ENCODED_SIZE(Len(frame))
  OBVIOUS
<1>6. a \in Nat /\ b \in Nat /\ c \in Nat
  <2>1. Len(frame) \in Nat
    OBVIOUS
  <2>2. c \in Nat
    BY <1>5, <2>1, EncodedSizesGrow
  <2> QED  BY <1>3, <1>4, <1>5, <2>2
<1> QED  BY <1>3, <1>4, <1>5, <1>6, Capacities

\* The host sends a frame.
LEMMA SendingKeeps == HostCommandInvariant /\ HostSends => HostCommandInvariant'
<1> SUFFICES ASSUME HostCommandInvariant, HostSends PROVE HostCommandInvariant'
  OBVIOUS
<1>1. BytesKept /\ ScriptKept /\ failed \in BOOLEAN /\ AnswersKept(txFifo, due, failed, heard)
  BY DEF HostCommandInvariant
<1>2. script # 0 /\ frames < Len(Scripts[script].traffic) /\ frames' = frames + 1 /\ script' = script
  BY DEF HostSends
<1>3. UNCHANGED <<published, configuration, kept, txFifo, due, heard, overrun, failed>>
  BY DEF HostSends
<1>4. script \in DOMAIN Scripts /\ frames \in Nat
  BY <1>1, <1>2 DEF ScriptKept
<1>5. PICK frame \in Scripts[script].traffic[frames + 1] :
         encoded' = Encode(frame) \/ encoded' \in Damages(Encode(frame))
  BY DEF HostSends
<1>6. frame \in Seq(Byte) /\ ENCODED_SIZE(Len(frame)) <= RX_FRAME_CAPACITY
  BY <1>2, <1>4, FrameIsSent
<1>7. encoded' \in Seq(Byte) /\ Len(encoded') <= RX_FRAME_CAPACITY
  BY <1>5, <1>6, SentFrameFits
<1>8. BytesKept'
  BY <1>1, <1>3, <1>7 DEF BytesKept
<1>9. ScriptKept'
  BY <1>2, <1>4 DEF ScriptKept
<1>10. failed' \in BOOLEAN /\ AnswersKept(txFifo', due', failed', heard')
  BY <1>1, <1>3
<1> QED  BY <1>8, <1>9, <1>10, Zenon DEF HostCommandInvariant

\* processFrame() and publishRequest().
LEMMA ProcessingKeeps == HostCommandInvariant /\ ProcessFrame => HostCommandInvariant'
<1> SUFFICES ASSUME HostCommandInvariant, ProcessFrame PROVE HostCommandInvariant'
  OBVIOUS
<1>1. BytesKept /\ ScriptKept /\ failed \in BOOLEAN /\ AnswersKept(txFifo, due, failed, heard)
  BY DEF HostCommandInvariant
<1>2. UNCHANGED <<configuration, kept, txFifo, due, heard, failed, frames, script>>
  BY DEF ProcessFrame
<1>3. PICK d, decoded : d = Unstuff(encoded) /\ decoded = DecodedFrame(d)
  OBVIOUS
<1>4. /\ encoded # <<>> /\ encoded' = <<>>
      /\ published' = IF HasOverhead(decoded) /\ LengthMatches(decoded) /\ CrcMatches(decoded)
                      THEN RequestIn(decoded) ELSE NOTHING
      /\ overrun' = \/ overrun
                    \/ Len(encoded) > RX_FRAME_CAPACITY
                    \/ Len(d.out) > DECODED_FRAME_CAPACITY
                    \/ LastByteRead(decoded) > Len(decoded)
  BY <1>3, Zenon DEF ProcessFrame, DecodedFrame, NONE
<1>5. encoded \in Seq(Byte) /\ Len(encoded) <= RX_FRAME_CAPACITY /\ overrun = FALSE
  BY <1>1 DEF BytesKept
<1>6. /\ ~(Len(d.out) > DECODED_FRAME_CAPACITY)
      /\ ~(LastByteRead(decoded) > Len(decoded))
      /\ HasOverhead(decoded) => IsPublished(RequestIn(decoded))
  BY <1>3, <1>4, <1>5, FrameIsProcessed, Zenon
<1>7. IsPublished(published')
  BY <1>4, <1>6 DEF IsPublished
<1>8. overrun' = FALSE
  <2>1. PICK len \in Nat : len = Len(encoded)
    BY <1>5
  <2>2. ~(Len(encoded) > RX_FRAME_CAPACITY)
    BY <1>5, <2>1, Capacities
  <2> QED  BY <1>4, <1>5, <1>6, <2>2
<1>9. encoded' \in Seq(Byte) /\ Len(encoded') <= RX_FRAME_CAPACITY
  BY <1>4, Capacities
<1>10. BytesKept'
  BY <1>1, <1>2, <1>7, <1>8, <1>9 DEF BytesKept
<1>11. ScriptKept'
  BY <1>1, <1>2 DEF ScriptKept
<1>12. failed' \in BOOLEAN /\ AnswersKept(txFifo', due', failed', heard')
  BY <1>1, <1>2
<1> QED  BY <1>10, <1>11, <1>12, Zenon DEF HostCommandInvariant

\* sendResponse() of an answer, whether it finds room or not.
LEMMA RespondingKeeps ==
  ASSUME AnswersKept(txFifo, due, failed, heard), failed = FALSE, overrun = FALSE,
         NEW d, IsAnswer(d), SendResponse(d[1], d[2]), due' = Append(due, d), heard' = heard
  PROVE  AnswersKept(txFifo', due', failed', heard') /\ overrun' = FALSE /\ failed' \in BOOLEAN
<1>1. PICK w : w = Answer(d)
  OBVIOUS
<1>2. w = Encode(FrameOf(d[1], d[2]))
  BY <1>1 DEF Answer
<1>3. w \in Seq(Byte) /\ Len(w) <= ENCODED_SIZE(DECODED_FRAME_CAPACITY)
      /\ Len(d[2]) <= DECODED_FRAME_CAPACITY - FRAME_OVERHEAD
  BY <1>1, AnswerFits
<1>4. /\ overrun' = (overrun \/ Len(w) > ENCODED_SIZE(DECODED_FRAME_CAPACITY))
      /\ IF /\ Len(d[2]) <= DECODED_FRAME_CAPACITY - FRAME_OVERHEAD
            /\ Len(w) <= ENCODED_SIZE(DECODED_FRAME_CAPACITY)
            /\ CanPush(txFifo, w)
         THEN txFifo' = Push(txFifo, w) /\ failed' = failed
         ELSE failed' = TRUE /\ txFifo' = txFifo
  BY <1>2, Zenon DEF SendResponse
<1>5. AnswersKept(txFifo, due, FALSE, heard)
  OBVIOUS
<1>6. overrun' = FALSE
  <2>1. PICK n \in Nat : n = DECODED_FRAME_CAPACITY
    BY Capacities
  <2>2. ENCODED_SIZE(n) \in Nat
    <3>1. n <= n
      OBVIOUS
    <3> QED  BY <3>1, EncodedSizesGrow
  <2>3. PICK a, b : a = Len(w) /\ b = ENCODED_SIZE(n)
    OBVIOUS
  <2>4. a \in Nat /\ b \in Nat /\ a <= b
    BY <1>3, <2>1, <2>2, <2>3
  <2>5. ~(a > b)
    BY <2>4
  <2> QED  BY <1>4, <2>1, <2>3, <2>5
<1>7. CASE CanPush(txFifo, w)
  <2>1. txFifo' = Push(txFifo, w) /\ failed' = FALSE
    BY <1>3, <1>4, <1>7, Zenon
  <2>2. AnswersKept(Push(txFifo, w), Append(due, d), FALSE, heard)
    BY <1>1, <1>5, <1>7, Responding, Zenon
  <2> QED  BY <1>6, <2>1, <2>2
<1>8. CASE ~CanPush(txFifo, w)
  <2>1. txFifo' = txFifo /\ failed' = TRUE
    BY <1>4, <1>8, Zenon
  <2>2. AnswersKept(txFifo, Append(due, d), TRUE, heard)
    BY <1>1, <1>5, <1>8, NoRoom, Zenon
  <2> QED  BY <1>6, <2>1, <2>2
<1> QED  BY <1>7, <1>8

\* The RF manager carries a request out.
LEMMA CarryingKeeps ==
  ASSUME BytesKept, Carry(published), encoded' = encoded, overrun' = FALSE
  PROVE  BytesKept'
<1>1. /\ encoded \in Seq(Byte) /\ Len(encoded) <= RX_FRAME_CAPACITY /\ IsPublished(published)
      /\ kept \in Seq(Byte) /\ HasConfigurationSize(kept) /\ configuration = getConfiguration(kept)
  BY DEF BytesKept
<1>2. published' = NOTHING
  BY DEF Carry
<1>3. kept' \in Seq(Byte) /\ HasConfigurationSize(kept') /\ configuration' = getConfiguration(kept')
  <2>1. CASE published.command = SET_CONFIG
    <3>1. configuration' = getConfiguration(published.payload) /\ kept' = published.payload
      BY <2>1 DEF Carry
    <3> QED  BY <1>1, <2>1, <3>1, PublishedConfiguration
  <2>2. CASE ~(published.command = SET_CONFIG)
    <3>1. configuration' = configuration /\ kept' = kept
      BY <2>2 DEF Carry
    <3> QED  BY <1>1, <3>1
  <2> QED  BY <2>1, <2>2
<1> QED  BY <1>1, <1>2, <1>3, Zenon DEF BytesKept, IsPublished

\* No configuration is longer than that of FSK.
LEMMA ConfigurationIsShort ==
  ASSUME NEW x
  PROVE  getConfigurationSize(x) <= 53
BY DEF getConfigurationSize, LORA, FSK, MSK, BPSK

\* hostCommandManagerActivities_handleGetConfigResponse().
LEMMA ConfigurationKeeps == HostCommandInvariant /\ GetConfigResponse => HostCommandInvariant'
<1> SUFFICES ASSUME HostCommandInvariant, GetConfigResponse PROVE HostCommandInvariant'
  OBVIOUS
<1>1. BytesKept /\ ScriptKept /\ failed \in BOOLEAN /\ AnswersKept(txFifo, due, failed, heard)
  BY DEF HostCommandInvariant
<1>2. PICK d : d = <<GET_CONFIG_RESPONSE, kept>>
  OBVIOUS
<1>3. d[1] = GET_CONFIG_RESPONSE /\ d[2] = kept
  BY <1>2
<1>4. kept \in Seq(Byte) /\ HasConfigurationSize(kept) /\ configuration = getConfiguration(kept)
      /\ overrun = FALSE
  BY <1>1 DEF BytesKept
<1>5. setConfiguration(configuration) = kept
  BY <1>4, SetOfGet
<1>6. IsAnswer(d)
  <2>1. PICK n \in Nat : n = Len(kept)
    BY <1>4
  <2>2. n <= 53
    BY <1>4, <2>1, ConfigurationIsShort DEF HasConfigurationSize
  <2> QED  BY <1>2, <1>4, <2>1, <2>2 DEF IsAnswer, GET_CONFIG_RESPONSE, PACKET_DATA_CAPACITY
<1>7. failed = FALSE
  BY <1>1 DEF GetConfigResponse
<1>8. SendResponse(d[1], d[2]) /\ due' = Append(due, d)
  BY <1>2, <1>3, <1>5 DEF GetConfigResponse
<1>9. Carry(published) /\ encoded' = encoded /\ heard' = heard /\ frames' = frames /\ script' = script
  BY DEF GetConfigResponse
<1>10. AnswersKept(txFifo', due', failed', heard') /\ overrun' = FALSE /\ failed' \in BOOLEAN
  BY <1>1, <1>4, <1>6, <1>7, <1>8, <1>9, RespondingKeeps, Zenon
<1>11. BytesKept'
  BY <1>1, <1>9, <1>10, CarryingKeeps, Zenon
<1>12. ScriptKept'
  BY <1>1, <1>9 DEF ScriptKept
<1> QED  BY <1>10, <1>11, <1>12, Zenon DEF HostCommandInvariant

\* Diagnostics of three bytes are an answer.
LEMMA ThreeBytesAnswer ==
  ASSUME NEW o \in Byte, NEW a \in Seq(Byte), Len(a) = 2
  PROVE  IsAnswer(<<GET_DIAGNOSTICS_RESPONSE, <<o>> \o a>>)
<1>1. PICK s : s = <<o>>
  OBVIOUS
<1>2. s \in Seq(Byte) /\ Len(s) = 1
  BY <1>1
<1>3. s \o a \in Seq(Byte) /\ Len(s \o a) = Len(s) + Len(a)
  BY <1>2, Concatenates
<1>4. PICK b : b = s \o a
  OBVIOUS
<1>5. b \in Seq(Byte) /\ Len(b) = 3
  BY <1>2, <1>3, <1>4
<1>6. PICK d : d = <<GET_DIAGNOSTICS_RESPONSE, b>>
  OBVIOUS
<1>7. d \in Nat \X Seq(Byte) /\ d[2] = b
  BY <1>5, <1>6 DEF GET_DIAGNOSTICS_RESPONSE
<1>8. Len(d[2]) = 3
  BY <1>5, <1>7
<1>9. 3 <= PACKET_DATA_CAPACITY + 3
  BY DEF PACKET_DATA_CAPACITY
<1>10. IsAnswer(d)
  BY <1>7, <1>8, <1>9 DEF IsAnswer
<1> QED  BY <1>1, <1>4, <1>6, <1>10

\* The operation and the errors of the diagnostics are an answer.
LEMMA DiagnosticsAreAnswer ==
  ASSUME NEW operation \in Byte, NEW errors \in Nat
  PROVE  IsAnswer(<<GET_DIAGNOSTICS_RESPONSE, <<operation>> \o WriteLE(errors, 2)>>)
<1>1. PICK a : a = WriteLE(errors, 2)
  OBVIOUS
<1>2. 2 \in 1..4
  OBVIOUS
<1>3. a \in Seq(Byte) /\ Len(a) = 2
  BY <1>1, <1>2, WriteLEDigits DEF HasDigits
<1>4. IsAnswer(<<GET_DIAGNOSTICS_RESPONSE, <<operation>> \o a>>)
  BY <1>3, ThreeBytesAnswer
<1> QED  BY <1>1, <1>4

\* hostCommandManagerActivities_handleGetDiagnosticsResponse().
LEMMA DiagnosticsKeep == HostCommandInvariant /\ GetDiagnosticsResponse => HostCommandInvariant'
<1> SUFFICES ASSUME HostCommandInvariant, GetDiagnosticsResponse PROVE HostCommandInvariant'
  OBVIOUS
<1>1. BytesKept /\ ScriptKept /\ failed \in BOOLEAN /\ AnswersKept(txFifo, due, failed, heard)
  BY DEF HostCommandInvariant
<1>2. PICK operation \in {0, 6}, errors \in {0, 256} :
        /\ SendResponse(GET_DIAGNOSTICS_RESPONSE, <<operation>> \o WriteLE(errors, 2))
        /\ due' = Append(due, <<GET_DIAGNOSTICS_RESPONSE, <<operation>> \o WriteLE(errors, 2)>>)
  BY DEF GetDiagnosticsResponse
<1>3. PICK d : d = <<GET_DIAGNOSTICS_RESPONSE, <<operation>> \o WriteLE(errors, 2)>>
  OBVIOUS
<1>4. d[1] = GET_DIAGNOSTICS_RESPONSE /\ d[2] = <<operation>> \o WriteLE(errors, 2)
  BY <1>3
<1>5. IsAnswer(d)
  <2>1. operation \in Byte /\ errors \in Nat
    BY DEF Byte
  <2> QED  BY <1>3, <2>1, DiagnosticsAreAnswer
<1>6. overrun = FALSE /\ failed = FALSE
  BY <1>1 DEF BytesKept, GetDiagnosticsResponse
<1>7. SendResponse(d[1], d[2]) /\ due' = Append(due, d)
  BY <1>2, <1>3, <1>4, Zenon
<1>8. Carry(published) /\ encoded' = encoded /\ heard' = heard /\ frames' = frames /\ script' = script
  BY DEF GetDiagnosticsResponse
<1>9. AnswersKept(txFifo', due', failed', heard') /\ overrun' = FALSE /\ failed' \in BOOLEAN
  BY <1>1, <1>5, <1>6, <1>7, <1>8, RespondingKeeps, Zenon
<1>10. BytesKept'
  BY <1>1, <1>8, <1>9, CarryingKeeps, Zenon
<1>11. ScriptKept'
  BY <1>1, <1>8 DEF ScriptKept
<1> QED  BY <1>9, <1>10, <1>11, Zenon DEF HostCommandInvariant

\* A request that has no response.
LEMMA CarryingOutKeeps == HostCommandInvariant /\ WithoutResponse => HostCommandInvariant'
<1> SUFFICES ASSUME HostCommandInvariant, WithoutResponse PROVE HostCommandInvariant'
  OBVIOUS
<1>1. BytesKept /\ ScriptKept /\ failed \in BOOLEAN /\ AnswersKept(txFifo, due, failed, heard)
  BY DEF HostCommandInvariant
<1>2. /\ Carry(published)
      /\ UNCHANGED <<encoded, txFifo, due, heard, overrun, failed, frames, script>>
  BY DEF WithoutResponse
<1>3. BytesKept'
  BY <1>1, <1>2, CarryingKeeps DEF BytesKept
<1>4. ScriptKept'
  BY <1>1, <1>2 DEF ScriptKept
<1>5. failed' \in BOOLEAN /\ AnswersKept(txFifo', due', failed', heard')
  BY <1>1, <1>2
<1> QED  BY <1>3, <1>4, <1>5, Zenon DEF HostCommandInvariant

\* A received packet, between its length and its status, is an answer.
LEMMA PacketIsAnswer ==
  ASSUME NEW q \in Seq(Byte), Len(q) >= 2, Len(q) <= PACKET_DATA_CAPACITY + 2
  PROVE  IsAnswer(<<RX_PACKET, <<Len(q) - 2>> \o q>>)
<1>1. PICK n \in Nat : n = Len(q)
  OBVIOUS
<1>2. n - 2 \in Byte /\ 1 + n <= PACKET_DATA_CAPACITY + 3
  <2>1. n >= 2 /\ n <= 257
    BY <1>1 DEF PACKET_DATA_CAPACITY
  <2>2. n - 2 \in 0..255 /\ 1 + n <= 258
    BY <2>1
  <2> QED  BY <2>2 DEF Byte, PACKET_DATA_CAPACITY
<1>3. PICK s : s = <<n - 2>>
  OBVIOUS
<1>4. s \in Seq(Byte) /\ Len(s) = 1
  BY <1>2, <1>3
<1>5. s \o q \in Seq(Byte) /\ Len(s \o q) = Len(s) + Len(q)
  BY <1>4, Concatenates
<1>6. PICK b : b = s \o q
  OBVIOUS
<1>7. b \in Seq(Byte) /\ Len(b) = 1 + n
  BY <1>1, <1>4, <1>5, <1>6
<1>8. PICK d : d = <<RX_PACKET, b>>
  OBVIOUS
<1>9. d \in Nat \X Seq(Byte) /\ d[2] = b
  BY <1>7, <1>8 DEF RX_PACKET
<1>10. IsAnswer(d)
  BY <1>2, <1>7, <1>9 DEF IsAnswer
<1> QED  BY <1>1, <1>3, <1>6, <1>8, <1>10

\* A detection report, which has no payload, is an answer.
LEMMA EmptyIsAnswer == IsAnswer(<<CAD_DETECTED, <<>>>>)
<1>1. PICK d : d = <<CAD_DETECTED, <<>>>>
  OBVIOUS
<1>2. d \in Nat \X Seq(Byte) /\ d[2] = <<>>
  <2>1. CAD_DETECTED \in Nat
    BY DEF CAD_DETECTED
  <2>2. <<>> \in Seq(Byte)
    OBVIOUS
  <2> QED  BY <1>1, <2>1, <2>2
<1>3. Len(d[2]) <= PACKET_DATA_CAPACITY + 3
  BY <1>2 DEF PACKET_DATA_CAPACITY
<1> QED  BY <1>1, <1>2, <1>3 DEF IsAnswer

\* Each report of the RF manager is an answer.
LEMMA ReportIsAnswer ==
  ASSUME NEW s \in DOMAIN Scripts, NEW report \in Scripts[s].reports
  PROVE  IsAnswer(<<report[1], ReportOf(report)>>)
<1>1. \/ report[1] = CAD_DETECTED
      \/ /\ report[1] = RX_PACKET /\ report[2] \in Seq(0..(RADIX - 1))
         /\ Len(report[2]) \in 2..(PACKET_DATA_CAPACITY + 2)
  BY HostCommandAssumption DEF HostCommandAssumption
<1>2. CASE report[1] = CAD_DETECTED
  <2>1. ReportOf(report) = <<>>
    BY <1>2 DEF ReportOf, CAD_DETECTED, RX_PACKET
  <2> QED  BY <1>2, <2>1, EmptyIsAnswer
<1>3. CASE /\ report[1] = RX_PACKET /\ report[2] \in Seq(0..(RADIX - 1))
           /\ Len(report[2]) \in 2..(PACKET_DATA_CAPACITY + 2)
  <2>1. PICK q : q = report[2]
    OBVIOUS
  <2>2. q \in Seq(Byte) /\ Len(q) >= 2 /\ Len(q) <= PACKET_DATA_CAPACITY + 2
    <3>1. q \in Seq(0..(RADIX - 1)) /\ Len(q) \in 2..(PACKET_DATA_CAPACITY + 2)
      BY <1>3, <2>1
    <3>2. q \in Seq(Byte)
      BY <3>1, RadixBytes, Zenon
    <3>3. PACKET_DATA_CAPACITY \in Int
      BY DEF PACKET_DATA_CAPACITY
    <3> QED  BY <3>1, <3>2, <3>3
  <2>3. ReportOf(report) = <<Len(q) - 2>> \o q
    BY <1>3, <2>1 DEF ReportOf
  <2>4. IsAnswer(<<RX_PACKET, <<Len(q) - 2>> \o q>>)
    BY <2>2, PacketIsAnswer
  <2> QED  BY <1>3, <2>3, <2>4
<1> QED  BY <1>1, <1>2, <1>3

\* hostCommandManagerActivities_handleRxPacket() and its companion for detections.
LEMMA ReportingKeeps == HostCommandInvariant /\ RfReports => HostCommandInvariant'
<1> SUFFICES ASSUME HostCommandInvariant, RfReports PROVE HostCommandInvariant'
  OBVIOUS
<1>1. BytesKept /\ ScriptKept /\ failed \in BOOLEAN /\ AnswersKept(txFifo, due, failed, heard)
  BY DEF HostCommandInvariant
<1>2. script \in DOMAIN Scripts
  BY <1>1 DEF RfReports, ScriptKept
<1>3. PICK report \in Scripts[script].reports :
        /\ SendResponse(report[1], ReportOf(report))
        /\ due' = Append(due, <<report[1], ReportOf(report)>>)
  BY DEF RfReports
<1>4. PICK d : d = <<report[1], ReportOf(report)>>
  OBVIOUS
<1>5. d[1] = report[1] /\ d[2] = ReportOf(report)
  BY <1>4
<1>6. IsAnswer(d)
  BY <1>2, <1>4, ReportIsAnswer
<1>7. overrun = FALSE /\ failed = FALSE
  BY <1>1 DEF BytesKept, RfReports
<1>8. SendResponse(d[1], d[2]) /\ due' = Append(due, d)
  BY <1>3, <1>4, <1>5, Zenon
<1>9. UNCHANGED <<encoded, published, configuration, kept, heard, frames, script>>
  BY DEF RfReports
<1>10. AnswersKept(txFifo', due', failed', heard') /\ overrun' = FALSE /\ failed' \in BOOLEAN
  BY <1>1, <1>6, <1>7, <1>8, <1>9, RespondingKeeps
<1>11. BytesKept'
  BY <1>1, <1>9, <1>10 DEF BytesKept
<1>12. ScriptKept'
  BY <1>1, <1>9 DEF ScriptKept
<1> QED  BY <1>10, <1>11, <1>12, Zenon DEF HostCommandInvariant

\* The USART takes a frame from the TX FIFO.
LEMMA TransmittingKeeps == HostCommandInvariant /\ UsartTransmits => HostCommandInvariant'
<1> SUFFICES ASSUME HostCommandInvariant, UsartTransmits PROVE HostCommandInvariant'
  OBVIOUS
<1>1. BytesKept /\ ScriptKept /\ failed \in BOOLEAN /\ AnswersKept(txFifo, due, failed, heard)
  BY DEF HostCommandInvariant
<1>2. PICK q : q = Contents(txFifo)
  OBVIOUS
<1>3. PICK n \in 1..txFifo.used :
        /\ q[n] = PACKET_DELIMITER
        /\ \A i \in 1..(n - 1) : q[i] # PACKET_DELIMITER
        /\ txFifo' = Drop(txFifo, n)
        /\ heard' = <<Decode(SubSeq(q, 1, n)), FrameOf(Head(due)[1], Head(due)[2])>>
  BY <1>2, Zenon DEF UsartTransmits, Contents
<1>4. IsEnd(Contents(txFifo), n)
  BY <1>2, <1>3, Zenon DEF IsEnd
<1>5. due' = Tail(due) /\ failed = FALSE
      /\ UNCHANGED <<encoded, published, configuration, kept, overrun, failed, frames, script>>
  BY <1>1 DEF UsartTransmits
<1>6. AnswersKept(txFifo, due, FALSE, heard)
  BY <1>1, <1>5
<1>7. AnswersKept(Drop(txFifo, n), Tail(due), FALSE,
                  <<Decode(SubSeq(Contents(txFifo), 1, n)), FrameOf(Head(due)[1], Head(due)[2])>>)
  BY <1>4, <1>6, Hearing, Zenon
<1>8. AnswersKept(txFifo', due', failed', heard') /\ failed' \in BOOLEAN
  BY <1>2, <1>3, <1>5, <1>7
<1>9. BytesKept'
  BY <1>1, <1>5 DEF BytesKept
<1>10. ScriptKept'
  BY <1>1, <1>5 DEF ScriptKept
<1> QED  BY <1>8, <1>9, <1>10, Zenon DEF HostCommandInvariant

\* A step that changes nothing.
LEMMA StayingKeeps == HostCommandInvariant /\ UNCHANGED vars => HostCommandInvariant'
<1> SUFFICES ASSUME HostCommandInvariant, UNCHANGED vars PROVE HostCommandInvariant'
  OBVIOUS
<1>1. UNCHANGED <<encoded, published, configuration, kept, overrun, failed, frames, script, txFifo, due, heard>>
  BY DEF vars
<1>2. BytesKept /\ ScriptKept /\ failed \in BOOLEAN /\ AnswersKept(txFifo, due, failed, heard)
  BY DEF HostCommandInvariant
<1>3. BytesKept' /\ ScriptKept'
  BY <1>1, <1>2 DEF BytesKept, ScriptKept
<1>4. failed' \in BOOLEAN /\ AnswersKept(txFifo', due', failed', heard')
  BY <1>1, <1>2
<1> QED  BY <1>3, <1>4, Zenon DEF HostCommandInvariant

\* The invariant holds at all times, from the assumptions on the constants alone.
THEOREM CodecsAreKept == Spec => []HostCommandInvariant
<1>1. Init => HostCommandInvariant
  BY Initially
<1>2. HostCommandInvariant /\ [Next]_vars => HostCommandInvariant'
  BY SendingKeeps, ProcessingKeeps, ConfigurationKeeps, DiagnosticsKeep, CarryingOutKeeps,
     ReportingKeeps, TransmittingKeeps, StayingKeeps, Zenon DEF Next
<1> QED  BY <1>1, <1>2, PTL DEF Spec

\* No configuration or calibration that is accepted from the host, whatever bytes arrive, fails
\* an assertion of the radio HAL, is cut off by a register, or makes a reception endless.
THEOREM ProgrammableAtAllTimes == Spec => []AcceptedIsProgrammable
<1>1. HostCommandInvariant => AcceptedIsProgrammable
  <2> SUFFICES ASSUME HostCommandInvariant PROVE AcceptedIsProgrammable
    OBVIOUS
  <2>1. PICK p : p = published
    OBVIOUS
  <2>2. IsPublished(p)
    BY <2>1 DEF HostCommandInvariant, BytesKept
  <2>3. CASE p.command = SET_CONFIG
    <3>1. PICK c : c = getConfiguration(p.payload)
      OBVIOUS
    <3>2. p.payload \in Seq(Byte) /\ HasConfigurationSize(p.payload) /\ isConfigurationValid(c)
      BY <2>2, <2>3, <3>1, PublishedConfiguration
    <3>3. c.packet_type \in PacketTypes /\ c.packet_type = p.payload[1]
      BY <3>1, <3>2, TypeOfConfiguration
    <3>4. c.packet_type \in {FSK, MSK} => c.bit_rate_bps \in Nat
      BY <3>1, <3>2, <3>3, RateIsNatural
    <3>5. /\ AssertionsHold(c)
          /\ c.packet_type \in {FSK, MSK} => RateDivisor(c) < RADIX^3
          /\ c.packet_type \in {FSK, LORA} /\ c.rx_mode = 0 => ReceiveTimeout(c) # RX_CONTINUOUS
      BY <3>2, <3>3, <3>4, ValidIsProgrammable
    <3> QED  BY <2>1, <2>3, <3>1, <3>5, Signals, Zenon DEF AcceptedIsProgrammable
  <2>4. CASE p.command = CALIBRATE
    <3>1. IsRequest(p.command, p.payload)
      BY <2>2, <2>4, Signals DEF IsPublished
    <3>2. IsCalibration(p.payload)
      BY <2>4, <3>1, Signals, Zenon DEF IsRequest
    <3> QED  BY <2>1, <2>4, <3>2, Signals DEF AcceptedIsProgrammable, IsCalibration
  <2>5. CASE p.command # SET_CONFIG /\ p.command # CALIBRATE
    BY <2>1, <2>5, Zenon DEF AcceptedIsProgrammable
  <2> QED  BY <2>3, <2>4, <2>5
<1> QED  BY <1>1, CodecsAreKept, PTL

\* The host decodes every response to exactly what it should hold, however the ring of the TX
\* FIFO wraps: the configuration it reads back is the bytes it set.
THEOREM AnswersStayExact == Spec => []AnswersAreExact
<1>1. HostCommandInvariant => AnswersAreExact
  <2> SUFFICES ASSUME HostCommandInvariant PROVE AnswersAreExact
    OBVIOUS
  <2>1. AnswersKept(txFifo, due, failed, heard)
    BY DEF HostCommandInvariant
  <2>2. due \in Seq(Nat \X Seq(Byte)) /\ (~failed => Carries(txFifo, due))
        /\ (heard # <<>> => heard[1] = heard[2])
    BY <2>1 DEF AnswersKept
  <2>3. \A i \in 1..Len(due) : Delimited(Byte, Answer(due[i]))
    <3> TAKE i \in 1..Len(due)
    <3>1. due[i] \in Nat \X Seq(Byte)
      BY <2>2, ElementOfSeq
    <3> QED  BY <3>1, AnswersEncode
  <2>4. ASSUME ~failed, isEmpty(txFifo) PROVE due = <<>>
    <3>1. txFifo.used = 0
      BY <2>4 DEF isEmpty
    <3> QED  BY <2>2, <2>3, <2>4, <3>1, EmptyCarriesNothing
  <2> QED  BY <2>2, <2>4 DEF AnswersAreExact
<1> QED  BY <1>1, CodecsAreKept, PTL

\* No array of the codecs is written or read beyond its end, whatever bytes arrive, and a
\* response finds no room only when another is before it.
THEOREM NothingOverrunsEver == Spec => []NothingIsOverrun
<1>1. HostCommandInvariant => NothingIsOverrun
  BY DEF HostCommandInvariant, BytesKept, AnswersKept, NothingIsOverrun
<1> QED  BY <1>1, CodecsAreKept, PTL

-----------------------------------------------------------------------------
(* A frame that arrives whole is the request it stands for. *)

\* The bytes of x lie in s, from there on.
IsIn(s, x, from) == \A i \in 1..Len(x) : s[from + i] = x[i]

\* A frame and its parts: command, length, payload, CRC.
IsAssembled(s, a, b, p, c) ==
  /\ s \in Seq(Byte) /\ Len(s) = Len(p) + 6
  /\ IsIn(s, a, 0) /\ IsIn(s, b, 2) /\ IsIn(s, p, 4) /\ IsIn(s, c, Len(p) + 4)

\* Where the parts of a concatenation lie.
LEMMA PartIsIn ==
  ASSUME NEW x \in Seq(Byte), NEW y \in Seq(Byte), NEW n \in Nat, Len(x) = n
  PROVE  IsIn(x \o y, x, 0) /\ IsIn(x \o y, y, n)
<1>1. \A i \in 1..n : (x \o y)[i] = x[i]
  BY ConcatProperties
<1>2. \A i \in 1..Len(y) : (x \o y)[n + i] = y[i]
  <2> TAKE i \in 1..Len(y)
  <2>1. PICK j : j = n + i
    OBVIOUS
  <2>2. j \in 1..(Len(x) + Len(y)) /\ ~(j <= Len(x)) /\ j - Len(x) = i
    BY <2>1
  <2>3. (x \o y)[j] = y[j - Len(x)]
    BY <2>2, ConcatProperties
  <2> QED  BY <2>1, <2>2, <2>3
<1>3. \A i \in 1..n : (x \o y)[0 + i] = x[i]
  BY <1>1
<1> QED  BY <1>2, <1>3 DEF IsIn

\* What lies in the first part lies in the whole.
LEMMA IsInBoth ==
  ASSUME NEW x \in Seq(Byte), NEW y \in Seq(Byte), NEW z, NEW from \in Nat,
         IsIn(x, z, from), NEW m \in Nat, m = Len(z), from + m <= Len(x)
  PROVE  IsIn(x \o y, z, from)
<1>1. \A i \in 1..Len(x) : (x \o y)[i] = x[i]
  BY ConcatProperties
<1>2. ASSUME NEW i \in 1..m PROVE (x \o y)[from + i] = z[i]
  <2>1. PICK j : j = from + i
    OBVIOUS
  <2>2. j \in 1..Len(x)
    BY <2>1
  <2>3. x[from + i] = z[i]
    BY DEF IsIn
  <2> QED  BY <1>1, <2>1, <2>2, <2>3
<1> QED  BY <1>2 DEF IsIn

\* What the CRC covers.
IsCovered(a, b, p) == (a \o b) \o p \in Seq(Byte) /\ Len((a \o b) \o p) = Len(p) + 4

\* A frame put together holds its parts where they belong.
LEMMA Assembled ==
  ASSUME NEW a \in Seq(Byte), Len(a) = 2, NEW b \in Seq(Byte), Len(b) = 2,
         NEW p \in Seq(Byte), NEW c \in Seq(Byte), Len(c) = 2
  PROVE  IsCovered(a, b, p) /\ IsAssembled(((a \o b) \o p) \o c, a, b, p, c)
<1>1. PICK n \in Nat : n = Len(p)
  OBVIOUS
<1>2. PICK x : x = a \o b
  OBVIOUS
<1>3. x \in Seq(Byte) /\ Len(x) = 4
  <2>1. a \o b \in Seq(Byte) /\ Len(a \o b) = Len(a) + Len(b)
    BY Concatenates
  <2> QED  BY <1>2, <2>1
<1>4. IsIn(x, a, 0) /\ IsIn(x, b, 2)
  <2>1. 2 \in Nat /\ Len(a) = 2
    OBVIOUS
  <2>2. IsIn(a \o b, a, 0) /\ IsIn(a \o b, b, 2)
    BY <2>1, PartIsIn
  <2> QED  BY <1>2, <2>2, Zenon
<1>5. PICK y : y = x \o p
  OBVIOUS
<1>6. y \in Seq(Byte) /\ Len(y) = n + 4
  <2>1. x \o p \in Seq(Byte) /\ Len(x \o p) = Len(x) + Len(p)
    BY <1>3, Concatenates
  <2> QED  BY <1>1, <1>3, <1>5, <2>1
<1>7. IsIn(y, a, 0) /\ IsIn(y, b, 2) /\ IsIn(y, p, 4)
  <2>0. /\ 0 \in Nat /\ 2 \in Nat /\ 4 \in Nat /\ 2 = Len(a) /\ 2 = Len(b) /\ 0 + 2 <= Len(x)
        /\ 2 + 2 <= Len(x)
    BY <1>3
  <2>1. IsIn(x \o p, a, 0)
    BY <1>3, <1>4, <2>0, IsInBoth
  <2>2. IsIn(x \o p, b, 2)
    BY <1>3, <1>4, <2>0, IsInBoth
  <2>3. IsIn(x \o p, p, 4)
    BY <1>3, <2>0, PartIsIn
  <2> QED  BY <1>5, <2>1, <2>2, <2>3
<1>8. PICK z : z = y \o c
  OBVIOUS
<1>9. z \in Seq(Byte) /\ Len(z) = n + 6
  <2>1. y \o c \in Seq(Byte) /\ Len(y \o c) = Len(y) + Len(c)
    BY <1>6, Concatenates
  <2> QED  BY <1>6, <1>8, <2>1
<1>10. IsIn(z, a, 0) /\ IsIn(z, b, 2) /\ IsIn(z, p, 4) /\ IsIn(z, c, n + 4)
  <2>0. /\ 0 \in Nat /\ 2 \in Nat /\ 4 \in Nat /\ 2 = Len(a) /\ 2 = Len(b) /\ 0 + 2 <= Len(y)
        /\ 2 + 2 <= Len(y) /\ 4 + n <= Len(y)
    BY <1>6
  <2>1. IsIn(y \o c, a, 0)
    BY <1>6, <1>7, <2>0, IsInBoth
  <2>2. IsIn(y \o c, b, 2)
    BY <1>6, <1>7, <2>0, IsInBoth
  <2>3. IsIn(y \o c, p, 4)
    BY <1>1, <1>6, <1>7, <2>0, IsInBoth
  <2>4. n + 4 \in Nat
    OBVIOUS
  <2>5. IsIn(y \o c, c, n + 4)
    BY <1>6, <2>4, PartIsIn
  <2> QED  BY <1>8, <2>1, <2>2, <2>3, <2>5
<1>11. IsCovered(a, b, p)
  BY <1>1, <1>2, <1>5, <1>6 DEF IsCovered
<1> QED  BY <1>1, <1>2, <1>5, <1>6, <1>8, <1>9, <1>10, <1>11, Zenon DEF IsAssembled

\* Frames of the same parts are the same.
LEMMA AssembledOnce ==
  ASSUME NEW s, NEW t, NEW a, NEW b, NEW p \in Seq(Byte), NEW c, Len(a) = 2, Len(b) = 2, Len(c) = 2,
         IsAssembled(s, a, b, p, c), IsAssembled(t, a, b, p, c)
  PROVE  s = t
<1>1. PICK n \in Nat : n = Len(p)
  OBVIOUS
<1>2. s \in Seq(Byte) /\ t \in Seq(Byte) /\ Len(s) = n + 6 /\ Len(t) = n + 6
  BY <1>1 DEF IsAssembled
<1>3. ASSUME NEW i \in 1..(n + 6) PROVE s[i] = t[i]
  <2>1. CASE i <= 2
    <3>1. i \in 1..2 /\ 0 + i = i
      BY <2>1
    <3> QED  BY <3>1 DEF IsAssembled, IsIn
  <2>2. CASE i > 2 /\ i <= 4
    <3>1. PICK j : j = i - 2
      OBVIOUS
    <3>2. j \in 1..2 /\ 2 + j = i
      BY <2>2, <3>1
    <3>3. s[2 + j] = b[j] /\ t[2 + j] = b[j]
      BY <3>2 DEF IsAssembled, IsIn
    <3> QED  BY <3>2, <3>3
  <2>3. CASE i > 4 /\ i <= n + 4
    <3>1. PICK j : j = i - 4
      OBVIOUS
    <3>2. j \in 1..Len(p) /\ 4 + j = i
      BY <1>1, <2>3, <3>1
    <3>3. s[4 + j] = p[j] /\ t[4 + j] = p[j]
      BY <3>2 DEF IsAssembled, IsIn
    <3> QED  BY <3>2, <3>3
  <2>4. CASE i > n + 4
    <3>1. PICK j : j = i - (n + 4)
      OBVIOUS
    <3>2. j \in 1..2 /\ (n + 4) + j = i
      BY <2>4, <3>1
    <3>3. s[(n + 4) + j] = c[j] /\ t[(n + 4) + j] = c[j]
      BY <1>1, <3>2 DEF IsAssembled, IsIn
    <3> QED  BY <3>2, <3>3
  <2> QED  BY <2>1, <2>2, <2>3, <2>4
<1> QED  BY <1>2, <1>3, SeqEqual

\* Bytes() within a frame are where they were taken from.
LEMMA BytesAt ==
  ASSUME NEW s \in Seq(Byte), NEW from \in Nat, NEW to \in Int, to - from + 1 \in Nat,
         from >= 1, to <= Len(s)
  PROVE  IsIn(s, Bytes(s, from, to), from - 1)
<1>1. PICK q : q = Bytes(s, from, to)
  OBVIOUS
<1>2. PICK n \in Nat : n = to - from + 1
  OBVIOUS
<1>3. q = [i \in 1..n |-> IF from + i - 1 \in DOMAIN s THEN s[from + i - 1] ELSE 0]
  BY <1>1, <1>2 DEF Bytes
<1>4. Len(q) = n
  BY <1>3
<1>5. ASSUME NEW i \in 1..n PROVE s[from - 1 + i] = q[i]
  <2>1. from + i - 1 = from - 1 + i /\ from + i - 1 \in 1..Len(s)
    BY <1>2
  <2>2. from + i - 1 \in DOMAIN s
    BY <2>1
  <2> QED  BY <1>3, <2>1, <2>2
<1> QED  BY <1>1, <1>4, <1>5 DEF IsIn

\* What a frame is taken apart into.
IsSplit(s, n, a, b, p, c) ==
  /\ a \in Seq(Byte) /\ Len(a) = 2 /\ b \in Seq(Byte) /\ Len(b) = 2
  /\ p \in Seq(Byte) /\ Len(p) = n /\ c \in Seq(Byte) /\ Len(c) = 2
  /\ IsAssembled(s, a, b, p, c)

\* processFrame() takes a frame apart into what FrameOf() puts together.
LEMMA SplitFrame ==
  ASSUME NEW s \in Seq(Byte), NEW n \in Nat, Len(s) = n + 6,
         NEW a, a = Bytes(s, 1, 2), NEW b, b = Bytes(s, 3, 4),
         NEW p, p = Bytes(s, 5, Len(s) - 2), NEW c, c = Bytes(s, Len(s) - 1, Len(s))
  PROVE  IsSplit(s, n, a, b, p, c)
<1>1. /\ 1 \in Nat /\ 2 \in Int /\ 2 - 1 + 1 \in Nat /\ 1 >= 1 /\ 2 <= Len(s)
      /\ 3 \in Nat /\ 4 \in Int /\ 4 - 3 + 1 \in Nat /\ 3 >= 1 /\ 4 <= Len(s)
      /\ 5 \in Nat /\ Len(s) - 2 \in Int /\ Len(s) - 2 - 5 + 1 \in Nat /\ 5 >= 1 /\ Len(s) - 2 <= Len(s)
      /\ Len(s) - 1 \in Nat /\ Len(s) \in Int /\ Len(s) - (Len(s) - 1) + 1 \in Nat
      /\ Len(s) - 1 >= 1 /\ Len(s) <= Len(s)
  OBVIOUS
<1>2. a \in Seq(Byte) /\ Len(a) = 2 - 1 + 1 /\ IsIn(s, a, 1 - 1)
  BY <1>1, BytesAreBytes, BytesAt
<1>3. b \in Seq(Byte) /\ Len(b) = 4 - 3 + 1 /\ IsIn(s, b, 3 - 1)
  BY <1>1, BytesAreBytes, BytesAt
<1>4. p \in Seq(Byte) /\ Len(p) = Len(s) - 2 - 5 + 1 /\ IsIn(s, p, 5 - 1)
  BY <1>1, BytesAreBytes, BytesAt
<1>5. c \in Seq(Byte) /\ Len(c) = Len(s) - (Len(s) - 1) + 1 /\ IsIn(s, c, Len(s) - 1 - 1)
  BY <1>1, BytesAreBytes, BytesAt
<1>6. 1 - 1 = 0 /\ 3 - 1 = 2 /\ 5 - 1 = 4 /\ Len(s) - 1 - 1 = n + 4
  OBVIOUS
<1>7. Len(a) = 2 /\ Len(b) = 2 /\ Len(p) = n /\ Len(c) = 2
  BY <1>2, <1>3, <1>4, <1>5
<1>8. IsIn(s, a, 0) /\ IsIn(s, b, 2) /\ IsIn(s, p, 4) /\ IsIn(s, c, Len(p) + 4)
  BY <1>2, <1>3, <1>4, <1>5, <1>6, <1>7
<1>9. IsAssembled(s, a, b, p, c)
  BY <1>7, <1>8 DEF IsAssembled
<1> QED  BY <1>2, <1>3, <1>4, <1>5, <1>7, <1>9, Zenon DEF IsSplit

\* The bytes of a number of sixteen bits.
HasTwoDigits(q, v) ==
  q \in Seq(Byte) /\ Len(q) = 2 /\ q[1] = v % 256 /\ q[2] = (v \div 256) % 256

\* WriteLE() of two bytes.
LEMMA TwoDigits ==
  ASSUME NEW v \in Nat
  PROVE  HasTwoDigits(WriteLE(v, 2), v)
<1>1. 2 \in 1..4
  OBVIOUS
<1>2. HasDigits(WriteLE(v, 2), v, 2)
  BY <1>1, WriteLEDigits
<1>3. PICK q : q = WriteLE(v, 2)
  OBVIOUS
<1>4. HasDigits(q, v, 2)
  BY <1>2, <1>3, Zenon
<1>5. q \in Seq(Byte) /\ Len(q) = 2 /\ q[1] = v % 256 /\ q[2] = (v \div 256) % 256
  BY <1>4, SMT DEF HasDigits
<1> QED  BY <1>3, <1>5 DEF HasTwoDigits

\* A number of sixteen bits is read as it was written.
LEMMA ReadOfWrite ==
  ASSUME NEW v, IsCrc(v)
  PROVE  ReadLE(WriteLE(v, 2)) = v
<1>0. v \in Nat
  BY DEF IsCrc
<1>1. PICK q : q = WriteLE(v, 2)
  OBVIOUS
<1>2. 2 \in 1..4
  OBVIOUS
<1>3. HasTwoDigits(q, v)
  <2>1. HasTwoDigits(WriteLE(v, 2), v)
    BY <1>0, TwoDigits
  <2> QED  BY <1>1, <2>1, Zenon
<1>4. q \in Seq(Byte) /\ Len(q) = 2 /\ q[1] = v % 256 /\ q[2] = (v \div 256) % 256
  BY <1>3, Zenon DEF HasTwoDigits
<1>5. \A i \in 1..2 : q[i] \in Byte
  BY <1>4, ElementOfSeq
<1>6. ReadLE(q) = Sum(q[1], q[2], q[3], q[4], 2)
  BY <1>2, <1>4, <1>5, ReadLEIsSum
<1>7. Sum(q[1], q[2], q[3], q[4], 2) = q[1] + q[2] * 256
  BY DEF Sum
<1>8. PICK x, y : x = v % 256 /\ y = v \div 256
  OBVIOUS
<1>9. v = x + y * 256 /\ y < 256 /\ y \in Nat
  BY <1>8, <1>0 DEF IsCrc
<1>10. y % 256 = y
  BY <1>9
<1> QED  BY <1>1, <1>4, <1>6, <1>7, <1>8, <1>9, <1>10

\* Bytes within a frame are a part of it.
LEMMA InnerBytes ==
  ASSUME NEW s \in Seq(Byte), NEW from \in Nat, NEW to \in Int, to - from + 1 \in Nat,
         from >= 1, to <= Len(s)
  PROVE  Bytes(s, from, to) = SubSeq(s, from, to)
<1>1. PICK n \in Nat : n = to - from + 1
  OBVIOUS
<1>2. PICK q : q = Bytes(s, from, to)
  OBVIOUS
<1>3. q = [i \in 1..n |-> IF from + i - 1 \in DOMAIN s THEN s[from + i - 1] ELSE 0]
  BY <1>1, <1>2 DEF Bytes
<1>4. PICK t : t = SubSeq(s, from, to)
  OBVIOUS
<1>5. t \in Seq(Byte) /\ Len(t) = n /\ \A i \in 1..n : t[i] = s[from + i - 1]
  BY <1>1, <1>4
<1>6. q \in Seq(Byte) /\ Len(q) = n
  BY <1>1, <1>2, BytesAreBytes
<1>7. ASSUME NEW i \in 1..n PROVE q[i] = t[i]
  <2>1. PICK j : j = from + i - 1
    OBVIOUS
  <2>2. j \in 1..Len(s)
    BY <1>1, <2>1
  <2>3. q[i] = s[j]
    BY <1>3, <2>1, <2>2
  <2> QED  BY <1>5, <2>1, <2>3
<1> QED  BY <1>2, <1>4, <1>5, <1>6, <1>7, SeqEqual

\* The parts of a frame, joined.
IsPutTogether(s, a, b, p, c) == s = ((a \o b) \o p) \o c

\* A frame is its parts, one behind the other.
LEMMA FrameIsItsParts ==
  ASSUME NEW s, NEW a \in Seq(Byte), Len(a) = 2, NEW b \in Seq(Byte), Len(b) = 2,
         NEW p \in Seq(Byte), NEW c \in Seq(Byte), Len(c) = 2, IsAssembled(s, a, b, p, c)
  PROVE  IsPutTogether(s, a, b, p, c)
<1>1. IsAssembled(((a \o b) \o p) \o c, a, b, p, c)
  BY Assembled
<1>2. PICK t : t = ((a \o b) \o p) \o c
  OBVIOUS
<1>3. IsAssembled(t, a, b, p, c)
  BY <1>1, <1>2, Zenon
<1>4. s = t
  BY <1>3, AssembledOnce
<1> QED  BY <1>2, <1>4 DEF IsPutTogether

\* What processFrame() computes the CRC of is all but the CRC.
LEMMA CoveredPart ==
  ASSUME NEW s \in Seq(Byte), NEW y \in Seq(Byte), NEW c \in Seq(Byte), Len(c) = 2,
         Len(y) >= 1, s = y \o c
  PROVE  Bytes(s, 1, Len(s) - 2) = y
<1>1. PICK n \in Nat : n = Len(y) /\ n >= 1
  OBVIOUS
<1>2. Len(s) = n + 2 /\ \A i \in 1..n : s[i] = y[i]
  <2>0. 0 + 0 = 0 /\ IsIn(y \o c, y, 0)
    BY PartIsIn
  <2>3. Len(y \o c) = Len(y) + Len(c)
    BY Concatenates
  <2>4. \A i \in 1..Len(y) : (y \o c)[0 + i] = y[i]
    BY <2>0 DEF IsIn
  <2>1. Len(y \o c) = Len(y) + Len(c) /\ \A i \in 1..Len(y) : (y \o c)[i] = y[i]
    BY <2>3, <2>4
  <2>2. Len(s) = Len(y) + Len(c) /\ \A i \in 1..Len(y) : s[i] = y[i]
    BY <2>1, Zenon
  <2> QED  BY <1>1, <2>2
<1>3. PICK m : m = Len(s) - 2
  OBVIOUS
<1>4. m = n /\ 1 \in Nat /\ m \in Int /\ m - 1 + 1 \in Nat /\ m <= Len(s) /\ 1 >= 1
  BY <1>2, <1>3
<1>5. PICK q : q = Bytes(s, 1, m)
  OBVIOUS
<1>6. q \in Seq(Byte) /\ Len(q) = n
  <2>1. q \in Seq(Byte) /\ Len(q) = m - 1 + 1
    BY <1>4, <1>5, BytesAreBytes
  <2> QED  BY <1>4, <2>1
<1>7. IsIn(s, q, 1 - 1)
  BY <1>4, <1>5, BytesAt
<1>8. ASSUME NEW i \in 1..n PROVE q[i] = y[i]
  <2>1. s[1 - 1 + i] = q[i]
    BY <1>6, <1>7 DEF IsIn
  <2>2. 1 - 1 + i = i
    OBVIOUS
  <2> QED  BY <1>2, <2>1, <2>2
<1>9. q = y
  BY <1>1, <1>6, <1>8, SeqEqual
<1> QED  BY <1>3, <1>5, <1>9

\* The length and the CRC of a frame are where they are.
LEMMA SameParts ==
  ASSUME NEW s, NEW a, NEW p \in Seq(Byte),
         NEW b \in Seq(Byte), NEW v \in Seq(Byte), NEW c \in Seq(Byte), NEW w \in Seq(Byte),
         Len(b) = 2, Len(v) = 2, Len(c) = 2, Len(w) = 2,
         IsAssembled(s, a, b, p, c), IsAssembled(s, a, v, p, w)
  PROVE  b = v /\ c = w
<1>1. PICK n \in Nat : n = Len(p)
  OBVIOUS
<1>2. IsIn(s, b, 2) /\ IsIn(s, v, 2) /\ IsIn(s, c, n + 4) /\ IsIn(s, w, n + 4)
  BY <1>1, Zenon DEF IsAssembled
<1>3. ASSUME NEW i \in 1..2 PROVE b[i] = v[i] /\ c[i] = w[i]
  <2>1. s[2 + i] = b[i] /\ s[2 + i] = v[i]
    BY <1>2 DEF IsIn
  <2>2. s[(n + 4) + i] = c[i] /\ s[(n + 4) + i] = w[i]
    BY <1>2 DEF IsIn
  <2> QED  BY <2>1, <2>2
<1>4. b = v
  BY <1>3, SeqEqual
<1>5. c = w
  BY <1>3, SeqEqual
<1> QED  BY <1>4, <1>5

\* What processFrame() makes of a decoded frame.
Understood(s) ==
  IF HasOverhead(s) /\ LengthMatches(s) /\ CrcMatches(s) THEN RequestIn(s) ELSE NOTHING

\* No request has more payload than a packet.
LEMMA RequestsAreShort ==
  ASSUME NEW command, NEW p \in Seq(Byte), IsRequest(command, p)
  PROVE  Len(p) <= PACKET_DATA_CAPACITY
<1>1. CASE command \in PayloadFree /\ p = <<>>
  BY <1>1 DEF PACKET_DATA_CAPACITY
<1>2. CASE HasConfigurationSize(p)
  BY <1>2 DEF HasConfigurationSize, getConfigurationSize, PACKET_DATA_CAPACITY, COMMON_SIZE
<1>3. CASE IsCalibration(p)
  BY <1>3 DEF IsCalibration, PACKET_DATA_CAPACITY
<1>4. CASE Len(p) <= PACKET_DATA_CAPACITY
  BY <1>4
<1> QED  BY <1>1, <1>2, <1>3, <1>4, Zenon DEF IsRequest

\* Beyond 16 bits the sum begins anew.
LEMMA Wrap == \A t \in 0..5 : (t + 65536) % 65536 = t
OBVIOUS

\* The length field of a frame that is no longer than a request says how long it is, or not.
LEMMA LengthIsPlain ==
  ASSUME NEW s \in Seq(Byte), NEW n \in Nat, Len(s) = n + 6, n <= PACKET_DATA_CAPACITY,
         NEW b \in Seq(Byte), Len(b) = 2, b = Bytes(s, 3, 4)
  PROVE  LengthMatches(s) <=> b = WriteLE(n, 2)
<1>1. PICK r \in Nat : r = ReadLE(b) /\ r <= 65535
  BY ShortIsRead
<1>2. LengthMatches(s) <=> n + 6 = (r + 6) % 65536
  BY <1>1 DEF LengthMatches, FRAME_OVERHEAD
<1>3. n + 6 = (r + 6) % 65536 <=> r = n
  <2>1. n <= 255
    BY DEF PACKET_DATA_CAPACITY
  <2>2. CASE r + 6 < 65536
    BY <2>1, <2>2, <1>1
  <2>3. CASE r + 6 >= 65536
    <3>1. PICK t \in 0..5 : r + 6 = t + 65536
      <4>1. r + 6 - 65536 \in 0..5 /\ r + 6 = (r + 6 - 65536) + 65536
        BY <2>3, <1>1
      <4> QED  BY <4>1
    <3>2. (t + 65536) % 65536 = t
      BY Wrap
    <3> QED  BY <2>1, <2>3, <3>1, <3>2, <1>1
  <2> QED  BY <2>2, <2>3, <1>1
<1>4. IsCrc(n)
  BY DEF IsCrc, PACKET_DATA_CAPACITY
<1>5. ReadLE(WriteLE(n, 2)) = n
  BY <1>4, ReadOfWrite
<1>6. WriteLE(ReadLE(b), 2) = b
  <2>1. 2 \in 1..4
    OBVIOUS
  <2> QED  BY <2>1, WriteOfRead
<1> QED  BY <1>1, <1>2, <1>3, <1>5, <1>6

\* The CRC of a frame, as the bytes it should be.
CrcSays(s, y, c) == CrcMatches(s) <=> c = WriteLE(Crc(y), 2)

\* The CRC of a frame is that of what it covers, or not.
LEMMA CrcIsPlain ==
  ASSUME NEW s \in Seq(Byte), NEW y \in Seq(Byte), NEW c \in Seq(Byte), Len(c) = 2,
         Len(y) >= 1, s = y \o c, c = Bytes(s, Len(s) - 1, Len(s))
  PROVE  CrcSays(s, y, c)
<1>1. PICK k : k = Crc(y)
  OBVIOUS
<1>2. IsCrc(k)
  BY <1>1, CrcIsCrc
<1>3. Bytes(s, 1, Len(s) - 2) = y
  BY CoveredPart
<1>4. CrcMatches(s) <=> ReadLE(c) = k
  BY <1>1, <1>3, Zenon DEF CrcMatches
<1>5. ReadLE(WriteLE(k, 2)) = k
  BY <1>2, ReadOfWrite
<1>6. WriteLE(ReadLE(c), 2) = c
  <2>1. 2 \in 1..4
    OBVIOUS
  <2> QED  BY <2>1, WriteOfRead
<1> QED  BY <1>1, <1>4, <1>5, <1>6, Zenon DEF CrcSays

\* A frame too short for its overhead is no frame of a request.
LEMMA ShortMeansNothing ==
  ASSUME NEW s \in Seq(Byte), Len(s) < 6
  PROVE  Understood(s) = NOTHING /\ Meant(s) = NOTHING
<1>1. ~HasOverhead(s)
  BY DEF HasOverhead, FRAME_OVERHEAD
<1>2. Understood(s) = NOTHING
  BY <1>1, Zenon DEF Understood
<1>3. PICK len \in Nat : len = Len(s) /\ len < 6
  OBVIOUS
<1>4. PICK command, payload : command = ReadLE(Bytes(s, 1, 2)) /\ payload = SubSeq(s, 5, len - 2)
  OBVIOUS
<1>5. command \in Nat
  <2>1. 1 \in Nat /\ 2 \in Int /\ 2 - 1 + 1 \in Nat /\ 2 - 1 + 1 = 2
    OBVIOUS
  <2>2. PICK q : q = Bytes(s, 1, 2)
    OBVIOUS
  <2>3. q \in Seq(Byte) /\ Len(q) = 2
    BY <2>1, <2>2, BytesAreBytes
  <2> QED  BY <1>4, <2>2, <2>3, ShortIsRead
<1>6. payload \in Seq(Byte)
  BY <1>3, <1>4
<1>7. PICK f : f = FrameOf(command, payload)
  OBVIOUS
<1>8. Len(f) = 6 + Len(payload)
  BY <1>5, <1>6, <1>7, FramesAreBytes DEF IsFrame, FRAME_OVERHEAD
<1>9. s # f
  BY <1>3, <1>6, <1>8
<1>10. Meant(s) = NOTHING
  BY <1>3, <1>4, <1>7, <1>9, Zenon DEF Meant
<1> QED  BY <1>2, <1>10

\* A decoded frame is taken for the request it stands for by its format, and for no other.
LEMMA FrameIsMeant ==
  ASSUME NEW s \in Seq(Byte)
  PROVE  Understood(s) = Meant(s)
<1>1. CASE Len(s) < 6
  BY <1>1, ShortMeansNothing
<1>2. CASE Len(s) >= 6
  <2>1. PICK n \in Nat : Len(s) = n + 6
    <3>1. Len(s) \in Nat /\ Len(s) - 6 \in Nat /\ Len(s) = (Len(s) - 6) + 6
      BY <1>2
    <3> QED  BY <3>1
  <2>2. PICK a, b, p, c : /\ a = Bytes(s, 1, 2) /\ b = Bytes(s, 3, 4)
                          /\ p = Bytes(s, 5, Len(s) - 2) /\ c = Bytes(s, Len(s) - 1, Len(s))
    OBVIOUS
  <2>3. /\ a \in Seq(Byte) /\ Len(a) = 2 /\ b \in Seq(Byte) /\ Len(b) = 2
        /\ p \in Seq(Byte) /\ Len(p) = n /\ c \in Seq(Byte) /\ Len(c) = 2
        /\ IsAssembled(s, a, b, p, c)
    <3>1. IsSplit(s, n, a, b, p, c)
      BY <2>1, <2>2, SplitFrame, Zenon
    <3> QED  BY <3>1, Zenon DEF IsSplit
  <2>4. p = SubSeq(s, 5, Len(s) - 2)
    <3>1. 5 \in Nat /\ Len(s) - 2 \in Int /\ Len(s) - 2 - 5 + 1 \in Nat /\ 5 >= 1 /\ Len(s) - 2 <= Len(s)
      BY <2>1
    <3> QED  BY <2>2, <3>1, InnerBytes
  <2>5. PICK command : command = ReadLE(a)
    OBVIOUS
  <2>6. command \in Nat /\ WriteLE(command, 2) = a
    <3>1. 2 \in 1..4
      OBVIOUS
    <3> QED  BY <2>3, <2>5, <3>1, WriteOfRead
  <2>7. PICK req : req = [command |-> command, payload |-> p]
    OBVIOUS
  <2>8. RequestIn(s) = IF IsRequest(command, p) THEN req ELSE NOTHING
    BY <2>2, <2>5, <2>7, Zenon DEF RequestIn
  <2>9. Meant(s) = IF s = FrameOf(command, p) /\ IsRequest(command, p) THEN req ELSE NOTHING
    BY <2>2, <2>4, <2>5, <2>7, Zenon DEF Meant
  <2>10. CASE ~IsRequest(command, p)
    BY <2>8, <2>9, <2>10, Zenon DEF Understood
  <2>11. CASE IsRequest(command, p)
    <3>1. n <= PACKET_DATA_CAPACITY
      BY <2>3, <2>11, RequestsAreShort
    <3>2. PICK v, w, y, z : v = WriteLE(n, 2) /\ y = (a \o v) \o p /\ w = WriteLE(Crc(y), 2)
                            /\ z = (a \o b) \o p
      OBVIOUS
    <3>3. v \in Seq(Byte) /\ Len(v) = 2
      BY <3>2, TwoDigits DEF HasTwoDigits
    <3>4. y \in Seq(Byte) /\ Len(y) = n + 4
      <4>1. (a \o v) \o p \in Seq(Byte) /\ Len((a \o v) \o p) = Len(p) + 4
        <5>1. IsCovered(a, v, p)
          BY <2>3, <3>3, Assembled, Zenon
        <5> QED  BY <5>1, Zenon DEF IsCovered
      <4>2. y \in Seq(Byte) /\ Len(y) = Len(p) + 4
        BY <3>2, <4>1, Zenon
      <4> QED  BY <2>3, <4>2, Zenon
    <3>5. w \in Seq(Byte) /\ Len(w) = 2
      <4>1. Crc(y) \in Nat
        BY <3>4, CrcIsCrc DEF IsCrc
      <4> QED  BY <3>2, <4>1, TwoDigits DEF HasTwoDigits
    <3>6. FrameOf(command, p) = y \o w
      BY <2>3, <2>6, <3>2, Zenon DEF FrameOf
    <3>7. IsAssembled(y \o w, a, v, p, w)
      BY <2>3, <3>2, <3>3, <3>5, Assembled
    <3>8. s = z \o c /\ z \in Seq(Byte) /\ Len(z) >= 1
      <4>1. s = ((a \o b) \o p) \o c
        <5>1. IsPutTogether(s, a, b, p, c)
          BY <2>3, FrameIsItsParts, Zenon
        <5> QED  BY <5>1, Zenon DEF IsPutTogether
      <4>2. (a \o b) \o p \in Seq(Byte) /\ Len((a \o b) \o p) = Len(p) + 4
        <5>1. IsCovered(a, b, p)
          BY <2>3, Assembled, Zenon
        <5> QED  BY <5>1, Zenon DEF IsCovered
      <4>3. Len(p) + 4 >= 1
        BY <2>3
      <4> QED  BY <3>2, <4>1, <4>2, <4>3
    <3>9. LengthMatches(s) <=> b = v
      <4>1. LengthMatches(s) <=> b = WriteLE(n, 2)
        BY <2>1, <2>2, <2>3, <3>1, LengthIsPlain, Zenon
      <4> QED  BY <3>2, <4>1, Zenon
    <3>10. CrcMatches(s) <=> c = WriteLE(Crc(z), 2)
      <4>1. CrcSays(s, z, c)
        BY <2>2, <2>3, <3>8, CrcIsPlain, Zenon
      <4> QED  BY <4>1, Zenon DEF CrcSays
    <3>11. HasOverhead(s)
      BY <2>1, ElementOfSeq, ByteIsNatural DEF HasOverhead, FRAME_OVERHEAD, NOT_FOUND
    <3>12. CASE b = v /\ c = WriteLE(Crc(z), 2)
      <4>1. z = y /\ c = w
        BY <3>2, <3>12, Zenon
      <4>2. s = FrameOf(command, p)
        BY <3>6, <3>8, <4>1, Zenon
      <4> QED  BY <2>8, <2>9, <2>11, <3>9, <3>10, <3>11, <3>12, <4>2, Zenon DEF Understood
    <3>13. CASE ~(b = v /\ c = WriteLE(Crc(z), 2))
      <4>1. ASSUME s = FrameOf(command, p) PROVE FALSE
        <5>1. IsAssembled(s, a, v, p, w)
          BY <3>6, <3>7, <4>1, Zenon
        <5>2. b = v /\ c = w
          BY <2>3, <3>3, <3>5, <5>1, SameParts
        <5>3. z = y
          BY <3>2, <5>2, Zenon
        <5> QED  BY <3>2, <3>13, <5>2, <5>3, Zenon
      <4> QED  BY <2>9, <3>9, <3>10, <3>13, <4>1, Zenon DEF Understood
    <3> QED  BY <3>12, <3>13, Zenon
  <2> QED  BY <2>10, <2>11, Zenon
<1> QED  BY <1>1, <1>2

\* What has arrived is the frame that was sent, encoded, or has been damaged.
ArrivesWhole ==
  encoded # <<>> => damaged \/ (sent \in Seq(Byte) /\ encoded = Encode(sent))

\* The host sends a frame, and the line leaves it alone or not.
LEMMA SendingIsWhole == HostCommandInvariant /\ HostSends => ArrivesWhole'
<1> SUFFICES ASSUME HostCommandInvariant, HostSends PROVE ArrivesWhole'
  OBVIOUS
<1>1. script # 0 /\ frames < Len(Scripts[script].traffic)
  BY DEF HostSends
<1>2. script \in DOMAIN Scripts /\ frames \in Nat
  BY <1>1 DEF HostCommandInvariant, ScriptKept
<1>3. PICK frame \in Scripts[script].traffic[frames + 1] :
         sent' = frame /\ (encoded' = Encode(frame) \/ damaged' = TRUE)
  BY Zenon DEF HostSends
<1>4. frame \in Seq(Byte)
  BY <1>1, <1>2, FrameIsSent
<1> QED  BY <1>3, <1>4, Zenon DEF ArrivesWhole

\* Whether it does is decided when it is sent.
LEMMA WholeStaysWhole == HostCommandInvariant /\ ArrivesWhole /\ [Next]_vars => ArrivesWhole'
<1> SUFFICES ASSUME HostCommandInvariant, ArrivesWhole, [Next]_vars PROVE ArrivesWhole'
  OBVIOUS
<1>1. CASE HostSends
  BY <1>1, SendingIsWhole
<1>2. CASE ProcessFrame
  BY <1>2, Zenon DEF ProcessFrame, ArrivesWhole, NONE
<1>3. CASE UNCHANGED <<sent, encoded, damaged>>
  BY <1>3, Zenon DEF ArrivesWhole
<1>4. CASE GetConfigResponse
  BY <1>3, <1>4, Zenon DEF GetConfigResponse
<1>5. CASE GetDiagnosticsResponse
  BY <1>3, <1>5, Zenon DEF GetDiagnosticsResponse
<1>6. CASE WithoutResponse
  BY <1>3, <1>6, Zenon DEF WithoutResponse
<1>7. CASE RfReports
  BY <1>3, <1>7, Zenon DEF RfReports
<1>8. CASE UsartTransmits
  BY <1>3, <1>8, Zenon DEF UsartTransmits
<1>9. CASE UNCHANGED vars
  BY <1>3, <1>9, Zenon DEF vars
<1> QED  BY <1>1, <1>2, <1>4, <1>5, <1>6, <1>7, <1>8, <1>9, Zenon DEF Next

\* processFrame() of a frame that came through whole.
LEMMA WholeIsUnderstood ==
  ASSUME ArrivesWhole, ProcessFrame, ~damaged
  PROVE  published' = Meant(sent)
<1>1. encoded # <<>>
  BY DEF ProcessFrame, NONE
<1>2. sent \in Seq(Byte) /\ encoded = Encode(sent)
  BY <1>1 DEF ArrivesWhole
<1>3. EncodesTo(sent, encoded)
  BY <1>2, BytesEncode
<1>4. PICK d, decoded : d = Unstuff(encoded) /\ decoded = DecodedFrame(d)
  OBVIOUS
<1>5. published' = Understood(decoded)
  BY <1>4, Zenon DEF ProcessFrame, DecodedFrame, Understood
<1>6. d = [found |-> TRUE, out |-> sent]
  BY <1>3, <1>4, Zenon DEF EncodesTo
<1>7. decoded = sent
  BY <1>4, <1>6 DEF DecodedFrame
<1> QED  BY <1>2, <1>5, <1>7, FrameIsMeant

\* Every frame that the line leaves alone is published as the request it stands for, if it
\* stands for one.
THEOREM RequestsAlwaysComeThrough == Spec => RequestsComeThrough
<1>1. Init => ArrivesWhole
  BY DEF Init, NONE, ArrivesWhole
<1>2. HostCommandInvariant /\ ArrivesWhole /\ [Next]_vars => ArrivesWhole'
  BY WholeStaysWhole
<1>3. ArrivesWhole /\ [Next]_vars
        => [encoded # NONE /\ encoded' = NONE /\ ~damaged => published' = Meant(sent)]_vars
  <2> SUFFICES ASSUME ArrivesWhole, [Next]_vars, encoded # NONE, encoded' = NONE, ~damaged
               PROVE  published' = Meant(sent)
    OBVIOUS
  <2>1. CASE ProcessFrame
    BY <2>1, WholeIsUnderstood
  <2>2. CASE encoded = NONE \/ encoded' = encoded
    BY <2>2
  <2>3. CASE HostSends
    BY <2>2, <2>3, Zenon DEF HostSends
  <2>4. CASE GetConfigResponse
    BY <2>2, <2>4, Zenon DEF GetConfigResponse
  <2>5. CASE GetDiagnosticsResponse
    BY <2>2, <2>5, Zenon DEF GetDiagnosticsResponse
  <2>6. CASE WithoutResponse
    BY <2>2, <2>6, Zenon DEF WithoutResponse
  <2>7. CASE RfReports
    BY <2>2, <2>7, Zenon DEF RfReports
  <2>8. CASE UsartTransmits
    BY <2>2, <2>8, Zenon DEF UsartTransmits
  <2>9. CASE UNCHANGED vars
    BY <2>2, <2>9, Zenon DEF vars
  <2> QED  BY <2>1, <2>3, <2>4, <2>5, <2>6, <2>7, <2>8, <2>9, Zenon DEF Next
<1> QED  BY <1>1, <1>2, <1>3, CodecsAreKept, PTL DEF Spec, RequestsComeThrough
=============================================================================
