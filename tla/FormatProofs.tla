---------------------------- MODULE FormatProofs ----------------------------
(***************************************************************************)
(* Proofs about what is in a packet and what is in a frame.                *)
(*                                                                         *)
(* DataPacket: the IPv4 checksum that is folded only once verifies for     *)
(* every address and every length, every word and counter keeps its width, *)
(* and a packet arrives as it was built.                                   *)
(*                                                                         *)
(* Producer: no frame leaves before its time, the exchange time is         *)
(* recovered from the header, a Compact frame says what the Raw message of *)
(* its number does, and the running totals survive the loss of frames.     *)
(***************************************************************************)
EXTENDS DataPacket, Producer, FiniteSetTheorems, TLAPS
-----------------------------------------------------------------------------
(* Ones-complement arithmetic on 16-bit words *)

\* What quotient and remainder are.
LEMMA DivMod ==
  ASSUME NEW x \in Nat
  PROVE  /\ x = (x % 65536) + 65536 * (x \div 65536)
         /\ x % 65536 \in Nat /\ x % 65536 <= 65535
         /\ x \div 65536 \in Nat
BY SMT

\* The largest 16-bit word.
LEMMA MaxWordValue == MaxWord \in Nat /\ MaxWord = 65535
BY SMT DEF MaxWord

\* Words, as bounds the solver can use.
LEMMA WordBounds == \A x : x \in Words <=> x \in Nat /\ x <= 65535
<1>1. MaxWord \in Nat
  BY SMT, MaxWordValue
<1>2. \A x : x \in Words <=> x \in Nat /\ x <= MaxWord
  BY SMT, <1>1 DEF Words
<1> QED BY SMT, <1>2, MaxWordValue

\* Folding keeps a sum's residue modulo 65535: it takes 65535 away as often
\* as there are carries.
LEMMA FoldTakesMultiples ==
  ASSUME NEW x \in Nat
  PROVE  /\ Fold(x) \in Nat
         /\ x = Fold(x) + 65535 * (x \div 65536)
         /\ Fold(x) <= 65535 + x \div 65536
BY SMT, DivMod DEF Fold

\* The sum of two words, and a little more, folds into a word in one step.
LEMMA OneFoldSuffices ==
  ASSUME NEW x \in Nat, x <= 131070
  PROVE  Fold(x) \in Nat /\ Fold(x) <= 65535
         /\ Fold(x) = IF x < 65536 THEN x ELSE x - 65535
BY SMT, DivMod DEF Fold

\* A sum of ten words is a word after two steps.
LEMMA TwoFoldsSuffice ==
  ASSUME NEW x \in Nat, x <= 655350
  PROVE  /\ Fold(Fold(x)) \in Nat /\ Fold(Fold(x)) <= 65535
         /\ \E n \in Nat : n <= 10 /\ x = Fold(Fold(x)) + 65535 * n
<1> DEFINE q == x \div 65536
           y == Fold(x)
<1>1. q \in Nat /\ q <= 9
  BY SMT, DivMod
<1>2. y \in Nat /\ x = y + 65535 * q /\ y <= 65535 + q
  BY SMT, FoldTakesMultiples
<1> HIDE DEF q, y
<1>3. Fold(y) \in Nat /\ Fold(y) <= 65535 /\ Fold(y) = IF y < 65536 THEN y ELSE y - 65535
  BY SMT, <1>1, <1>2, OneFoldSuffices
<1>4. CASE y < 65536
  BY SMT, <1>1, <1>2, <1>3, <1>4 DEF y
<1>5. CASE ~(y < 65536)
  <2>1. x = Fold(y) + 65535 * (q + 1) /\ q + 1 \in Nat /\ q + 1 <= 10
    BY SMT, <1>1, <1>2, <1>3, <1>5
  <2> QED BY SMT, <1>3, <2>1 DEF y
<1> QED BY SMT, <1>4, <1>5

\* A positive multiple of 65535 that ten words can add up to folds to 65535,
\* the zero a receiver of the header looks for.
LEMMA MultiplesVerify ==
  ASSUME NEW n \in 1..10
  PROVE  Fold(Fold(65535 * n)) = 65535
<1>1. Fold(65535 * n) = 65535
  <2>1. 65535 * n = 65536 * (n - 1) + (65536 - n)
    BY SMT
  <2>2. (65535 * n) \div 65536 = n - 1 /\ (65535 * n) % 65536 = 65536 - n
    BY SMT, <2>1
  <2> QED BY SMT, <2>2 DEF Fold
<1>2. Fold(65535) = 65535
  BY SMT DEF Fold
<1> QED BY SMT, <1>1, <1>2

\* The other nine words of the header, whatever the addresses are, add up to
\* a positive number.
LEMMA OtherWords ==
  ASSUME NEW a \in [1..4 -> AddressWords]
  PROVE  /\ SumOf(Ipv4Words(0, 0, a)) \in Nat /\ SumOf(Ipv4Words(0, 0, a)) > 0
         /\ SumOf(Ipv4Words(0, 0, a)) <= 524280
         /\ \A t, c \in Nat :
              SumOf(Ipv4Words(t, c, a)) = SumOf(Ipv4Words(0, 0, a)) + t + c
<1>1. \A k \in 1..4 : a[k] \in Words
  BY WordsAssumption
<1>2. /\ a[1] \in Nat /\ a[2] \in Nat /\ a[3] \in Nat /\ a[4] \in Nat
      /\ a[1] <= 65535 /\ a[2] <= 65535 /\ a[3] <= 65535 /\ a[4] <= 65535
  <2>1. 1 \in 1..4 /\ 2 \in 1..4 /\ 3 \in 1..4 /\ 4 \in 1..4
    BY SMT
  <2> QED BY SMT, <1>1, <2>1, WordBounds
<1>3. rte_cpu_to_be_16(16384) = 64
  BY SMT DEF rte_cpu_to_be_16
<1>4. ASSUME NEW t \in Nat, NEW c \in Nat
      PROVE  SumOf(Ipv4Words(t, c, a)) =
               69 + t + 0 + 64 + (64 + 17 * 256) + c + a[1] + a[2] + a[3] + a[4]
  BY SMT, <1>3 DEF SumOf, Ipv4Words
<1> DEFINE S == SumOf(Ipv4Words(0, 0, a))
<1>5. S = 69 + 0 + 0 + 64 + (64 + 17 * 256) + 0 + a[1] + a[2] + a[3] + a[4]
  BY SMT, <1>4
<1> HIDE DEF S
<1>6. S \in Nat /\ S > 0 /\ S <= 524280
  BY SMT, <1>2, <1>5
<1>7. ASSUME NEW t \in Nat, NEW c \in Nat
      PROVE  SumOf(Ipv4Words(t, c, a)) = S + t + c
  <2>1. SumOf(Ipv4Words(t, c, a)) =
          69 + t + 0 + 64 + (64 + 17 * 256) + c + a[1] + a[2] + a[3] + a[4]
    BY <1>4
  <2> QED BY SMT, <1>2, <1>5, <2>1
<1> QED BY SMT, <1>6, <1>7 DEF S

\* The arithmetic of the checksum: S is the sum of the other words, b what
\* prepare_destination keeps of it, t the length, f the folded sum.
LEMMA Residue ==
  ASSUME NEW S \in Nat, S > 0, S <= 524280,
         NEW b \in Nat, b <= 65535, NEW n \in Nat, n <= 10, S = b + 65535 * n,
         NEW t \in Nat, t <= 65535,
         NEW f \in Nat, f = IF b + t < 65536 THEN b + t ELSE b + t - 65535
  PROVE  \E k \in 1..10 : S + t + (65535 - f) = 65535 * k
<1>1. S + t + (65535 - f) > 0 /\ S + t + (65535 - f) <= 655350
  BY SMT
<1>2. CASE b + t < 65536
  <2>1. S + t + (65535 - f) = 65535 * (n + 1)
    BY SMT, <1>2
  <2> QED BY SMT, <1>1, <2>1
<1>3. CASE ~(b + t < 65536)
  <2>1. S + t + (65535 - f) = 65535 * (n + 2)
    BY SMT, <1>3
  <2> QED BY SMT, <1>1, <2>1
<1> QED BY SMT, <1>2, <1>3

\* The header that finalize_data_packet writes verifies at the receiver, for
\* every total length and every pair of addresses: a single fold suffices.
THEOREM ChecksumVerifies ==
  ASSUME NEW t \in Words, NEW a \in [1..4 -> AddressWords]
  PROVE  /\ Checksum(ipv4_checksum_base(a), t) \in Words
         /\ Verifies(Ipv4Words(t, Checksum(ipv4_checksum_base(a), t), a))
<1> DEFINE S == SumOf(Ipv4Words(0, 0, a))
           b == ipv4_checksum_base(a)
           f == Fold(b + t)
           c == Checksum(b, t)
<1>0. t \in Nat /\ t <= 65535
  BY SMT, WordBounds
<1>1. S \in Nat /\ S > 0 /\ S <= 524280
  BY SMT, OtherWords
<1>2. \A u, v \in Nat : SumOf(Ipv4Words(u, v, a)) = S + u + v
  BY SMT, OtherWords
<1>3. b = Fold(Fold(S))
  BY DEF ipv4_checksum_base, rte_raw_cksum
<1> HIDE DEF S
<1>4. PICK n \in Nat : n <= 10 /\ b \in Nat /\ b <= 65535 /\ S = b + 65535 * n
  <2>1. S <= 655350
    BY SMT, <1>1
  <2> QED BY SMT, <1>1, <1>3, <2>1, TwoFoldsSuffice
<1> HIDE DEF b
<1>5. PICK x \in Nat : x = b + t /\ x <= 131070
  BY SMT, <1>0, <1>4
<1>6. Fold(x) \in Nat /\ Fold(x) <= 65535 /\ Fold(x) = IF x < 65536 THEN x ELSE x - 65535
  BY SMT, <1>5, OneFoldSuffices
<1>7. f = Fold(x)
  BY SMT, <1>5
<1> HIDE DEF f
<1>8. f \in Nat /\ f <= 65535 /\ f = IF b + t < 65536 THEN b + t ELSE b + t - 65535
  BY SMT, <1>0, <1>4, <1>5, <1>6, <1>7
<1>9. c = 65535 - f /\ c \in Nat /\ c <= 65535
  <2>1. c = 65535 - (f % 65536)
    BY SMT, MaxWordValue DEF Checksum, f
  <2> HIDE DEF c
  <2>2. f % 65536 = f
    BY SMT, <1>8, DivMod
  <2> QED BY SMT, <1>8, <2>1, <2>2
<1> HIDE DEF c
<1>10. PICK k \in 1..10 : S + t + (65535 - f) = 65535 * k
  BY SMT, <1>0, <1>1, <1>4, <1>8, Residue
<1>11. SumOf(Ipv4Words(t, c, a)) = 65535 * k
  BY SMT, <1>0, <1>2, <1>9, <1>10
<1>12. Verifies(Ipv4Words(t, c, a))
  <2>1. rte_raw_cksum(Ipv4Words(t, c, a)) = Fold(Fold(65535 * k))
    BY SMT, <1>11 DEF rte_raw_cksum
  <2> QED BY SMT, <2>1, MultiplesVerify, MaxWordValue DEF Verifies
<1>13. c \in Words
  BY SMT, <1>9, WordBounds
<1> QED BY <1>12, <1>13 DEF b, c
-----------------------------------------------------------------------------
(* The state machine *)

\* The sizes of the packet layout, as numbers.
LEMMA Constants ==
  /\ DATA_PACKET_CANONICAL_CAPACITY \in Nat /\ DATA_PACKET_CANONICAL_CAPACITY = 1472
  /\ MAX_DATA_PACKET_SIZE \in Nat /\ MAX_DATA_PACKET_SIZE = 1514
BY SMT DEF DATA_PACKET_CANONICAL_CAPACITY, MAX_DATA_PACKET_SIZE, HEADER_SIZE,
           EthernetSize, Ipv4Size, UdpSize

\* A natural number up to a bound is in the range.
LEMMA InRange == \A x, n \in Nat : x <= n <=> x \in 0..n
BY SMT

\* A frame of either profile has a positive size that fits a packet.
LEMMA FrameSizeBounds ==
  ASSUME NEW s \in FrameSizes
  PROVE  s \in Nat /\ s >= 24 /\ s <= 1450
<1> DEFINE n == 1450
<1>1. s \in 24..1450
  BY SizesAssumption
<1> QED BY SMT, <1>1

\* Swapping the bytes of a word gives a word.
LEMMA SwapIsWord ==
  ASSUME NEW x \in Nat, x <= 65535
  PROVE  rte_cpu_to_be_16(x) \in Words
<1> DEFINE h == x \div 256
           l == x % 256
<1>1. h \in Nat /\ l \in Nat /\ l <= 255 /\ x = 256 * h + l
  BY SMT
<1>2. rte_cpu_to_be_16(x) = l * 256 + h
  BY SMT DEF rte_cpu_to_be_16
<1> HIDE DEF h, l
<1>3. l * 256 + h \in Nat /\ l * 256 + h <= 65535
  BY SMT, <1>1
<1> QED BY SMT, <1>2, <1>3, WordBounds

\* The frame header found at an offset is one that was written, or garbage.
LEMMA FrameAtType ==
  ASSUME TypeOK, NEW pos
  PROVE  FrameAt(pos) \in Frames \cup {Garbage}
<1>1. CASE \E r \in image : r.at = pos /\ pos + FrameHeaderSize <= packet_size
  <2>1. (CHOOSE r \in image : r.at = pos) \in image
    BY <1>1
  <2>2. \A r \in image : r.frame \in Frames
    BY DEF TypeOK
  <2> QED BY <1>1, <2>1, <2>2 DEF FrameAt
<1>2. CASE ~(\E r \in image : r.at = pos /\ pos + FrameHeaderSize <= packet_size)
  BY <1>2 DEF FrameAt
<1> QED BY <1>1, <1>2

\* The inductive invariant: the room left and the bytes written make up the
\* capacity, every record has at least a header, and the checksum on the wire
\* is the one of the length on the wire.
BuilderInv ==
  pc = "building" =>
    /\ data_len = MAX_DATA_PACKET_SIZE
    /\ write_pos + remaining_payload_capacity = DATA_PACKET_CANONICAL_CAPACITY
    /\ 24 * record_count <= write_pos
ReservedInv == pc = "reserved" => data_len = MAX_DATA_PACKET_SIZE
ChecksumInv ==
  OnWire => outer.hdr_checksum = Checksum(ipv4_checksum_base(dst), outer.total_length)
\* A packet is being built only below the bound of the model.
SentInv == pc \in {"reserved", "building"} => sent < MaxPackets
IInv == TypeOK /\ SentInv /\ ReservedInv /\ BuilderInv /\ ChecksumInv

\* IInv holds initially.
LEMMA InitIInv == Init => IInv
<1> SUFFICES ASSUME Init PROVE IInv
  OBVIOUS
<1>1. 0 \in Words /\ 0 \in 0..MAX_DATA_PACKET_SIZE /\ 0 \in 0..DATA_PACKET_CANONICAL_CAPACITY
  BY SMT, WordBounds, Constants
<1>2. TypeOK
  BY SMT, <1>1, BoundAssumption DEF Init, TypeOK
<1> QED BY <1>2 DEF Init, IInv, SentInv, ReservedInv, BuilderInv, ChecksumInv, OnWire

\* Reserving a packet keeps IInv.
LEMMA ReserveStep == IInv /\ Reserve => IInv'
<1> SUFFICES ASSUME IInv, Reserve PROVE IInv'
  OBVIOUS
<1>1. MAX_DATA_PACKET_SIZE \in 0..MAX_DATA_PACKET_SIZE
  BY SMT, Constants
<1>2. TypeOK'
  BY SMT, <1>1 DEF IInv, Reserve, TypeOK, builderVars, Frames, Garbage
<1> QED BY <1>2 DEF IInv, Reserve, SentInv, ReservedInv, BuilderInv, ChecksumInv, OnWire

\* Copying a frame leaves frames in the image.
LEMMA WrittenType ==
  ASSUME TypeOK, NEW s \in FrameSizes, NEW pos, sent < MaxPackets
  PROVE  FrameOf(s) \in Frames /\ \A r \in Written(FrameOf(s), pos) : r.frame \in Frames
<1>1. Len(batch) \in Nat
  BY DEF TypeOK
<1>2. sent \in 0..MaxPackets-1
  BY SMT, BoundAssumption DEF TypeOK
<1>3. FrameOf(s) \in Frames
  BY SMT, <1>1, <1>2 DEF FrameOf, Frames
<1> QED BY SMT, <1>3 DEF Written, TypeOK

\* Starting the builder keeps IInv.
LEMMA ConstructStep ==
  ASSUME IInv, NEW s \in FrameSizes, Construct(s)
  PROVE  IInv'
<1>1. s \in Nat /\ s >= 24 /\ s <= 1450
  BY FrameSizeBounds
<1>2. TypeOK /\ sent < MaxPackets
  BY DEF IInv, Construct, SentInv
<1>3. FrameOf(s) \in Frames /\ \A r \in image' : r.frame \in Frames
  BY <1>2, WrittenType DEF Construct
<1>4. /\ remaining_payload_capacity' = 1450 - s
      /\ write_pos' = 22 + s
      /\ record_count' = 1
  BY SMT, <1>1 DEF Construct, Room, DATA_PACKET_CANONICAL_CAPACITY, DATA_HEADER_SIZE
<1>5. remaining_payload_capacity' \in Nat /\ record_count' \in Words
  BY SMT, <1>1, <1>4, WordBounds
<1>6. write_pos' \in 0..DATA_PACKET_CANONICAL_CAPACITY
  <2>1. write_pos' \in Nat /\ write_pos' <= DATA_PACKET_CANONICAL_CAPACITY
    BY SMT, <1>1, <1>4, Constants
  <2> QED BY <2>1, Constants, InRange
<1>7. batch' \in Seq(Frames)
  BY SMT, <1>2, <1>3 DEF Construct, TypeOK
<1>8. TypeOK'
  BY SMT, <1>2, <1>3, <1>5, <1>6, <1>7 DEF Construct, TypeOK, Frames, Garbage
<1>9. BuilderInv'
  <2>1. data_len' = MAX_DATA_PACKET_SIZE
    BY DEF IInv, Construct, ReservedInv
  <2> QED BY SMT, <1>1, <1>4, <2>1, Constants DEF BuilderInv
<1>10. SentInv' /\ ReservedInv' /\ ChecksumInv'
  BY <1>2 DEF Construct, SentInv, ReservedInv, ChecksumInv, OnWire
<1> QED BY <1>8, <1>9, <1>10 DEF IInv

\* Appending a record keeps IInv.
LEMMA AppendStep ==
  ASSUME IInv, NEW s \in FrameSizes, TryAppend(s)
  PROVE  IInv'
<1>1. s \in Nat /\ s >= 24 /\ s <= 1450
  BY FrameSizeBounds
<1>2. TypeOK /\ sent < MaxPackets /\ pc = "building" /\ pc' = pc
  BY DEF IInv, TryAppend, SentInv
<1>3. FrameOf(s) \in Frames /\ \A r \in image' : r.frame \in Frames
  BY <1>2, WrittenType DEF TryAppend
<1>4. /\ write_pos \in Nat /\ remaining_payload_capacity \in Nat /\ record_count \in Nat
      /\ write_pos + remaining_payload_capacity = 1472
      /\ 24 * record_count <= write_pos
      /\ data_len = MAX_DATA_PACKET_SIZE
  <2>1. record_count \in Nat
    BY SMT, <1>2, WordBounds DEF TypeOK
  <2>2. write_pos \in Nat
    BY SMT, <1>2, Constants DEF TypeOK
  <2> QED BY SMT, <1>2, <2>1, <2>2, Constants DEF IInv, BuilderInv, TypeOK
<1>5. /\ remaining_payload_capacity' = remaining_payload_capacity - s
      /\ s <= remaining_payload_capacity
      /\ write_pos' = write_pos + s
      /\ record_count' = record_count + 1
      /\ data_len' = data_len
  BY DEF TryAppend, AppendPos
<1>6. /\ remaining_payload_capacity' \in Nat /\ write_pos' \in Nat /\ record_count' \in Nat
      /\ write_pos' + remaining_payload_capacity' = 1472
      /\ 24 * record_count' <= write_pos'
      /\ record_count' <= 65535 /\ write_pos' <= 1472
  BY SMT, <1>1, <1>4, <1>5
<1>7. record_count' \in Words
  BY SMT, <1>6, WordBounds
<1>8. write_pos' \in 0..DATA_PACKET_CANONICAL_CAPACITY
  <2>1. write_pos' <= DATA_PACKET_CANONICAL_CAPACITY
    BY SMT, <1>6, Constants
  <2> QED BY <1>6, <2>1, Constants, InRange
<1>9. batch' \in Seq(Frames)
  BY SMT, <1>2, <1>3 DEF TryAppend, TypeOK
<1>10. TypeOK'
  BY SMT, <1>2, <1>3, <1>6, <1>7, <1>8, <1>9 DEF TryAppend, TypeOK, Frames, Garbage
<1>11. BuilderInv'
  BY SMT, <1>4, <1>5, <1>6, Constants DEF BuilderInv
<1>12. SentInv' /\ ReservedInv' /\ ChecksumInv'
  BY <1>2 DEF TryAppend, SentInv, ReservedInv, ChecksumInv, OnWire
<1> QED BY <1>10, <1>11, <1>12 DEF IInv

\* Finishing a packet keeps IInv: this is where the headers are written.
LEMMA FinalizeStep == IInv /\ Finalize => IInv'
<1> SUFFICES ASSUME IInv, Finalize PROVE IInv'
  OBVIOUS
<1> DEFINE total == rte_cpu_to_be_16(Ipv4Size + (UdpSize + write_pos))
           udp == rte_cpu_to_be_16(UdpSize + write_pos)
<1>1. TypeOK /\ sent < MaxPackets
  BY DEF IInv, Finalize, SentInv
<1>2. write_pos \in Nat /\ write_pos <= 1472 /\ data_len = 1514
  BY SMT, Constants DEF IInv, Finalize, BuilderInv, TypeOK
<1>3. total \in Words /\ udp \in Words
  <2>1. UdpSize + write_pos \in Nat /\ UdpSize + write_pos <= 65535
    BY SMT, <1>2 DEF UdpSize
  <2>2. Ipv4Size + (UdpSize + write_pos) \in Nat /\ Ipv4Size + (UdpSize + write_pos) <= 65535
    BY SMT, <1>2 DEF UdpSize, Ipv4Size
  <2> QED BY SMT, <2>1, <2>2, SwapIsWord
<1>4. outer' = [total_length |-> total, dgram_len |-> udp,
                hdr_checksum |-> Checksum(ipv4_checksum_base(dst), total)]
  BY DEF Finalize
<1> HIDE DEF total, udp
<1>5. Checksum(ipv4_checksum_base(dst), total) \in Words
  BY <1>1, <1>3, ChecksumVerifies DEF TypeOK
<1>6. data_len' \in 0..MAX_DATA_PACKET_SIZE
  <2>1. data_len' = 42 + write_pos
    BY SMT, <1>2 DEF Finalize, Unused, DATA_PACKET_CANONICAL_CAPACITY
  <2>2. data_len' \in Nat /\ data_len' <= MAX_DATA_PACKET_SIZE
    BY SMT, <1>2, <2>1, Constants
  <2> QED BY <2>2, Constants, InRange
<1>7. sent' \in 0..MaxPackets
  BY SMT, <1>1, BoundAssumption DEF Finalize, TypeOK
<1>8. outer' \in [total_length : Words, dgram_len : Words, hdr_checksum : Words]
  BY <1>3, <1>4, <1>5
<1>9. TypeOK'
  BY <1>1, <1>6, <1>7, <1>8 DEF Finalize, TypeOK, builderVars, Frames, Garbage
<1>10. ChecksumInv'
  BY <1>4 DEF ChecksumInv, Finalize
<1>11. SentInv' /\ ReservedInv' /\ BuilderInv'
  BY DEF Finalize, SentInv, ReservedInv, BuilderInv
<1> QED BY <1>9, <1>10, <1>11 DEF IInv

\* Receiving a packet keeps IInv.
LEMMA ReceiveStep == IInv /\ Receive => IInv'
<1> SUFFICES ASSUME IInv, Receive PROVE IInv'
  OBVIOUS
<1>1. TypeOK
  BY DEF IInv
<1>2. record_count \in Nat
  BY SMT, <1>1, WordBounds DEF TypeOK
<1>3. walked' \in Seq(Frames \cup {Garbage})
  <2>1. \A pos : FrameAt(pos) \in Frames \cup {Garbage}
    BY <1>1, FrameAtType
  <2>2. [k \in 1..record_count |-> FrameAt(Offset[k-1])] \in Seq(Frames \cup {Garbage})
    BY SMT, <1>2, <2>1
  <2>3. <<>> \in Seq(Frames \cup {Garbage})
    BY SMT
  <2> QED BY <2>2, <2>3 DEF Receive
<1>4. TypeOK'
  BY <1>1, <1>3 DEF Receive, TypeOK, builderVars, Frames, Garbage
<1> QED BY <1>4 DEF IInv, Receive, SentInv, ReservedInv, BuilderInv, ChecksumInv, OnWire

\* Reusing the mbuf keeps IInv.
LEMMA RecycleStep == IInv /\ Recycle => IInv'
<1> SUFFICES ASSUME IInv, Recycle PROVE IInv'
  OBVIOUS
<1>1. 0 \in 0..MAX_DATA_PACKET_SIZE
  BY SMT, Constants
<1>2. TypeOK'
  BY <1>1 DEF IInv, Recycle, TypeOK, builderVars, Frames, Garbage
<1> QED BY <1>2 DEF IInv, Recycle, SentInv, ReservedInv, BuilderInv, ChecksumInv, OnWire

\* A stuttering step keeps IInv.
LEMMA Stutter == IInv /\ UNCHANGED vars => IInv'
BY DEF IInv, vars, builderVars, TypeOK, SentInv, ReservedInv, BuilderInv, ChecksumInv,
       OnWire, Frames, Garbage

\* Every step keeps IInv.
LEMMA StepIInv == IInv /\ [Next]_vars => IInv'
BY ReserveStep, ConstructStep, AppendStep, FinalizeStep, ReceiveStep, RecycleStep, Stutter
   DEF Next

\* IInv is an invariant of the packet path.
LEMMA Invariance == Spec => []IInv
<1>1. Init => IInv
  BY InitIInv
<1>2. IInv /\ [Next]_vars => IInv'
  BY StepIInv
<1> QED BY <1>1, <1>2, PTL DEF Spec

\* Type correctness of the packet path: every word of a header keeps 16 bits.
THEOREM TypeCorrect == Spec => []TypeOK
<1>1. IInv => TypeOK
  BY DEF IInv
<1> QED BY <1>1, Invariance, PTL

\* The IPv4 header of every packet the sender finishes verifies, whatever the
\* addresses and whatever the batch.
THEOREM HeadersVerify == Spec => []HeaderVerifies
<1>1. IInv => HeaderVerifies
  <2> SUFFICES ASSUME IInv, OnWire PROVE Verifies(Ipv4Words(outer.total_length, outer.hdr_checksum, dst))
    BY DEF HeaderVerifies
  <2>1. outer.total_length \in Words /\ dst \in [1..4 -> AddressWords]
    BY DEF IInv, TypeOK
  <2>2. outer.hdr_checksum = Checksum(ipv4_checksum_base(dst), outer.total_length)
    BY DEF IInv, ChecksumInv
  <2> QED BY <2>1, <2>2, ChecksumVerifies
<1> QED BY <1>1, Invariance, PTL
-----------------------------------------------------------------------------
(* Induction on Nat for sets of numbers, from the cardinality of finite sets: *)
(* the induction theorems of the library take an operator and cannot be used. *)

\* A set of numbers that holds 0 and the successor of each of its members is Nat.
LEMMA NatInduct ==
  ASSUME NEW S \in SUBSET Nat, 0 \in S, \A k \in S : k + 1 \in S
  PROVE  S = Nat
  <1> SUFFICES ASSUME NEW n \in Nat, n \notin S PROVE FALSE
    OBVIOUS
  <1> DEFINE A == S \cap (0..n)
  <1> DEFINE f == [k \in A |-> k + 1]
  <1>1. IsFiniteSet(0..n)
    BY FS_Interval
  <1>2. IsFiniteSet(A) 
    BY <1>1, FS_Subset
  <1>3. \A k \in A : k + 1 \in A \ {0}
    OBVIOUS
  <1>4. f \in Injection(A, A \ {0})
    BY <1>3 DEF Injection, IsInjective
  <1>5. /\ IsFiniteSet(A \ {0})
        /\ Cardinality(A \ {0}) = Cardinality(A) - 1
    BY <1>2, FS_RemoveElement
  <1>6. Cardinality(A) <= Cardinality(A \ {0})
    BY <1>4, <1>5, FS_Injection
  <1>7. Cardinality(A) \in Nat
    BY <1>2, FS_CardinalityType
  <1> QED
    BY <1>5, <1>6, <1>7
-----------------------------------------------------------------------------
(* A packet arrives as it was built.  The frames of the packet lie one       *)
(* behind the other; place[k-1] is the offset of the k-th, and no header of  *)
(* an earlier packet is left at such an offset.                              *)

Placed(place) ==
  /\ record_count = Len(batch) /\ Len(batch) # 0
  /\ place \in [0..Len(batch) -> Nat]
  /\ place[0] = DATA_HEADER_SIZE /\ place[Len(batch)] = write_pos
  /\ \A k \in 1..Len(batch) :
       /\ place[k] = place[k-1] + batch[k].body_len /\ place[k] <= write_pos
       /\ \E r \in image : r.at = place[k-1]
       /\ \A r \in image : r.at = place[k-1] => r.frame = batch[k]

PlacedInv == pc \in {"building", "wire", "received"} => \E place : Placed(place)

LengthInv ==
  OnWire => /\ data_len = HEADER_SIZE + write_pos
            /\ outer.total_length = rte_cpu_to_be_16(Ipv4Size + (UdpSize + write_pos))
            /\ outer.dgram_len = rte_cpu_to_be_16(UdpSize + write_pos)

WalkedInv == pc = "received" => walked = batch

EmptyInv == pc = "reserved" => batch = <<>>

WholeInv == EmptyInv /\ PlacedInv /\ LengthInv /\ WalkedInv

\* The layout of the headers, as numbers.
LEMMA Layout == /\ DATA_HEADER_SIZE = 22 /\ EthernetSize = 14 /\ Ipv4Size = 20 /\ UdpSize = 8
                /\ HEADER_SIZE = 42 /\ FrameHeaderSize = 24
BY SMT DEF DATA_HEADER_SIZE, EthernetSize, Ipv4Size, UdpSize, HEADER_SIZE, FrameHeaderSize

\* Swapping the bytes of a word twice gives the word.
LEMMA SwapTwice ==
  ASSUME NEW x \in Nat, x <= 65535
  PROVE  rte_cpu_to_be_16(rte_cpu_to_be_16(x)) = x
<1> DEFINE h == x \div 256
           l == x % 256
           y == l * 256 + h
<1>1. h \in Nat /\ h <= 255 /\ l \in Nat /\ l <= 255 /\ x = 256 * h + l
  BY SMT
<1>2. rte_cpu_to_be_16(x) = y
  BY SMT DEF rte_cpu_to_be_16
<1> HIDE DEF h, l
<1>3. y \div 256 = l /\ y % 256 = h
  BY SMT, <1>1
<1> HIDE DEF y
<1>4. rte_cpu_to_be_16(y) = h * 256 + l
  BY SMT, <1>3 DEF rte_cpu_to_be_16
<1> QED BY SMT, <1>1, <1>2, <1>4

\* What the frames of a packet are.
LEMMA FrameType ==
  ASSUME NEW f \in Frames
  PROVE  f.body_len \in Nat /\ f.body_len >= 24
<1>1. f.body_len \in FrameSizes
  BY DEF Frames
<1> QED BY <1>1, FrameSizeBounds

\* Starting the builder places the first frame.
LEMMA ConstructPlaced ==
  ASSUME IInv, EmptyInv, NEW s \in FrameSizes, Construct(s)
  PROVE  PlacedInv'
<1> DEFINE f == FrameOf(s)
           place == [k \in 0..1 |-> IF k = 0 THEN 22 ELSE 22 + s]
<1>1. s \in Nat /\ s >= 24
  BY FrameSizeBounds
<1>2. f.body_len = s
  BY DEF FrameOf
<1> HIDE DEF f
<1>3. batch' = <<f>>
  BY DEF EmptyInv, Construct, f
<1>4. Len(batch') = 1 /\ batch'[1] = f
  BY <1>3
<1>5. record_count' = 1 /\ write_pos' = 22 + s
  BY Layout DEF Construct
<1>6. place \in [0..1 -> Nat] /\ place[0] = 22 /\ place[1] = 22 + s /\ place[1-1] = 22
  BY SMT, <1>1
<1>7. image' = {r \in image : r.at + 24 <= 22 \/ r.at >= 22 + s} \cup {[at |-> 22, frame |-> f]}
  BY <1>2, Layout DEF Construct, Written, f
<1>8. \E r \in image' : r.at = 22
  <2>1. [at |-> 22, frame |-> f] \in image'
    BY <1>7
  <2> QED BY <2>1
<1>9. ASSUME NEW r \in image', r.at = 22 PROVE r.frame = f
  <2>1. ~(r.at + 24 <= 22 \/ r.at >= 22 + s)
    BY SMT, <1>1, <1>9
  <2> QED BY <1>7, <2>1
<1> HIDE DEF place
<1>10. \A k \in 1..1 :
         /\ place[k] = place[k-1] + batch'[k].body_len /\ place[k] <= write_pos'
         /\ \E r \in image' : r.at = place[k-1]
         /\ \A r \in image' : r.at = place[k-1] => r.frame = batch'[k]
  <2>1. place[1] = place[1-1] + batch'[1].body_len /\ place[1] <= write_pos'
    BY SMT, <1>1, <1>2, <1>4, <1>5, <1>6
  <2>2. \A k \in 1..1 : k = 1
    BY SMT
  <2> QED BY <1>4, <1>6, <1>8, <1>9, <2>1, <2>2
<1>11. Placed(place)'
  BY <1>4, <1>5, <1>6, <1>10, Layout DEF Placed
<1> QED BY <1>11 DEF PlacedInv

\* Appending a frame places it behind the others and leaves them in place.
LEMMA AppendPlaced ==
  ASSUME IInv, PlacedInv, NEW s \in FrameSizes, TryAppend(s)
  PROVE  PlacedInv'
<1> DEFINE f == FrameOf(s)
           n == Len(batch)
           w == write_pos
<1>1. s \in Nat /\ s >= 24
  BY FrameSizeBounds
<1>2. f.body_len = s
  BY DEF FrameOf
<1> PICK place : Placed(place)
  BY DEF PlacedInv, TryAppend
<1>3. batch \in Seq(Frames) /\ TypeOK /\ sent < MaxPackets
  BY DEF IInv, TypeOK, SentInv, TryAppend
<1>4. f \in Frames
  BY <1>3, WrittenType
<1> HIDE DEF f
<1>5. /\ n \in Nat /\ n # 0 /\ n + 1 \in Nat
      /\ Len(batch') = n + 1 /\ batch'[n+1] = f
      /\ \A k \in 1..n : batch'[k] = batch[k] /\ batch[k] \in Frames
  BY <1>3, <1>4 DEF TryAppend, f, Placed
<1>6. /\ place \in [0..n -> Nat] /\ place[0] = 22 /\ place[n] = w /\ w \in Nat
      /\ record_count = n
      /\ \A k \in 1..n :
           /\ place[k] = place[k-1] + batch[k].body_len /\ place[k] <= w
           /\ \E r \in image : r.at = place[k-1]
           /\ \A r \in image : r.at = place[k-1] => r.frame = batch[k]
  BY <1>5, Layout DEF Placed
<1>7. write_pos' = w + s /\ record_count' = n + 1
  BY <1>6 DEF TryAppend, AppendPos
<1>8. image' = {r \in image : r.at + 24 <= w \/ r.at >= w + s} \cup {[at |-> w, frame |-> f]}
  BY <1>2, Layout DEF TryAppend, Written, f
<1> HIDE DEF n, w
<1> DEFINE next == [k \in 0..n+1 |-> IF k = n + 1 THEN w + s ELSE place[k]]
<1>9. /\ next \in [0..n+1 -> Nat] /\ next[0] = 22 /\ next[n+1] = w + s
      /\ \A k \in 0..n : next[k] = place[k]
  BY SMT, <1>1, <1>5, <1>6
<1> PICK new : /\ new \in [0..n+1 -> Nat] /\ new[0] = 22 /\ new[n+1] = w + s
               /\ \A k \in 0..n : new[k] = place[k]
  BY <1>9
<1>10. ASSUME NEW k \in 1..n
       PROVE  /\ new[k] = new[k-1] + batch'[k].body_len /\ new[k] <= w + s
              /\ \E r \in image' : r.at = new[k-1]
              /\ \A r \in image' : r.at = new[k-1] => r.frame = batch'[k]
  <2>1. k \in 0..n /\ k - 1 \in 0..n
    BY SMT, <1>5
  <2>2. new[k] = place[k] /\ new[k-1] = place[k-1] /\ batch'[k] = batch[k]
    BY <1>5, <2>1
  <2>3. batch[k].body_len \in Nat /\ batch[k].body_len >= 24
    BY <1>5, FrameType
  <2>4. place[k] \in Nat /\ place[k-1] \in Nat
    BY <1>6, <2>1
  <2>5. place[k] = place[k-1] + batch[k].body_len /\ place[k] <= w
    BY <1>6
  <2>6. place[k-1] + 24 <= w /\ place[k] <= w + s
    BY SMT, <1>1, <1>6, <2>3, <2>4, <2>5
  <2>7. \E r \in image' : r.at = place[k-1]
    <3> PICK r \in image : r.at = place[k-1]
      BY <1>6
    <3>1. r.at + 24 <= w
      BY <2>6
    <3> QED BY <1>8, <3>1
  <2>8. ASSUME NEW r \in image', r.at = place[k-1] PROVE r.frame = batch[k]
    <3>1. r.at # w
      BY SMT, <1>6, <2>4, <2>6, <2>8
    <3>2. r \in image
      BY <1>8, <3>1
    <3> QED BY <1>6, <2>8, <3>2
  <2> QED BY <2>2, <2>5, <2>6, <2>7, <2>8
<1>11. /\ new[n+1] = new[(n+1)-1] + batch'[n+1].body_len /\ new[n+1] <= w + s
       /\ \E r \in image' : r.at = new[(n+1)-1]
       /\ \A r \in image' : r.at = new[(n+1)-1] => r.frame = batch'[n+1]
  <2>1. (n + 1) - 1 = n /\ n \in 0..n /\ w + s <= w + s
    BY SMT, <1>1, <1>5, <1>6
  <2>2. new[(n+1)-1] = w
    BY <1>6, <2>1
  <2>3. \E r \in image' : r.at = w
    <3>1. [at |-> w, frame |-> f] \in image'
      BY <1>8
    <3> QED BY <3>1
  <2>4. ASSUME NEW r \in image', r.at = w PROVE r.frame = f
    <3>1. ~(r.at + 24 <= w \/ r.at >= w + s)
      BY SMT, <1>1, <1>6, <2>4
    <3> QED BY <1>8, <3>1
  <2> QED BY <1>2, <1>5, <2>1, <2>2, <2>3, <2>4
<1>12. ASSUME NEW k \in 1..n+1
       PROVE  /\ new[k] = new[k-1] + batch'[k].body_len /\ new[k] <= w + s
              /\ \E r \in image' : r.at = new[k-1]
              /\ \A r \in image' : r.at = new[k-1] => r.frame = batch'[k]
  <2>1. k \in 1..n \/ k = n + 1
    BY SMT, <1>5
  <2> QED BY <1>10, <1>11, <2>1
<1>13. n + 1 # 0
  BY SMT, <1>5
<1>14. Placed(new)'
  <2>1. Len(batch') = n + 1 /\ record_count' = n + 1 /\ write_pos' = w + s
    BY <1>5, <1>7
  <2>2. /\ new \in [0..n+1 -> Nat] /\ new[0] = DATA_HEADER_SIZE /\ new[n+1] = w + s
    BY Layout
  <2> QED BY <1>12, <1>13, <2>1, <2>2 DEF Placed
<1> QED BY <1>14 DEF PlacedInv

\* What lies in a placed packet can be read at the offsets of its frames.
LEMMA PlacedFrames ==
  ASSUME IInv, LengthInv, pc = "wire", NEW place, Placed(place)
  PROVE  /\ packet_size = write_pos /\ write_pos \in Nat /\ write_pos >= 46
         /\ \A k \in 1..Len(batch) : FrameAt(place[k-1]) = batch[k]
<1> DEFINE n == Len(batch)
<1>1. batch \in Seq(Frames) /\ write_pos \in 0..DATA_PACKET_CANONICAL_CAPACITY
  BY DEF IInv, TypeOK
<1>2. n \in Nat /\ n # 0 /\ \A k \in 1..n : batch[k] \in Frames
  BY <1>1 DEF Placed
<1>3. write_pos \in Nat
  BY SMT, <1>1, Constants
<1>4. packet_size = write_pos
  <2>1. data_len = 42 + write_pos
    BY Layout DEF LengthInv, OnWire
  <2> QED BY SMT, <1>3, <2>1, Layout DEF packet_size
<1>5. ASSUME NEW k \in 1..n
      PROVE  /\ place[k-1] \in Nat /\ place[k-1] + 24 <= write_pos
             /\ FrameAt(place[k-1]) = batch[k]
  <2>1. k \in 0..n /\ k - 1 \in 0..n
    BY SMT, <1>2
  <2>2. place[k] \in Nat /\ place[k-1] \in Nat
    BY <2>1 DEF Placed
  <2>3. batch[k].body_len \in Nat /\ batch[k].body_len >= 24
    BY <1>2, FrameType
  <2>4. /\ place[k] = place[k-1] + batch[k].body_len /\ place[k] <= write_pos
        /\ \E r \in image : r.at = place[k-1]
        /\ \A r \in image : r.at = place[k-1] => r.frame = batch[k]
    BY DEF Placed
  <2>5. place[k-1] + 24 <= write_pos
    BY SMT, <1>3, <2>2, <2>3, <2>4
  <2>6. \E r \in image : r.at = place[k-1] /\ place[k-1] + FrameHeaderSize <= packet_size
    BY <1>4, <2>4, <2>5, Layout
  <2>7. (CHOOSE r \in image : r.at = place[k-1]).frame = batch[k]
    BY <2>4
  <2> QED BY <2>2, <2>5, <2>6, <2>7 DEF FrameAt
<1>6. write_pos >= 46
  <2>1. 1 \in 1..n /\ 1 - 1 = 0
    BY SMT, <1>2
  <2>2. place[0] = 22
    BY Layout DEF Placed
  <2>3. place[0] + 24 <= write_pos
    BY <1>5, <2>1
  <2> QED BY SMT, <1>3, <2>2, <2>3
<1> QED BY <1>3, <1>4, <1>5, <1>6

\* Two functions on 0..n that begin alike and go on alike are one.
LEMMA SameWalk ==
  ASSUME NEW n \in Nat, NEW g, NEW h, g[0] = h[0],
         \A k \in 1..n : g[k-1] = h[k-1] => g[k] = h[k]
  PROVE  \A k \in 0..n : g[k] = h[k]
<1> DEFINE T == {k \in Nat : k <= n => g[k] = h[k]}
<1>1. T \in SUBSET Nat /\ 0 \in T
  OBVIOUS
<1>2. ASSUME NEW k \in T PROVE k + 1 \in T
  <2>1. k \in Nat /\ k + 1 \in Nat /\ (k + 1) - 1 = k
    BY SMT
  <2>2. ASSUME k + 1 <= n PROVE g[k+1] = h[k+1]
    <3>1. k + 1 \in 1..n /\ k <= n
      BY SMT, <2>1, <2>2
    <3> QED BY <2>1, <3>1
  <2> QED BY <2>1, <2>2
<1>3. T = Nat
  <2> HIDE DEF T
  <2> QED BY <1>1, <1>2, NatInduct
<1> QED BY SMT, <1>3

\* The receiver's walk over the records meets the frames of the packet.
LEMMA WalkMeets ==
  ASSUME IInv, LengthInv, pc = "wire", NEW place, Placed(place)
  PROVE  \A k \in 0..record_count : Offset[k] = place[k]
<1> DEFINE n == record_count
           Walks(g) == g = [k \in 0..n |-> IF k = 0 THEN DATA_HEADER_SIZE
                                           ELSE g[k-1] + FrameAt(g[k-1]).body_len]
           c == CHOOSE g : Walks(g)
<1>1. n \in Nat /\ n = Len(batch)
  BY SMT, WordBounds DEF IInv, TypeOK, Placed
<1>2. place \in [0..n -> Nat] /\ place[0] = DATA_HEADER_SIZE
  BY <1>1 DEF Placed
<1>3. \A k \in 1..n : place[k] = place[k-1] + FrameAt(place[k-1]).body_len
  <2> TAKE k \in 1..n
  <2>1. place[k] = place[k-1] + batch[k].body_len
    BY <1>1 DEF Placed
  <2> QED BY <1>1, <2>1, PlacedFrames
<1>4. Walks(place)
  <2>1. \A k \in 0..n : k = 0 \/ k \in 1..n
    BY SMT, <1>1
  <2>2. place = [k \in 0..n |-> place[k]]
    BY <1>2
  <2>3. \A k \in 0..n : place[k] = IF k = 0 THEN DATA_HEADER_SIZE
                                   ELSE place[k-1] + FrameAt(place[k-1]).body_len
    BY <1>2, <1>3, <2>1
  <2> QED BY <2>2, <2>3, Zenon
<1>5. Walks(c)
  <2> HIDE DEF Walks
  <2> QED BY <1>4
<1>6. Offset = c
  BY DEF Offset
<1> HIDE DEF c
<1>7. \A k \in 0..n : c[k] = IF k = 0 THEN DATA_HEADER_SIZE
                             ELSE c[k-1] + FrameAt(c[k-1]).body_len
  BY <1>5, Zenon
<1>8. c[0] = place[0]
  <2>1. 0 \in 0..n
    BY SMT, <1>1
  <2> QED BY <1>2, <1>7, <2>1
<1>9. \A k \in 1..n : c[k-1] = place[k-1] => c[k] = place[k]
  <2> TAKE k \in 1..n
  <2>1. k \in 0..n /\ k # 0
    BY SMT, <1>1
  <2>2. c[k] = c[k-1] + FrameAt(c[k-1]).body_len
    BY <1>7, <2>1
  <2> QED BY <1>3, <2>2
<1> HIDE DEF n
<1>10. \A k \in 0..n : c[k] = place[k]
  <2>1. n \in Nat
    BY <1>1
  <2> PICK g, h : g = c /\ h = place
    OBVIOUS
  <2>2. g[0] = h[0] /\ \A k \in 1..n : g[k-1] = h[k-1] => g[k] = h[k]
    BY <1>8, <1>9
  <2>3. \A k \in 0..n : g[k] = h[k]
    BY ONLY <2>1, <2>2, SameWalk
  <2> QED BY <2>3
<1> QED BY <1>6, <1>10 DEF n

\* The bytes of the batch end where the builder stopped writing.
LEMMA BytesPlaced ==
  ASSUME batch \in Seq(Frames), NEW place, Placed(place), write_pos \in Nat
  PROVE  write_pos = DATA_HEADER_SIZE + BatchSize
<1> DEFINE n == Len(batch)
           Adds(g) == g = [k \in 0..n |-> IF k = 0 THEN 0 ELSE g[k-1] + batch[k].body_len]
           c == CHOOSE g : Adds(g)
           low == [k \in 0..n |-> place[k] - 22]
<1>1. n \in Nat /\ \A k \in 1..n : batch[k] \in Frames /\ batch[k].body_len \in Nat
  BY FrameType
<1>2. place \in [0..n -> Nat] /\ place[0] = 22 /\ place[n] = write_pos
  BY Layout DEF Placed
<1>3. \A k \in 1..n : place[k] = place[k-1] + batch[k].body_len
  BY DEF Placed
<1>4. \A k \in 0..n : low[k] = place[k] - 22 /\ low[k] \in Int /\ place[k] \in Nat
  BY SMT, <1>2
<1> HIDE DEF low
<1>5. low[0] = 0
  <2>1. 0 \in 0..n
    BY SMT, <1>1
  <2> QED BY SMT, <1>2, <1>4, <2>1
<1>6. \A k \in 1..n : low[k] = low[k-1] + batch[k].body_len
  <2> TAKE k \in 1..n
  <2>1. k \in 0..n /\ k - 1 \in 0..n
    BY SMT, <1>1
  <2>2. low[k] = place[k] - 22 /\ low[k-1] = place[k-1] - 22 /\ place[k-1] \in Nat
    BY <1>4, <2>1
  <2>3. place[k] = place[k-1] + batch[k].body_len /\ batch[k].body_len \in Nat
    BY <1>1, <1>3
  <2> QED BY SMT, <2>2, <2>3
<1>7. Adds(low)
  <2>1. \A k \in 0..n : k = 0 \/ k \in 1..n
    BY SMT, <1>1
  <2>2. low = [k \in 0..n |-> low[k]]
    BY DEF low
  <2>3. \A k \in 0..n : low[k] = IF k = 0 THEN 0 ELSE low[k-1] + batch[k].body_len
    BY <1>5, <1>6, <2>1
  <2> QED BY <2>2, <2>3, Zenon
<1>8. Adds(c)
  <2> HIDE DEF Adds
  <2> QED BY <1>7
<1>9. BatchSize = c[n]
  BY DEF BatchSize, Bytes
<1> HIDE DEF c
<1>10. \A k \in 0..n : c[k] = IF k = 0 THEN 0 ELSE c[k-1] + batch[k].body_len
  BY <1>8, Zenon
<1>11. c[0] = low[0]
  <2>1. 0 \in 0..n
    BY SMT, <1>1
  <2> QED BY <1>5, <1>10, <2>1
<1>12. \A k \in 1..n : c[k-1] = low[k-1] => c[k] = low[k]
  <2> TAKE k \in 1..n
  <2>1. k \in 0..n /\ k # 0
    BY SMT, <1>1
  <2>2. c[k] = c[k-1] + batch[k].body_len
    BY <1>10, <2>1
  <2> QED BY <1>6, <2>2
<1> HIDE DEF n
<1>13. \A k \in 0..n : c[k] = low[k]
  <2>1. n \in Nat
    BY <1>1
  <2> HIDE DEF Adds
  <2> PICK g : g = c
    OBVIOUS
  <2> PICK h : h = low
    OBVIOUS
  <2>2. g[0] = h[0] /\ \A k \in 1..n : g[k-1] = h[k-1] => g[k] = h[k]
    BY <1>11, <1>12
  <2>3. \A k \in 0..n : g[k] = h[k]
    BY ONLY <2>1, <2>2, SameWalk
  <2> QED BY <2>3
<1>14. n \in 0..n
  BY SMT, <1>1
<1>15. c[n] = write_pos - 22
  BY <1>2, <1>4, <1>13, <1>14
<1> QED BY SMT, <1>9, <1>15, Layout DEF n

\* The receiver publishes the frames of the packet.
LEMMA ReceiveWhole ==
  ASSUME IInv, PlacedInv, LengthInv, Receive
  PROVE  walked' = batch
<1>1. pc = "wire"
  BY DEF Receive
<1> PICK place : Placed(place)
  BY <1>1 DEF PlacedInv
<1> DEFINE n == record_count
<1>2. batch \in Seq(Frames) /\ n = Len(batch) /\ n \in Nat
  BY DEF IInv, TypeOK, Placed
<1>3. write_pos \in Nat /\ write_pos >= 46 /\ \A k \in 1..n : FrameAt(place[k-1]) = batch[k]
  BY <1>1, <1>2, PlacedFrames
<1>4. \A k \in 0..n : Offset[k] = place[k]
  BY <1>1, WalkMeets
<1>5. ~(data_len < 64)
  <2>1. data_len = 42 + write_pos
    BY <1>1, Layout DEF LengthInv, OnWire
  <2> QED BY SMT, <1>3, <2>1
<1>6. walked' = [k \in 1..n |-> FrameAt(Offset[k-1])]
  BY <1>5 DEF Receive
<1>7. \A k \in 1..n : FrameAt(Offset[k-1]) = batch[k]
  <2> TAKE k \in 1..n
  <2>1. k - 1 \in 0..n
    BY SMT, <1>2
  <2> QED BY <1>3, <1>4, <2>1
<1>8. batch = [k \in 1..n |-> batch[k]]
  BY <1>2
<1> HIDE DEF n
<1> QED BY <1>6, <1>7, <1>8

\* WholeInv is kept by every step.
LEMMA WholeStep == IInv /\ WholeInv /\ [Next]_vars => WholeInv'
<1> SUFFICES ASSUME IInv, WholeInv, [Next]_vars PROVE WholeInv'
  OBVIOUS
<1> USE DEF WholeInv
<1>1. CASE Reserve
  BY <1>1 DEF Reserve, EmptyInv, PlacedInv, LengthInv, WalkedInv, OnWire
<1>2. ASSUME NEW s \in FrameSizes, Construct(s) PROVE WholeInv'
  <2>1. PlacedInv'
    BY <1>2, ConstructPlaced
  <2> QED BY <1>2, <2>1 DEF Construct, EmptyInv, LengthInv, WalkedInv, OnWire
<1>3. ASSUME NEW s \in FrameSizes, TryAppend(s) PROVE WholeInv'
  <2>1. PlacedInv'
    BY <1>3, AppendPlaced
  <2> QED BY <1>3, <2>1 DEF TryAppend, EmptyInv, LengthInv, WalkedInv, OnWire
<1>4. CASE Finalize
  <2>1. PlacedInv'
    BY <1>4 DEF Finalize, builderVars, PlacedInv, Placed
  <2>2. data_len = 1514 /\ write_pos \in Nat
    BY SMT, <1>4, Constants DEF IInv, BuilderInv, Finalize, TypeOK
  <2>3. data_len' = 42 + write_pos
    BY SMT, <1>4, <2>2, Constants DEF Finalize, Unused
  <2>4. LengthInv'
    BY <1>4, <2>3, Layout DEF Finalize, builderVars, LengthInv
  <2> QED BY <1>4, <2>1, <2>4 DEF Finalize, EmptyInv, WalkedInv
<1>5. CASE Receive
  <2>1. walked' = batch
    BY <1>5, ReceiveWhole
  <2> QED BY <1>5, <2>1 DEF Receive, builderVars, EmptyInv, PlacedInv, Placed, LengthInv, WalkedInv, OnWire
<1>6. CASE Recycle
  BY <1>6 DEF Recycle, EmptyInv, PlacedInv, LengthInv, WalkedInv, OnWire
<1>7. CASE UNCHANGED vars
  BY <1>7 DEF vars, builderVars, EmptyInv, PlacedInv, Placed, LengthInv, WalkedInv, OnWire
<1> QED BY <1>1, <1>2, <1>3, <1>4, <1>5, <1>6, <1>7 DEF Next

\* The lengths of mbuf, IPv4 and UDP agree with the frames of the batch.
LEMMA LengthsAgree ==
  ASSUME IInv, WholeInv, pc = "received"
  PROVE  ArrivesWhole
<1> DEFINE w == write_pos
<1>1. PICK place : Placed(place)
  BY DEF WholeInv, PlacedInv
<1>2. w \in Nat /\ w <= 1472 /\ batch \in Seq(Frames)
  BY SMT, Constants DEF IInv, TypeOK
<1>3. w = 22 + BatchSize
  BY <1>1, <1>2, BytesPlaced, Layout
<1>4. /\ data_len = 42 + w
      /\ outer.total_length = rte_cpu_to_be_16(20 + (8 + w))
      /\ outer.dgram_len = rte_cpu_to_be_16(8 + w)
      /\ walked = batch
  BY Layout DEF WholeInv, LengthInv, WalkedInv, OnWire
<1> HIDE DEF w
<1>5. /\ rte_cpu_to_be_16(outer.total_length) = 20 + (8 + w)
      /\ rte_cpu_to_be_16(outer.dgram_len) = 8 + w
  <2>1. 20 + (8 + w) \in Nat /\ 20 + (8 + w) <= 65535 /\ 8 + w \in Nat /\ 8 + w <= 65535
    BY SMT, <1>2
  <2> QED BY <1>4, <2>1, SwapTwice
<1>6. /\ data_len - 42 = w /\ data_len - 14 = 20 + (8 + w)
      /\ data_len - 14 - 20 = 8 + w /\ 20 + (8 + w) <= 1500
  BY SMT, <1>2, <1>4
<1>7. packet_size = w
  BY <1>6, Layout DEF packet_size
<1> QED BY <1>3, <1>4, <1>5, <1>6, <1>7, Layout DEF ArrivesWhole

\* A packet arrives as it was built: the receiver publishes the frames put into it,
\* none of an earlier packet that the mbuf held, and all lengths agree with them.
THEOREM ArrivesComplete == Spec => []ArrivesWhole
<1>1. Init => WholeInv
  BY DEF Init, WholeInv, EmptyInv, PlacedInv, LengthInv, WalkedInv, OnWire
<1>2. IInv /\ WholeInv => ArrivesWhole
  BY LengthsAgree DEF ArrivesWhole
<1> QED BY <1>1, <1>2, InitIInv, StepIInv, WholeStep, PTL DEF Spec
-----------------------------------------------------------------------------
(* The producer: its pacing *)

\* The types, and where frame numbers start.
ProducerTyped ==
  /\ stage \in {"start", "pace", "build", "stamp", "publish", "done"}
  /\ count \in Nat \ {0} /\ interval_ns \in Nat
  /\ now \in Nat /\ setBacks \in Nat /\ start \in Nat /\ next_send \in Nat
  /\ exchange \in Nat
  /\ seq \in Nat /\ (stage = "start" => seq = 0)
  /\ (stage \in {"build", "stamp", "publish"} => seq > 0)

\* While the clock is not set back, the schedule is kept.
PacedInv ==
  setBacks = 0 /\ stage # "start" =>
    /\ start <= now /\ next_send = start + seq * interval_ns
    /\ stage \in {"build", "stamp"} => now >= start + (seq - 1) * interval_ns

\* The types of the producer.
LEMMA ProducerTypes == ProducerSpec => []ProducerTyped
<1>1. ProducerInit => ProducerTyped
  BY SMT, ProducerAssumption DEF ProducerInit, ProducerTyped
<1>2. ProducerTyped /\ [ProducerNext]_producerVars => ProducerTyped'
  <2> SUFFICES ASSUME ProducerTyped, [ProducerNext]_producerVars PROVE ProducerTyped'
    OBVIOUS
  <2> USE DEF ProducerTyped, options
  <2>1. CASE Tick
    BY SMT, <2>1, ProducerAssumption DEF Tick
  <2>2. CASE SetBack
    BY SMT, <2>2, ProducerAssumption DEF SetBack
  <2>3. CASE Start
    BY SMT, <2>3 DEF Start
  <2>4. CASE Pace
    BY SMT, <2>4 DEF Pace
  <2>5. CASE Build
    BY SMT, <2>5 DEF Build
  <2>6. CASE Stamp
    BY SMT, <2>6 DEF Stamp
  <2>7. CASE Publish
    BY SMT, <2>7 DEF Publish
  <2>8. CASE Finish
    BY SMT, <2>8 DEF Finish
  <2>9. CASE UNCHANGED producerVars
    BY SMT, <2>9 DEF producerVars
  <2> QED BY <2>1, <2>2, <2>3, <2>4, <2>5, <2>6, <2>7, <2>8, <2>9 DEF ProducerNext, Step
<1> QED BY <1>1, <1>2, PTL DEF ProducerSpec

\* One slot of the schedule further.
LEMMA NextSlot ==
  ASSUME NEW n \in Nat, NEW i \in Nat
  PROVE  /\ (n + 1) * i = n * i + i /\ n * i \in Nat
         /\ (n + 1) - 1 = n /\ n > 0 => (n - 1) * i <= n * i
BY SMT

\* Every step keeps the schedule, and the times of the frames with it.
LEMMA PacedStep == ProducerTyped /\ PacedInv /\ NeverEarly /\ [ProducerNext]_producerVars
                     => PacedInv' /\ NeverEarly'
<1> SUFFICES ASSUME ProducerTyped, PacedInv, NeverEarly, [ProducerNext]_producerVars
             PROVE  PacedInv' /\ NeverEarly'
  OBVIOUS
<1> USE DEF ProducerTyped, PacedInv, NeverEarly, Stamped, options
<1>1. CASE Tick
  BY SMT, <1>1 DEF Tick
<1>2. CASE SetBack
  BY SMT, <1>2 DEF SetBack
<1>3. CASE Start
  BY SMT, <1>3 DEF Start
<1>4. CASE Pace
  BY SMT, <1>4, NextSlot DEF Pace
<1>5. CASE Build
  BY SMT, <1>5 DEF Build
<1>6. CASE Stamp
  BY SMT, <1>6 DEF Stamp
<1>7. CASE Publish
  BY SMT, <1>7 DEF Publish
<1>8. CASE Finish
  BY SMT, <1>8 DEF Finish
<1>9. CASE UNCHANGED producerVars
  BY SMT, <1>9 DEF producerVars
<1> QED BY <1>1, <1>2, <1>3, <1>4, <1>5, <1>6, <1>7, <1>8, <1>9 DEF ProducerNext, Step

\* While the clock is not set back, frame n never leaves before the n-th slot of
\* the schedule of --rate, however long the producer was held up before.
THEOREM Schedule == ProducerSpec => []NeverEarly
<1>1. ProducerInit => PacedInv /\ NeverEarly
  BY SMT DEF ProducerInit, PacedInv, NeverEarly, Stamped
<1>2. ProducerTyped /\ (PacedInv /\ NeverEarly) /\ [ProducerNext]_producerVars
        => (PacedInv /\ NeverEarly)'
  BY PacedStep
<1> QED BY <1>1, <1>2, ProducerTypes, PTL DEF ProducerSpec
-----------------------------------------------------------------------------
(* What a frame says *)

\* Every frame has one of the three types.
LEMMA Kinds == \A s \in Nat : kindOf(s) \in {"trade", "bbo", "book"}
<1> TAKE s \in Nat
<1>1. s % 3 \in 0..2
  BY SMT
<1>2. <<"trade", "bbo", "book">>[(s % 3) + 1] \in {"trade", "bbo", "book"}
  BY SMT, <1>1
<1> QED BY <1>2, ProducerAssumption DEF kindOf

\* The body and the Raw message of each type.
LEMMA ByKind ==
  ASSUME NEW s, NEW sums
  PROVE  /\ kindOf(s) = "trade" => Body(s, sums) = TradeBody(s, sums) /\ RawMessage(s) = RawTrade(s)
         /\ kindOf(s) = "bbo" => Body(s, sums) = BboBody(s) /\ RawMessage(s) = RawBbo(s)
         /\ kindOf(s) = "book" => Body(s, sums) = BookBody(s) /\ RawMessage(s) = RawBook(s)
BY Zenon DEF Body, RawMessage

\* The range of a remainder.
LEMMA Remainder == \A x \in Nat, m \in Nat \ {0} : x % m \in 0..m-1
BY SMT

\* A field that is wide enough keeps its value.
LEMMA Fits == \A x \in Nat, m \in Nat : x < m => Unsigned(x, m) = x
BY SMT DEF Unsigned

\* The widths of the fields.
LEMMA FieldWidths == 2^8 \in Nat /\ 2^8 = 256 /\ 2^16 \in Nat /\ 2^16 = 65536
BY SMT

\* The bits of the tick direction and of the aggressor.
LEMMA TradeFlags ==
  ASSUME NEW s \in Nat
  PROVE  LET flags == Unsigned((s % 4) * 32, 2^8) + (s % 2)
         IN (flags \div 32) % 4 = s % 4 /\ flags % 2 = s % 2
<1> DEFINE d == s % 4
           a == s % 2
<1>1. d \in 0..3 /\ a \in 0..1
  BY SMT, Remainder
<1> HIDE DEF d, a
<1>2. Unsigned(d * 32, 2^8) = d * 32
  <2>1. d * 32 \in Nat /\ d * 32 < 256
    BY SMT, <1>1
  <2> QED BY <2>1, Fits, FieldWidths
<1>3. ((d * 32 + a) \div 32) % 4 = d /\ (d * 32 + a) % 2 = a
  BY SMT, <1>1
<1> QED BY <1>2, <1>3 DEF d, a

\* A Compact trade says what the Raw one does.
LEMMA TradeSays ==
  ASSUME NEW s \in Nat, NEW sums
  PROVE  SaidTrade(TradeBody(s, sums)) = RawTrade(s)
<1>1. (TradeBody(s, sums).flags \div 32) % 4 = s % 4 /\ TradeBody(s, sums).flags % 2 = s % 2
  BY TradeFlags, Zenon DEF TradeBody
<1>2. TradeBody(s, sums).price_ticks = mid(s) /\ TradeBody(s, sums).quantity_lots = lots(s)
  BY Zenon DEF TradeBody
<1> QED BY <1>1, <1>2, Zenon DEF SaidTrade, RawTrade

\* The sizes and order counts of a side fit their fields.
LEMMA SmallFields ==
  ASSUME NEW s \in Nat
  PROVE  /\ Unsigned(1500 + (s % 50) * 100, 2^16) = 1500 + (s % 50) * 100
         /\ Unsigned(3 + (s % 10), 2^16) = 3 + (s % 10)
         /\ Unsigned(1000 + (s % 40) * 100, 2^16) = 1000 + (s % 40) * 100
         /\ Unsigned(2 + (s % 8), 2^16) = 2 + (s % 8)
<1>1. s % 50 \in 0..49 /\ s % 10 \in 0..9 /\ s % 40 \in 0..39 /\ s % 8 \in 0..7
  BY SMT, Remainder
<1> DEFINE x == s % 50
           y == s % 10
           z == s % 40
           w == s % 8
<1> HIDE DEF x, y, z, w
<1>2. x \in 0..49 /\ y \in 0..9 /\ z \in 0..39 /\ w \in 0..7
  BY <1>1 DEF x, y, z, w
<1>3. /\ 1500 + x * 100 \in Nat /\ 1500 + x * 100 < 65536
      /\ 3 + y \in Nat /\ 3 + y < 65536
      /\ 1000 + z * 100 \in Nat /\ 1000 + z * 100 < 65536
      /\ 2 + w \in Nat /\ 2 + w < 65536
  BY SMT, <1>2
<1> QED BY <1>3, Fits, FieldWidths DEF x, y, z, w

\* The prices are numbers.
LEMMA MidType == \A s \in Nat : mid(s) \in Nat
BY SMT, Remainder DEF mid

\* A Compact BBO says what the Raw one does.
LEMMA BboSays ==
  ASSUME NEW s \in Nat
  PROVE  SaidBbo(BboBody(s)) = RawBbo(s)
<1> DEFINE b == BboBody(s)
<1>1. b.bid_price_ticks = mid(s) - 50 /\ b.bid_price_ticks + b.spread_ticks = mid(s) + 50
  <2>1. b.bid_price_ticks = mid(s) - 50 /\ b.spread_ticks = Unsigned(100, 2^16)
    BY Zenon DEF BboBody
  <2>2. Unsigned(100, 2^16) = 100
    BY SMT DEF Unsigned
  <2>3. (mid(s) - 50) + 100 = mid(s) + 50
    BY SMT, MidType
  <2> QED BY <2>1, <2>2, <2>3
<1>2. /\ b.bid_size_lots = Unsigned(1500 + (s % 50) * 100, 2^16)
      /\ b.ask_size_lots = Unsigned(1500 + ((s + 7) % 50) * 100, 2^16)
      /\ b.bid_order_count = Unsigned(3 + (s % 10), 2^16)
      /\ b.ask_order_count = Unsigned(3 + ((s + 3) % 10), 2^16)
  BY DEF BboBody
<1>3. s + 7 \in Nat /\ s + 3 \in Nat
  BY SMT
<1>4. /\ b.bid_size_lots = 1500 + (s % 50) * 100
      /\ b.ask_size_lots = 1500 + ((s + 7) % 50) * 100
      /\ b.bid_order_count = 3 + (s % 10)
      /\ b.ask_order_count = 3 + ((s + 3) % 10)
  <2> HIDE DEF b
  <2>1. Unsigned(1500 + (s % 50) * 100, 2^16) = 1500 + (s % 50) * 100
    BY SmallFields
  <2>2. Unsigned(1500 + ((s + 7) % 50) * 100, 2^16) = 1500 + ((s + 7) % 50) * 100
    BY <1>3, SmallFields
  <2>3. Unsigned(3 + (s % 10), 2^16) = 3 + (s % 10)
    BY SmallFields
  <2>4. Unsigned(3 + ((s + 3) % 10), 2^16) = 3 + ((s + 3) % 10)
    BY <1>3, SmallFields
  <2> QED BY <1>2, <2>1, <2>2, <2>3, <2>4
<1>5. /\ SaidBbo(b).price = RawBbo(s).price
      /\ SaidBbo(b).size = RawBbo(s).size
      /\ SaidBbo(b).order_count = RawBbo(s).order_count
  <2> HIDE DEF b
  <2> QED BY <1>1, <1>4 DEF SaidBbo, RawBbo
<1> QED BY <1>5 DEF SaidBbo, RawBbo

\* One side of a book: the sizes and counts of its levels, and where they lie.
LEMMA SideSays ==
  ASSUME NEW s \in Nat, NEW i \in Levels, NEW top \in Int
  PROVE  /\ Unsigned(1000 + ((s + i + 0) % 40) * 100, 2^16) = 1000 + ((s + i) % 40) * 100
         /\ Unsigned(2 + ((s + i + 0) % 8), 2^16) = 2 + ((s + i) % 8)
         /\ Unsigned(1000 + ((s + i + 5) % 40) * 100, 2^16) = 1000 + ((s + i + 5) % 40) * 100
         /\ Unsigned(2 + ((s + i + 5) % 8), 2^16) = 2 + ((s + i + 5) % 8)
         /\ i # 0 => Unsigned(i * 100, 2^16) = 100 * i
         /\ top - (IF i = 0 THEN 0 ELSE 100 * i) = top - 100 * i
         /\ top + (IF i = 0 THEN 0 ELSE 100 * i) = top + 100 * i
<1>1. i \in 0..4
  BY DEF Levels
<1>2. s + i \in Nat /\ s + i + 0 = s + i /\ s + i + 5 \in Nat
  BY SMT, <1>1
<1>3. i * 100 = 100 * i /\ 100 * i \in Nat /\ 100 * i < 65536
  BY SMT, <1>1
<1>4. /\ top - (IF i = 0 THEN 0 ELSE 100 * i) = top - 100 * i
      /\ top + (IF i = 0 THEN 0 ELSE 100 * i) = top + 100 * i
  BY SMT, <1>1
<1>5. Unsigned(i * 100, 2^16) = 100 * i
  BY <1>3, Fits, FieldWidths
<1>6. /\ Unsigned(1000 + ((s + i) % 40) * 100, 2^16) = 1000 + ((s + i) % 40) * 100
      /\ Unsigned(2 + ((s + i) % 8), 2^16) = 2 + ((s + i) % 8)
  BY <1>2, SmallFields
<1>7. /\ Unsigned(1000 + ((s + i + 5) % 40) * 100, 2^16) = 1000 + ((s + i + 5) % 40) * 100
      /\ Unsigned(2 + ((s + i + 5) % 8), 2^16) = 2 + ((s + i + 5) % 8)
  BY <1>2, SmallFields
<1> QED BY <1>2, <1>4, <1>5, <1>6, <1>7

\* A Compact book says what the Raw one does.
LEMMA BookSays ==
  ASSUME NEW s \in Nat
  PROVE  SaidBook(BookBody(s)) = RawBook(s)
<1> DEFINE b == BookBody(s)
           away(sd, i) == IF i = 0 THEN 0 ELSE b[sd].offset[i]
<1>1. mid(s) - 50 \in Int /\ mid(s) + 50 \in Int
  BY SMT, MidType
<1>2. /\ b.flags = 16 /\ b.bids.top = mid(s) - 50 /\ b.asks.top = mid(s) + 50
      /\ b.bids.offset = [i \in Levels \ {0} |-> Unsigned(i * 100, 2^16)]
      /\ b.asks.offset = [i \in Levels \ {0} |-> Unsigned(i * 100, 2^16)]
  BY DEF BookBody
<1>3. /\ b.bids.size = [i \in Levels |-> Unsigned(1000 + ((s + i + 0) % 40) * 100, 2^16)]
      /\ b.bids.order_count = [i \in Levels |-> Unsigned(2 + ((s + i + 0) % 8), 2^16)]
  BY DEF BookBody
<1>4. /\ b.asks.size = [i \in Levels |-> Unsigned(1000 + ((s + i + 5) % 40) * 100, 2^16)]
      /\ b.asks.order_count = [i \in Levels |-> Unsigned(2 + ((s + i + 5) % 8), 2^16)]
  BY DEF BookBody
<1> HIDE DEF b
<1>5. \A i \in Levels : away("bids", i) = (IF i = 0 THEN 0 ELSE 100 * i)
                      /\ away("asks", i) = (IF i = 0 THEN 0 ELSE 100 * i)
  <2> TAKE i \in Levels
  <2>1. CASE i = 0
    BY <2>1
  <2>2. CASE i # 0
    <3>1. b.bids.offset[i] = Unsigned(i * 100, 2^16) /\ b.asks.offset[i] = Unsigned(i * 100, 2^16)
      BY <1>2, <2>2
    <3>2. Unsigned(i * 100, 2^16) = 100 * i
      BY <1>1, <2>2, SideSays
    <3> QED BY <2>2, <3>1, <3>2, Zenon
  <2> QED BY <2>1, <2>2
<1> HIDE DEF away
<1>6. /\ [i \in Levels |-> b.bids.top - away("bids", i)] = [i \in Levels |-> mid(s) - 50 - 100 * i]
      /\ [i \in Levels |-> b.asks.top + away("asks", i)] = [i \in Levels |-> mid(s) + 50 + 100 * i]
  <2>1. ASSUME NEW i \in Levels
        PROVE  /\ b.bids.top - away("bids", i) = mid(s) - 50 - 100 * i
               /\ b.asks.top + away("asks", i) = mid(s) + 50 + 100 * i
    BY <1>1, <1>2, <1>5, SideSays
  <2> QED BY <2>1, Zenon
<1>7. /\ b.bids.size = [i \in Levels |-> 1000 + ((s + i) % 40) * 100]
      /\ b.bids.order_count = [i \in Levels |-> 2 + ((s + i) % 8)]
      /\ b.asks.size = [i \in Levels |-> 1000 + ((s + i + 5) % 40) * 100]
      /\ b.asks.order_count = [i \in Levels |-> 2 + ((s + i + 5) % 8)]
  <2>1. ASSUME NEW i \in Levels
        PROVE  /\ Unsigned(1000 + ((s + i + 0) % 40) * 100, 2^16) = 1000 + ((s + i) % 40) * 100
               /\ Unsigned(2 + ((s + i + 0) % 8), 2^16) = 2 + ((s + i) % 8)
               /\ Unsigned(1000 + ((s + i + 5) % 40) * 100, 2^16) = 1000 + ((s + i + 5) % 40) * 100
               /\ Unsigned(2 + ((s + i + 5) % 8), 2^16) = 2 + ((s + i + 5) % 8)
    BY <1>1, SideSays
  <2> QED BY <1>3, <1>4, <2>1
<1>8. ((b.flags \div 16) % 2 = 1) = TRUE
  BY SMT, <1>2
<1>9. SaidBook(b) =
        [price |-> [bids |-> [i \in Levels |-> b.bids.top - away("bids", i)],
                    asks |-> [i \in Levels |-> b.asks.top + away("asks", i)]],
         size |-> [bids |-> b.bids.size, asks |-> b.asks.size],
         order_count |-> [bids |-> b.bids.order_count, asks |-> b.asks.order_count],
         is_snapshot |-> (b.flags \div 16) % 2 = 1]
  BY Zenon DEF SaidBook, away
<1> QED BY <1>6, <1>7, <1>8, <1>9, Zenon DEF RawBook, b

-----------------------------------------------------------------------------
(* The frame in the buffer *)

\* From its building to that of the next, the buffer holds frame seq; once
\* stamped, its delta is the narrowed difference of the two times.
FrameInv ==
  /\ stage \in {"stamp", "publish", "pace", "done"} /\ seq > 0 =>
       frame = [seq_id |-> seq, type |-> kindOf(seq), send_ts |-> frame.send_ts,
                delta |-> frame.delta, len |-> frame_size(kindOf(seq)), body |-> Body(seq, totals)]
  /\ Stamped => /\ frame.send_ts \in Nat
                /\ frame.delta = Signed(frame.send_ts - exchange, DeltaRange)

\* Every step keeps what the buffer holds.
LEMMA FrameStep == ProducerTyped /\ FrameInv /\ [ProducerNext]_producerVars => FrameInv'
<1> SUFFICES ASSUME ProducerTyped, FrameInv, [ProducerNext]_producerVars
             PROVE  FrameInv'
  OBVIOUS
<1>1. CASE Tick
  BY <1>1 DEF Tick, FrameInv, Stamped
<1>2. CASE SetBack
  BY <1>2 DEF SetBack, FrameInv, Stamped
<1>3. CASE Start
  <2>1. seq' = 0 /\ ~(seq' > 0)
    BY SMT, <1>3 DEF Start, ProducerTyped
  <2> QED BY <2>1 DEF FrameInv, Stamped
<1>4. CASE Pace
  BY <1>4 DEF Pace, FrameInv, Stamped
<1>5. CASE Build
  <2>1. stage' = "stamp" /\ seq' = seq
    BY <1>5 DEF Build
  <2>2. frame' = [seq_id |-> seq, type |-> kindOf(seq), send_ts |-> 0, delta |-> 0,
                  len |-> frame_size(kindOf(seq)), body |-> Body(seq, totals')]
    BY <1>5 DEF Build
  <2> QED BY <2>1, <2>2 DEF FrameInv, Stamped
<1>6. CASE Stamp
  <2>1. /\ frame' = [frame EXCEPT !.send_ts = now, !.delta = Signed(now - exchange, DeltaRange)]
        /\ UNCHANGED <<seq, totals, exchange>> /\ stage = "stamp" /\ stage' = "publish"
    BY <1>6 DEF Stamp
  <2>2. frame = [seq_id |-> seq, type |-> kindOf(seq), send_ts |-> frame.send_ts,
                 delta |-> frame.delta, len |-> frame_size(kindOf(seq)), body |-> Body(seq, totals)]
    BY <2>1 DEF FrameInv, ProducerTyped
  <2>3. frame' = [seq_id |-> seq, type |-> kindOf(seq), send_ts |-> now,
                  delta |-> Signed(now - exchange, DeltaRange),
                  len |-> frame_size(kindOf(seq)), body |-> Body(seq, totals)]
    <3> PICK d : d = Signed(now - exchange, DeltaRange)
      OBVIOUS
    <3> PICK f : f = [frame EXCEPT !.send_ts = now]
      OBVIOUS
    <3>1. frame' = [f EXCEPT !.delta = d]
      BY <2>1
    <3>2. f = [seq_id |-> seq, type |-> kindOf(seq), send_ts |-> now, delta |-> frame.delta,
               len |-> frame_size(kindOf(seq)), body |-> Body(seq, totals)]
      BY <2>2
    <3>3. frame' = [seq_id |-> seq, type |-> kindOf(seq), send_ts |-> now, delta |-> d,
                    len |-> frame_size(kindOf(seq)), body |-> Body(seq, totals)]
      BY ONLY <3>1, <3>2
    <3> QED BY <3>3
  <2>4. now \in Nat
    BY DEF ProducerTyped
  <2> QED BY <2>1, <2>3, <2>4 DEF FrameInv
<1>7. CASE Publish
  BY <1>7 DEF Publish, FrameInv, Stamped, ProducerTyped
<1>8. CASE Finish
  BY <1>8 DEF Finish, FrameInv, Stamped
<1>9. CASE UNCHANGED producerVars
  BY <1>9 DEF producerVars, FrameInv, Stamped
<1> QED BY <1>1, <1>2, <1>3, <1>4, <1>5, <1>6, <1>7, <1>8, <1>9 DEF ProducerNext, Step

\* The buffer holds the frame of seq in every state.
LEMMA Framed == ProducerSpec => [](ProducerTyped /\ FrameInv)
<1>1. ProducerInit => FrameInv
  BY SMT DEF ProducerInit, FrameInv, Stamped
<1> QED BY <1>1, FrameStep, ProducerTypes, PTL DEF ProducerSpec

\* A difference in the range of the delta is not changed by it.
LEMMA DeltaIsExact ==
  ASSUME NEW d \in Int, d \in -(DeltaRange \div 2)..(DeltaRange \div 2 - 1)
  PROVE  /\ Signed(d, DeltaRange) = d
         /\ d < 0 => Unsigned(-d, DeltaRange) = -d
<1> DEFINE h == DeltaRange \div 2
<1>1. h \in Nat /\ DeltaRange = 2 * h /\ h > 0 /\ DeltaRange \in Nat
  BY SMT, ProducerAssumption
<1> HIDE DEF h
<1>2. -h <= d /\ d < h
  BY SMT, <1>1 DEF h
<1>3. d + h \in Nat /\ d + h < DeltaRange
  BY SMT, <1>1, <1>2
<1>4. (d + h) % DeltaRange = d + h
  BY <1>1, <1>3, Fits DEF Unsigned
<1>5. Signed(d, DeltaRange) = (d + h) - h
  BY <1>4, Zenon DEF Signed, h
<1>6. ASSUME d < 0 PROVE Unsigned(-d, DeltaRange) = -d
  <2>1. -d \in Nat /\ -d < DeltaRange
    BY SMT, <1>1, <1>2, <1>6
  <2> QED BY <1>1, <2>1, Fits
<1>7. (d + h) - h = d
  BY SMT, <1>1
<1> QED BY <1>5, <1>6, <1>7

\* The reader recovers the exchange time whenever the two readings of the clock
\* differ by less than half the range of the delta, in either direction.
THEOREM ExchangeTime == ProducerSpec => []ExchangeTimeSurvives
<1>1. ProducerTyped /\ FrameInv => ExchangeTimeSurvives
  <2> SUFFICES ASSUME ProducerTyped, FrameInv, Stamped,
                      frame.send_ts - exchange \in -(DeltaRange \div 2)..(DeltaRange \div 2 - 1)
               PROVE  exchange_ts_ns(frame) = exchange
    BY DEF ExchangeTimeSurvives
  <2> DEFINE d == frame.send_ts - exchange
  <2>1. exchange \in Nat /\ frame.send_ts \in Nat /\ frame.delta = Signed(d, DeltaRange)
    BY DEF ProducerTyped, FrameInv
  <2>2. d \in Int /\ frame.send_ts - d = exchange /\ frame.send_ts + (-d) = exchange
    BY SMT, <2>1
  <2>3. frame.delta = d /\ (d < 0 => Unsigned(-d, DeltaRange) = -d)
    <3>1. d \in -(DeltaRange \div 2)..(DeltaRange \div 2 - 1)
      OBVIOUS
    <3> HIDE DEF d
    <3> QED BY <2>1, <2>2, <3>1, DeltaIsExact
  <2> HIDE DEF d
  <2> QED BY SMT, <2>1, <2>2, <2>3 DEF exchange_ts_ns
<1> QED BY <1>1, Framed, PTL

\* Every Compact frame says what the Raw message of its number does, and has the
\* length of its type.
THEOREM MarketData == ProducerSpec => []SameMarketData
<1>1. ProducerTyped /\ FrameInv => SameMarketData
  <2> SUFFICES ASSUME ProducerTyped, FrameInv, Stamped
               PROVE  Decode(frame) = RawMessage(seq) /\ frame.len = frame_size(frame.type)
    BY DEF SameMarketData
  <2>1. /\ frame.type = kindOf(seq) /\ frame.len = frame_size(kindOf(seq))
        /\ frame.body = Body(seq, totals)
    BY DEF FrameInv, Stamped
  <2>2. seq \in Nat
    BY DEF ProducerTyped
  <2>3. CASE kindOf(seq) = "trade"
    <3>1. Decode(frame) = SaidTrade(TradeBody(seq, totals)) /\ RawMessage(seq) = RawTrade(seq)
      BY <2>1, <2>3, ByKind, Zenon DEF Decode
    <3> QED BY <2>1, <2>2, <3>1, TradeSays
  <2>4. CASE kindOf(seq) = "bbo"
    <3>1. Decode(frame) = SaidBbo(BboBody(seq)) /\ RawMessage(seq) = RawBbo(seq)
      BY <2>1, <2>4, ByKind, Zenon DEF Decode
    <3> QED BY <2>1, <2>2, <3>1, BboSays
  <2>5. CASE kindOf(seq) = "book"
    <3>1. Decode(frame) = SaidBook(BookBody(seq)) /\ RawMessage(seq) = RawBook(seq)
      BY <2>1, <2>5, ByKind, Zenon DEF Decode
    <3> QED BY <2>1, <2>2, <3>1, BookSays
  <2> QED BY <2>2, <2>3, <2>4, <2>5, Kinds
<1> QED BY <1>1, Framed, PTL

-----------------------------------------------------------------------------
(* The running totals *)

\* g[s] is the quantity of the Trade frames up to s, for s up to n.
Sums(n, g) ==
  g = [s \in 0..n |-> IF s = 0 THEN 0 ELSE g[s-1] + (IF kindOf(s) = "trade" THEN lots(s) ELSE 0)]

\* The sums at one number.
LEMMA SumAt ==
  ASSUME NEW n \in Nat, NEW g, Sums(n, g), NEW s \in 0..n
  PROVE  g[s] = IF s = 0 THEN 0 ELSE g[s-1] + (IF kindOf(s) = "trade" THEN lots(s) ELSE 0)
BY Zenon DEF Sums

\* One number more.
LEMMA SumsGrow ==
  ASSUME NEW n \in Nat, NEW g, Sums(n, g)
  PROVE  \E h : Sums(n + 1, h)
<1> DEFINE v == g[n] + (IF kindOf(n+1) = "trade" THEN lots(n+1) ELSE 0)
           h == [s \in 0..n+1 |-> IF s = n + 1 THEN v ELSE g[s]]
<1>1. \A s \in 0..n : h[s] = g[s]
  OBVIOUS
<1>2. h[n+1] = v
  OBVIOUS
<1>3. h = [s \in 0..n+1 |-> h[s]]
  OBVIOUS
<1> HIDE DEF h
<1>4. ASSUME NEW s \in 0..n+1
      PROVE  h[s] = IF s = 0 THEN 0 ELSE h[s-1] + (IF kindOf(s) = "trade" THEN lots(s) ELSE 0)
  <2>1. CASE s = n + 1
    <3>1. s # 0 /\ s - 1 = n /\ n \in 0..n
      BY SMT, <2>1
    <3> QED BY <1>1, <1>2, <2>1, <3>1
  <2>2. CASE s # n + 1
    <3>1. s \in 0..n /\ (s # 0 => s - 1 \in 0..n)
      BY SMT, <2>2
    <3>2. g[s] = IF s = 0 THEN 0 ELSE g[s-1] + (IF kindOf(s) = "trade" THEN lots(s) ELSE 0)
      BY <3>1, SumAt
    <3> QED BY <1>1, <3>1, <3>2
  <2> QED BY <2>1, <2>2
<1>5. Sums(n + 1, h)
  BY <1>3, <1>4, Zenon DEF Sums
<1> QED BY <1>5

\* The sums exist.
LEMMA SumsExist ==
  ASSUME NEW m \in Nat
  PROVE  \E g : Sums(m, g)
<1> DEFINE T == {n \in Nat : \E g : Sums(n, g)}
<1>1. 0 \in T
  <2> DEFINE g == [s \in 0..0 |-> 0]
  <2>1. g = [s \in 0..0 |-> IF s = 0 THEN 0 ELSE g[s-1] + (IF kindOf(s) = "trade" THEN lots(s) ELSE 0)]
    BY SMT
  <2> QED BY <2>1 DEF Sums
<1>2. \A n \in T : n + 1 \in T
  BY SumsGrow
<1>3. T \in SUBSET Nat
  OBVIOUS
<1>4. m \in T
  <2> HIDE DEF T
  <2> QED BY <1>1, <1>2, <1>3, NatInduct
<1> QED BY <1>4

\* QuantityUpTo(n) is the last of them.
LEMMA QuantityIsSum ==
  ASSUME NEW n \in Nat
  PROVE  \E g : Sums(n, g) /\ QuantityUpTo(n) = g[n]
<1> DEFINE Is(g) == g = [s \in 0..n |-> IF s = 0 THEN 0
                                       ELSE g[s-1] + (IF kindOf(s) = "trade" THEN lots(s) ELSE 0)]
           c == CHOOSE g : Is(g)
<1>1. \E g : Is(g)
  <2> PICK g : Sums(n, g)
    BY SumsExist
  <2>1. Is(g)
    BY Zenon DEF Sums
  <2> QED BY <2>1
<1>2. Is(c)
  <2> HIDE DEF Is
  <2> QED BY <1>1
<1>3. QuantityUpTo(n) = c[n]
  BY DEF QuantityUpTo
<1>4. Sums(n, c)
  <2> HIDE DEF c
  <2> QED BY <1>2, Zenon DEF Sums
<1> HIDE DEF c
<1> QED BY <1>3, <1>4

\* The quantity grows by that of the next frame, if it is a Trade.
LEMMA QuantityGrows ==
  /\ QuantityUpTo(0) = 0
  /\ \A n \in Nat : QuantityUpTo(n + 1) =
       QuantityUpTo(n) + (IF kindOf(n + 1) = "trade" THEN lots(n + 1) ELSE 0)
<1>1. QuantityUpTo(0) = 0
  <2> PICK g : Sums(0, g) /\ QuantityUpTo(0) = g[0]
    BY QuantityIsSum
  <2>1. 0 \in 0..0
    BY SMT
  <2>2. g[0] = 0
    BY <2>1, SumAt
  <2> QED BY <2>2
<1>2. ASSUME NEW n \in Nat
      PROVE  QuantityUpTo(n + 1) =
               QuantityUpTo(n) + (IF kindOf(n + 1) = "trade" THEN lots(n + 1) ELSE 0)
  <2> PICK g : Sums(n, g) /\ QuantityUpTo(n) = g[n]
    BY QuantityIsSum
  <2> PICK h : Sums(n + 1, h) /\ QuantityUpTo(n + 1) = h[n + 1]
    BY QuantityIsSum
  <2>1. g[0] = h[0]
    <3>1. 0 \in 0..n /\ 0 \in 0..n+1
      BY SMT
    <3> QED BY <3>1, SumAt
  <2>2. \A k \in 1..n : g[k-1] = h[k-1] => g[k] = h[k]
    <3> TAKE k \in 1..n
    <3>1. k \in 0..n /\ k \in 0..n+1 /\ k # 0 /\ n + 1 \in Nat
      BY SMT
    <3>2. g[k] = g[k-1] + (IF kindOf(k) = "trade" THEN lots(k) ELSE 0)
      BY <3>1, SumAt
    <3>3. h[k] = h[k-1] + (IF kindOf(k) = "trade" THEN lots(k) ELSE 0)
      BY <3>1, SumAt
    <3> QED BY <3>2, <3>3
  <2>3. \A k \in 0..n : g[k] = h[k]
    <3>1. n \in Nat
      OBVIOUS
    <3> QED BY <2>1, <2>2, <3>1, SameWalk
  <2>4. n \in 0..n /\ n + 1 \in 0..n+1 /\ n + 1 # 0 /\ (n + 1) - 1 = n /\ n + 1 \in Nat
    BY SMT
  <2>5. h[n+1] = h[n] + (IF kindOf(n+1) = "trade" THEN lots(n+1) ELSE 0)
    BY <2>4, SumAt
  <2> QED BY <2>3, <2>4, <2>5
<1> QED BY <1>1, <1>2

\* It is a number.
LEMMA QuantityType == \A n \in Nat : QuantityUpTo(n) \in Nat
<1> DEFINE T == {n \in Nat : QuantityUpTo(n) \in Nat}
<1>1. 0 \in T
  BY QuantityGrows
<1>2. ASSUME NEW n \in T PROVE n + 1 \in T
  <2>1. n \in Nat /\ n + 1 \in Nat /\ QuantityUpTo(n) \in Nat
    BY SMT
  <2>2. lots(n + 1) \in Nat
    BY SMT, <2>1, Remainder DEF lots
  <2>3. QuantityUpTo(n + 1) = QuantityUpTo(n) + (IF kindOf(n + 1) = "trade" THEN lots(n + 1) ELSE 0)
    BY <2>1, QuantityGrows
  <2> QED BY SMT, <2>1, <2>2, <2>3
<1>3. T \in SUBSET Nat
  OBVIOUS
<1>4. T = Nat
  <2> HIDE DEF T
  <2> QED BY <1>1, <1>2, <1>3, NatInduct
<1> QED BY <1>4

\* The set of Trades likewise.
LEMMA TradesGrow ==
  /\ Cardinality(Trades(1, 0)) = 0
  /\ \A n \in Nat : /\ Cardinality(Trades(1, n)) \in Nat
                    /\ Cardinality(Trades(1, n + 1)) =
                         Cardinality(Trades(1, n)) + (IF kindOf(n + 1) = "trade" THEN 1 ELSE 0)
<1>1. Cardinality(Trades(1, 0)) = 0
  <2>1. Trades(1, 0) = {}
    BY SMT DEF Trades
  <2> QED BY <2>1, FS_EmptySet
<1>2. ASSUME NEW n \in Nat
      PROVE  /\ Cardinality(Trades(1, n)) \in Nat
             /\ Cardinality(Trades(1, n + 1)) =
                  Cardinality(Trades(1, n)) + (IF kindOf(n + 1) = "trade" THEN 1 ELSE 0)
  <2>1. IsFiniteSet(1..n) /\ Trades(1, n) \subseteq 1..n
    BY FS_Interval DEF Trades
  <2>2. IsFiniteSet(Trades(1, n))
    BY <2>1, FS_Subset
  <2>3. n + 1 \notin Trades(1, n)
    BY SMT DEF Trades
  <2>4. Trades(1, n + 1) = IF kindOf(n + 1) = "trade" THEN Trades(1, n) \cup {n + 1} ELSE Trades(1, n)
    BY SMT DEF Trades
  <2>5. Cardinality(Trades(1, n)) \in Nat
    BY <2>2, FS_CardinalityType
  <2>6. Cardinality(Trades(1, n) \cup {n + 1}) = Cardinality(Trades(1, n)) + 1
    BY <2>2, <2>3, FS_AddElement
  <2> QED BY SMT, <2>4, <2>5, <2>6
<1> QED BY <1>1, <1>2

\* The number of the last frame whose Trade, if it is one, is in the totals.
Counted == IF stage = "build" THEN seq - 1 ELSE seq

\* The totals cover the Trades up to there.
TotalsInv ==
  /\ totals = [quantity |-> totals.quantity, trades |-> totals.trades]
  /\ totals.trades = Cardinality(Trades(1, Counted))
  /\ totals.quantity = QuantityUpTo(Counted)

\* Every step keeps the totals: Build counts a Trade, nothing else does.
LEMMA TotalsStep ==
  ProducerTyped /\ TotalsInv /\ [ProducerNext]_producerVars => TotalsInv'
<1> SUFFICES ASSUME ProducerTyped, TotalsInv, [ProducerNext]_producerVars
             PROVE  TotalsInv'
  OBVIOUS
<1>1. CASE Tick
  BY <1>1 DEF Tick, TotalsInv, Counted
<1>2. CASE SetBack
  BY <1>2 DEF SetBack, TotalsInv, Counted
<1>3. CASE Start
  BY <1>3 DEF Start, TotalsInv, Counted
<1>4. CASE Pace
  <2>1. Counted' = Counted
    BY SMT, <1>4 DEF Pace, Counted, ProducerTyped
  <2>2. totals' = totals
    BY <1>4 DEF Pace
  <2> QED BY <2>1, <2>2 DEF TotalsInv
<1>5. CASE Build
  <2> DEFINE n == seq - 1
  <2>1. n \in Nat /\ n + 1 = seq
    BY SMT, <1>5 DEF Build, ProducerTyped
  <2>2. Counted = n /\ Counted' = n + 1
    BY SMT, <1>5, <2>1 DEF Build, Counted
  <2>3. totals' = IF kindOf(seq) = "trade"
                  THEN [quantity |-> totals.quantity + lots(seq), trades |-> totals.trades + 1]
                  ELSE totals
    BY <1>5 DEF Build, Totals
  <2>4. totals.trades = Cardinality(Trades(1, n)) /\ totals.quantity = QuantityUpTo(n)
    BY <2>2 DEF TotalsInv
  <2> HIDE DEF n
  <2>5. CASE kindOf(seq) = "trade"
    <3>1. /\ totals' = [quantity |-> totals'.quantity, trades |-> totals'.trades]
          /\ totals'.quantity = totals.quantity + lots(seq)
          /\ totals'.trades = totals.trades + 1
      BY <2>3, <2>5
    <3>2. /\ Cardinality(Trades(1, n + 1)) = Cardinality(Trades(1, n)) + 1
          /\ QuantityUpTo(n + 1) = QuantityUpTo(n) + lots(n + 1)
      BY <2>1, <2>5, TradesGrow, QuantityGrows
    <3> QED BY <2>1, <2>2, <2>4, <3>1, <3>2, Zenon DEF TotalsInv
  <2>6. CASE kindOf(seq) # "trade"
    <3>1. totals' = totals
      BY <2>3, <2>6
    <3>2. /\ Cardinality(Trades(1, n + 1)) = Cardinality(Trades(1, n)) + 0
          /\ QuantityUpTo(n + 1) = QuantityUpTo(n) + 0
      BY <2>1, <2>6, TradesGrow, QuantityGrows
    <3>3. QuantityUpTo(n) + 0 = QuantityUpTo(n) /\ Cardinality(Trades(1, n)) + 0 = Cardinality(Trades(1, n))
      BY SMT, <2>1, QuantityType, TradesGrow
    <3> QED BY <2>1, <2>2, <2>4, <3>1, <3>2, <3>3, Zenon DEF TotalsInv
  <2> QED BY <2>5, <2>6
<1>6. CASE Stamp
  BY <1>6 DEF Stamp, TotalsInv, Counted
<1>7. CASE Publish
  BY <1>7 DEF Publish, TotalsInv, Counted
<1>8. CASE Finish
  BY <1>8 DEF Finish, TotalsInv, Counted
<1>9. CASE UNCHANGED producerVars
  BY <1>9 DEF producerVars, TotalsInv, Counted
<1> QED BY <1>1, <1>2, <1>3, <1>4, <1>5, <1>6, <1>7, <1>8, <1>9 DEF ProducerNext, Step

\* The totals of a Trade cover every Trade up to it, so that a reader that lost
\* any others has them.
THEOREM Aggregates == ProducerSpec => []AggregatesSurviveLoss
<1>1. ProducerInit => TotalsInv /\ AggregatesSurviveLoss
  <2> SUFFICES ASSUME ProducerInit PROVE TotalsInv /\ AggregatesSurviveLoss
    OBVIOUS
  <2>1. seen = <<>> /\ Counted = 0 /\ totals = [quantity |-> 0, trades |-> 0]
    BY DEF ProducerInit, Counted
  <2>2. AggregatesSurviveLoss
    BY <2>1 DEF AggregatesSurviveLoss
  <2>3. TotalsInv
    BY <2>1, TradesGrow, QuantityGrows DEF TotalsInv
  <2> QED BY <2>2, <2>3
<1>2. (ProducerTyped /\ FrameInv) /\ (TotalsInv /\ AggregatesSurviveLoss) /\ [ProducerNext]_producerVars
        => (TotalsInv /\ AggregatesSurviveLoss)'
  <2> SUFFICES ASSUME ProducerTyped, FrameInv, TotalsInv, AggregatesSurviveLoss,
                      [ProducerNext]_producerVars
               PROVE  AggregatesSurviveLoss'
    BY TotalsStep
  <2>1. CASE UNCHANGED seen
    BY <2>1 DEF AggregatesSurviveLoss
  <2>2. CASE Publish /\ seen' = <<frame>> /\ frame.type = "trade"
    <3>1. /\ frame.seq_id = seq /\ frame.type = kindOf(seq) /\ frame.body = Body(seq, totals)
          /\ stage = "publish"
      BY <2>2 DEF FrameInv, Publish, ProducerTyped
    <3>2. frame.body = TradeBody(seq, totals)
      BY <2>2, <3>1, ByKind
    <3>3. frame.body.cumulative = totals
      BY <3>2 DEF TradeBody
    <3>4. totals.trades = Cardinality(Trades(1, seq)) /\ totals.quantity = QuantityUpTo(seq)
      BY <3>1 DEF TotalsInv, Counted
    <3>5. seen'[1] = frame
      BY <2>2
    <3> QED BY <3>1, <3>3, <3>4, <3>5 DEF AggregatesSurviveLoss
  <2>3. UNCHANGED seen \/ (Publish /\ seen' = <<frame>> /\ frame.type = "trade")
    BY DEF ProducerNext, Step, Tick, SetBack, Start, Pace, Build, Stamp, Publish, Finish, producerVars
  <2> QED BY <2>1, <2>2, <2>3
<1> QED BY <1>1, <1>2, Framed, PTL DEF ProducerSpec
=============================================================================
