----------------------------- MODULE DataPacket -----------------------------
(***************************************************************************)
(* One Data packet after the other through one mbuf: reservation, the      *)
(* packet builder, the outer headers (data_packet_materializer.cpp), the   *)
(* receiver's parser and the walk of ReceiverShmWriter over the records.   *)
(* Sizes, lengths and 16-bit words have the values of the code.            *)
(*                                                                         *)
(* An mbuf comes back from the pool with the bytes of its last packet, so  *)
(* the canonical area is kept as the set of frame headers still readable   *)
(* in it, old ones included.  The network delivers the bytes sent; what it *)
(* does to packets is in Receiver.                                         *)
(***************************************************************************)
EXTENDS Integers, Sequences

CONSTANTS FrameSizes,    \* sizes of the source frames
          AddressWords,  \* 16-bit words of the IPv4 addresses, in memory order
          Batching,      \* batching_enabled
          MaxPackets     \* bound: packets sent through the mbuf

ASSUME SizesAssumption == FrameSizes \subseteq 24..1450
ASSUME BoundAssumption == MaxPackets \in Nat
MaxWord == 65535
Words == 0..MaxWord
ASSUME WordsAssumption == AddressWords \subseteq Words

DATA_PACKET_CANONICAL_CAPACITY == 1472
DATA_HEADER_SIZE == 22
EthernetSize == 14
Ipv4Size == 20
UdpSize == 8
HEADER_SIZE == EthernetSize + Ipv4Size + UdpSize
MAX_DATA_PACKET_SIZE == HEADER_SIZE + DATA_PACKET_CANONICAL_CAPACITY
FrameHeaderSize == 24

\* rte_cpu_to_be_16 on a little-endian host.
rte_cpu_to_be_16(x) == ((x % 256) * 256) + x \div 256

\* One addition of the carries of a sum of 16-bit words into its low half.
Fold(sum) == (sum % 65536) + sum \div 65536

\* rte_raw_cksum: the ten words of the header added up and folded twice.
SumOf(w) == w[1] + w[2] + w[3] + w[4] + w[5] + w[6] + w[7] + w[8] + w[9] + w[10]
rte_raw_cksum(words) == Fold(Fold(SumOf(words)))

\* The ten words of the IPv4 header as loaded from memory; the two that are
\* written per packet are arguments.
Ipv4Words(total_length, checksum, address) ==
  <<69, total_length, 0, rte_cpu_to_be_16(16384), 64 + 17 * 256, checksum,
    address[1], address[2], address[3], address[4]>>

ipv4_checksum_base(address) == rte_raw_cksum(Ipv4Words(0, 0, address))

\* Mutant of Checksum: the carry is cut off instead of added.
ChecksumTruncated(base, total_length) == MaxWord - ((base + total_length) % 65536)

\* ~ of the sum, folded once and cut to 16 bits.
Checksum(base, total_length) == MaxWord - (Fold(base + total_length) % 65536)

VARIABLES pc,         \* what happens next to the mbuf
          dst,        \* PreparedDestination: the address words
          data_len,   \* rte_mbuf::data_len
          image,      \* frame headers readable in the canonical area
          remaining_payload_capacity, record_count, write_pos,  \* the builder
          outer,      \* the lengths and the checksum finalize wrote
          sent,       \* packets finished
          batch,      \* the frames of this packet, in order
          walked      \* the frames the receiver published from it

builderVars == <<remaining_payload_capacity, record_count, write_pos>>
vars == <<pc, dst, data_len, image, builderVars, outer, sent, batch, walked>>

Init ==
  /\ pc = "free"
  /\ dst \in [1..4 -> AddressWords]
  /\ data_len = 0
  /\ image = {}
  /\ remaining_payload_capacity = 0 /\ record_count = 0 /\ write_pos = 0
  /\ outer = [total_length |-> 0, dgram_len |-> 0, hdr_checksum |-> 0]
  /\ sent = 0
  /\ batch = <<>> /\ walked = <<>>
-----------------------------------------------------------------------------
(* The sender *)

\* rte_pktmbuf_alloc, which empties the mbuf, and try_reserve_data_packet.
Reserve ==
  /\ pc = "free"
  /\ sent < MaxPackets
  /\ data_len' = MAX_DATA_PACKET_SIZE
  /\ batch' = <<>> /\ walked' = <<>>
  /\ pc' = "reserved"
  /\ UNCHANGED <<dst, image, builderVars, outer, sent>>

\* memcpy of a frame: the headers it covers, in part or whole, are gone.
Written(frame, pos) ==
  {r \in image : r.at + FrameHeaderSize <= pos \/ r.at >= pos + frame.body_len}
    \cup {[at |-> pos, frame |-> frame]}

FrameOf(size) == [packet |-> sent, number |-> Len(batch), body_len |-> size]

Room(size) == DATA_PACKET_CANONICAL_CAPACITY - DATA_HEADER_SIZE - size

\* The constructor of RawDataPacketBuilder.
Construct(size) ==
  /\ pc = "reserved"
  /\ image' = Written(FrameOf(size), DATA_HEADER_SIZE)
  /\ batch' = Append(batch, FrameOf(size))
  /\ write_pos' = DATA_HEADER_SIZE + size
  /\ remaining_payload_capacity' = Room(size)
  /\ record_count' = 1
  /\ pc' = "building"
  /\ UNCHANGED <<dst, data_len, outer, sent, walked>>

\* Mutant of AppendPos: the next frame goes over the last one.
AppendPosStuck(size) == DATA_HEADER_SIZE + size

AppendPos(size) == write_pos + size

\* try_append; a frame that does not fit is for the next packet.
TryAppend(size) ==
  /\ pc = "building"
  /\ Batching
  /\ size <= remaining_payload_capacity
  /\ image' = Written(FrameOf(size), write_pos)
  /\ batch' = Append(batch, FrameOf(size))
  /\ write_pos' = AppendPos(size)
  /\ remaining_payload_capacity' = remaining_payload_capacity - size
  /\ record_count' = record_count + 1
  /\ UNCHANGED <<pc, dst, data_len, outer, sent, walked>>

Unused(canonical_size) == DATA_PACKET_CANONICAL_CAPACITY - canonical_size

\* RawDataPacketBuilder::finalize, then finalize_data_packet.
Finalize ==
  /\ pc = "building"
  /\ data_len' = data_len - Unused(write_pos)
  /\ LET udp_size == UdpSize + write_pos
         total_length == rte_cpu_to_be_16(Ipv4Size + udp_size) IN
       outer' = [total_length |-> total_length,
                 dgram_len |-> rte_cpu_to_be_16(udp_size),
                 hdr_checksum |-> Checksum(ipv4_checksum_base(dst), total_length)]
  /\ sent' = sent + 1
  /\ pc' = "wire"
  /\ UNCHANGED <<dst, image, builderVars, batch, walked>>
-----------------------------------------------------------------------------
(* The receiver *)

\* CanonicalDataPacketView::packet_size of try_parse_canonical_data_packet.
packet_size == data_len - HEADER_SIZE

\* What ReceiverShmWriter::write finds at an offset of the packet.
Garbage == [packet |-> -1, number |-> -1, body_len |-> 0]
FrameAt(pos) ==
  IF \E r \in image : r.at = pos /\ pos + FrameHeaderSize <= packet_size
    THEN (CHOOSE r \in image : r.at = pos).frame
    ELSE Garbage

\* The offset of record k + 1, from the sizes of the records before it.
Offset ==
  LET pos[k \in 0..record_count] ==
        IF k = 0 THEN DATA_HEADER_SIZE ELSE pos[k-1] + FrameAt(pos[k-1]).body_len
  IN  pos

\* Parse and write: shorter packets than 64 bytes are not for LLDT.
Receive ==
  /\ pc = "wire"
  /\ walked' = IF data_len < 64 THEN <<>>
               ELSE [k \in 1..record_count |-> FrameAt(Offset[k-1])]
  /\ pc' = "received"
  /\ UNCHANGED <<dst, data_len, image, builderVars, outer, sent, batch>>

\* The mbuf goes back to the pool as it is.
Recycle ==
  /\ pc = "received"
  /\ data_len' = 0
  /\ pc' = "free"
  /\ UNCHANGED <<dst, image, builderVars, outer, sent, batch, walked>>

Next ==
  \/ Reserve \/ Finalize \/ Receive \/ Recycle
  \/ \E size \in FrameSizes : Construct(size) \/ TryAppend(size)

Spec == Init /\ [][Next]_vars
-----------------------------------------------------------------------------
Frames == [packet : 0..MaxPackets-1, number : Nat, body_len : FrameSizes]

\* Type invariant: every word of the headers has 16 bits.
TypeOK ==
  /\ pc \in {"free", "reserved", "building", "wire", "received"}
  /\ dst \in [1..4 -> AddressWords]
  /\ data_len \in 0..MAX_DATA_PACKET_SIZE
  /\ \A r \in image : r.frame \in Frames
  /\ remaining_payload_capacity \in Nat
  /\ record_count \in Words
  /\ write_pos \in 0..DATA_PACKET_CANONICAL_CAPACITY
  /\ outer \in [total_length : Words, dgram_len : Words, hdr_checksum : Words]
  /\ sent \in 0..MaxPackets
  /\ batch \in Seq(Frames)
  /\ walked \in Seq(Frames \cup {Garbage})

OnWire == pc \in {"wire", "received"}
\* The check of a router or NIC: all ten words add up to -0.
Verifies(words) == rte_raw_cksum(words) = MaxWord

\* The IPv4 header of a finished packet verifies, for any addresses and any
\* length, although the code folds the sum only once.
HeaderVerifies ==
  OnWire => Verifies(Ipv4Words(outer.total_length, outer.hdr_checksum, dst))

\* Bytes of the first k frames of the batch, for every k.
Bytes ==
  LET sum[k \in 0..Len(batch)] == IF k = 0 THEN 0 ELSE sum[k-1] + batch[k].body_len
  IN  sum
BatchSize == Bytes[Len(batch)]

\* A packet arrives as it was built: the lengths of mbuf, IPv4 and UDP agree with
\* each other and with the frames put in, it fits an MTU of 1500, and the receiver
\* publishes those frames in order: none of an earlier packet that the mbuf still
\* holds, and nothing else.
ArrivesWhole ==
  pc = "received" =>
    /\ walked = batch
    /\ packet_size = DATA_HEADER_SIZE + BatchSize
    /\ rte_cpu_to_be_16(outer.total_length) = data_len - EthernetSize
    /\ rte_cpu_to_be_16(outer.dgram_len) = data_len - EthernetSize - Ipv4Size
    /\ rte_cpu_to_be_16(outer.total_length) <= 1500
=============================================================================
