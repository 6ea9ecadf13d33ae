------------------------------- MODULE Sender -------------------------------
(***************************************************************************)
(* The sender process: SenderShmReader (src/sender_shm_reader.cpp) takes   *)
(* frames from the source ring, the loop of run_sender (src/               *)
(* sender_main.cpp) packs them into Data packets with RawDataPacketBuilder *)
(* and hands the packets to the NIC, while the producer publishes, SIGINT  *)
(* may arrive and the NIC returns mbufs.                                   *)
(*                                                                         *)
(* A ring read is one step with the outcomes of BroadcastContract, which   *)
(* ShmRing is proved to implement.  Frame number n carries seq_id n + 1;   *)
(* a frame read at n whose bytes were being overwritten may carry length,  *)
(* message type and seq_id of the frame published meanwhile.               *)
(***************************************************************************)
EXTENDS BroadcastContract, SequencesExt

CONSTANTS FrameSize,        \* frame sizes, by seq_id % 3 (harness/src/producer.cpp)
          PayloadCapacity,  \* DATA_PACKET_CANONICAL_CAPACITY - DATA_HEADER_SIZE
          batching_enabled, \* --batching
          TxMbufs,          \* TX_MBUF_COUNT
          TxDesc,           \* TX_DESC_COUNT
          ReserveMayFail,   \* the mbuf data room may be below MAX_DATA_PACKET_SIZE
          MaxPublish        \* bound: frames the producer publishes

ASSUME SenderAssumption ==
  /\ PayloadCapacity \in Nat
  /\ FrameSize \in [0..2 -> 1..PayloadCapacity]
  /\ batching_enabled \in BOOLEAN
  /\ TxMbufs \in Nat /\ TxDesc \in Nat
  /\ ReserveMayFail \in BOOLEAN

VARIABLES published,      \* source ring: frames committed by the producer
          stop_requested, \* set by the signal handler
          pc,             \* where run_sender is
          start,          \* history: read_index_ after the constructor
          read_index,     \* SenderShmReader::read_index_
          prev_valid,     \* prev_valid_; 0 stands for !has_prev_valid_
          buffer,         \* whose bytes SenderShmReader::buffer_ holds
          carry_frame,    \* carry_frame, a view of buffer_; empty or one frame
          packet,         \* frames in the packet being built, first_frame first
          next_data_seq,
          counters,       \* SenderReaderCounters and SenderDataCounters
          free,           \* mbufs in the TX pool
          nic,            \* mbufs owned by the NIC
          wire,           \* history: the packets the NIC accepted
          taken,          \* history: the frames admitted by try_read()
          torn            \* history: a read was not of its own frame only

readerVars == <<read_index, prev_valid, buffer, taken, torn>>
mbufVars == <<free, nic>>
vars == <<published, stop_requested, pc, start, readerVars, carry_frame, packet,
          next_data_seq, counters, mbufVars, wire>>

Zero == [c \in {"frames_read", "invalid_frames", "lapped_frames_skipped",
                "source_frames_missing", "offered", "mbuf_alloc_failures",
                "packetized", "unsent"} |-> 0]

Size(n) == FrameSize[(n + 1) % 3]

Init ==
  /\ published = 0
  /\ stop_requested = FALSE
  /\ pc = "attach"
  /\ start = 0 /\ read_index = 0 /\ prev_valid = 0 /\ buffer = {}
  /\ taken = {} /\ torn = FALSE
  /\ carry_frame = <<>> /\ packet = <<>>
  /\ next_data_seq = 0
  /\ counters = Zero
  /\ free = TxMbufs /\ nic = 0
  /\ wire = <<>>
-----------------------------------------------------------------------------
(* The surroundings: producer, signal handler, NIC *)

Publish ==
  /\ published < MaxPublish
  /\ published' = published + 1
  /\ UNCHANGED <<stop_requested, pc, start, readerVars, carry_frame, packet,
                 next_data_seq, counters, mbufVars, wire>>

Signal ==
  /\ ~stop_requested
  /\ stop_requested' = TRUE
  /\ UNCHANGED <<published, pc, start, readerVars, carry_frame, packet,
                 next_data_seq, counters, mbufVars, wire>>

TxDone ==
  /\ nic > 0
  /\ nic' = nic - 1 /\ free' = free + 1
  /\ UNCHANGED <<published, stop_requested, pc, start, readerVars, carry_frame,
                 packet, next_data_seq, counters, wire>>
-----------------------------------------------------------------------------
(* SenderShmReader *)

Bump(c, n) == [counters EXCEPT ![c] = @ + n]

Attach ==
  /\ pc = "attach"
  /\ read_index' \in LiveEdges(published)
  /\ start' = read_index'
  /\ pc' = "top"
  /\ UNCHANGED <<published, stop_requested, prev_valid, buffer, taken, torn,
                 carry_frame, packet, next_data_seq, counters, mbufVars, wire>>

TryReadEmpty ==
  /\ IsEmpty(published, read_index)
  /\ UNCHANGED <<readerVars, counters>>

\* read() may have copied part of a frame before it found out.
TryReadLapped ==
  /\ IsLapped(published, read_index)
  /\ \E resume_at \in ResumePoints(published) :
       /\ read_index' = resume_at
       /\ counters' = Bump("lapped_frames_skipped", resume_at - read_index)
  /\ buffer' \in {buffer, {}}
  /\ UNCHANGED <<prev_valid, taken, torn>>

\* A length and a message type that do not belong together.
TryReadInvalid ==
  /\ IsReadable(published, read_index)
  /\ \E len, type \in Holders(published, read_index) : Size(len) # Size(type)
  /\ read_index' = read_index + 1
  /\ buffer' = {read_index}
  /\ torn' = TRUE
  /\ counters' = [counters EXCEPT !.frames_read = @ + 1, !.invalid_frames = @ + 1]
  /\ UNCHANGED <<prev_valid, taken>>

\* What ValidatedSourceFrameView says of the frame at read_index.
ValidViews ==
  {[index |-> read_index, size |-> Size(n), seq_id |-> id + 1] :
     n, id \in Holders(published, read_index)}

\* Mutant of begins_after_source_gap: no frame begins after a gap.
never_after_source_gap(frame) == FALSE

begins_after_source_gap(frame) == prev_valid # 0 /\ frame.seq_id # prev_valid + 1

\* Mutant of NewlyMissing: the frame after the gap counts as missing.
NewlyMissingOffByOne(frame) ==
  IF prev_valid # 0 /\ frame.seq_id > prev_valid + 1
    THEN frame.seq_id - prev_valid ELSE 0

NewlyMissing(frame) ==
  IF prev_valid # 0 /\ frame.seq_id > prev_valid
    THEN frame.seq_id - prev_valid - 1 ELSE 0

\* A frame that goes back in sequence is a gap, but prev_valid_ stays.
NextPrevValid(frame) ==
  IF prev_valid = 0 \/ frame.seq_id > prev_valid THEN frame.seq_id ELSE prev_valid

TryReadOk(frame) ==
  /\ IsReadable(published, read_index)
  /\ frame \in ValidViews
  /\ read_index' = read_index + 1
  /\ buffer' = {read_index}
  /\ prev_valid' = NextPrevValid(frame)
  /\ taken' = taken \cup {read_index}
  /\ torn' = (torn \/ frame # [index |-> read_index, size |-> Size(read_index),
                               seq_id |-> read_index + 1])
  /\ counters' = [counters EXCEPT !.frames_read = @ + 1, !.offered = @ + 1,
                                  !.source_frames_missing = @ + NewlyMissing(frame)]
-----------------------------------------------------------------------------
(* run_sender *)

\* stopping is stop_requested as read at 137 or 190: the flag is never reset.
Stop ==
  /\ pc = "top"
  /\ stop_requested /\ carry_frame = <<>>
  /\ pc' = "done"
  /\ UNCHANGED <<published, stop_requested, start, readerVars, carry_frame, packet,
                 next_data_seq, counters, mbufVars, wire>>

\* Mutant of TakeCarry: carry_frame is not reset.
TakeCarryKept ==
  /\ pc = "top"
  /\ carry_frame # <<>>
  /\ packet' = carry_frame
  /\ pc' = "alloc"
  /\ UNCHANGED <<published, stop_requested, start, readerVars, carry_frame,
                 next_data_seq, counters, mbufVars, wire>>

TakeCarry ==
  /\ pc = "top"
  /\ carry_frame # <<>>
  /\ packet' = carry_frame
  /\ carry_frame' = <<>>
  /\ pc' = "alloc"
  /\ UNCHANGED <<published, stop_requested, start, readerVars, next_data_seq,
                 counters, mbufVars, wire>>

\* Mutants of GoOn: it reads although a frame is carried; it ignores the flag.
GoOnCarrying ==
  /\ pc = "top"
  /\ ~stop_requested
  /\ pc' = "read"
  /\ UNCHANGED <<published, stop_requested, start, readerVars, carry_frame, packet,
                 next_data_seq, counters, mbufVars, wire>>

GoOnStopped ==
  /\ pc = "top"
  /\ carry_frame = <<>>
  /\ pc' = "read"
  /\ UNCHANGED <<published, stop_requested, start, readerVars, carry_frame, packet,
                 next_data_seq, counters, mbufVars, wire>>

GoOn ==
  /\ pc = "top"
  /\ ~stop_requested /\ carry_frame = <<>>
  /\ pc' = "read"
  /\ UNCHANGED <<published, stop_requested, start, readerVars, carry_frame, packet,
                 next_data_seq, counters, mbufVars, wire>>

ReadNothing ==
  /\ pc = "read"
  /\ TryReadEmpty \/ TryReadLapped \/ TryReadInvalid
  /\ pc' = "top"
  /\ UNCHANGED <<published, stop_requested, start, carry_frame, packet,
                 next_data_seq, mbufVars, wire>>

ReadFirst ==
  /\ pc = "read"
  /\ \E frame \in ValidViews : TryReadOk(frame) /\ packet' = <<frame>>
  /\ pc' = "alloc"
  /\ UNCHANGED <<published, stop_requested, start, carry_frame, next_data_seq,
                 mbufVars, wire>>

\* No mbuf: the frame, which is no longer in carry_frame, is given up.
AllocFail ==
  /\ pc = "alloc"
  /\ free = 0
  /\ counters' = Bump("mbuf_alloc_failures", 1)
  /\ packet' = <<>>
  /\ pc' = "top"
  /\ UNCHANGED <<published, stop_requested, start, readerVars, carry_frame,
                 next_data_seq, mbufVars, wire>>

\* try_reserve_data_packet() fails: the mbuf is freed and run_sender ends, err = 1.
ReserveFail ==
  /\ pc = "alloc"
  /\ free > 0
  /\ ReserveMayFail
  /\ pc' = "failed"
  /\ UNCHANGED <<published, stop_requested, start, readerVars, carry_frame, packet,
                 next_data_seq, counters, mbufVars, wire>>

\* Room the builder has left: remaining_payload_capacity_.
Payload(frames) == FoldLeft(LAMBDA sum, f : sum + f.size, 0, frames)

remaining_payload_capacity == PayloadCapacity - Payload(packet)

BuildFirst ==
  /\ pc = "alloc"
  /\ free > 0
  /\ free' = free - 1
  /\ pc' = IF batching_enabled THEN "batch" ELSE "send"
  /\ UNCHANGED <<published, stop_requested, start, readerVars, carry_frame, packet,
                 next_data_seq, counters, nic, wire>>

BatchStop ==
  /\ pc = "batch"
  /\ stop_requested
  /\ pc' = "send"
  /\ UNCHANGED <<published, stop_requested, start, readerVars, carry_frame, packet,
                 next_data_seq, counters, mbufVars, wire>>

BatchGoOn ==
  /\ pc = "batch"
  /\ ~stop_requested
  /\ pc' = "next"
  /\ UNCHANGED <<published, stop_requested, start, readerVars, carry_frame, packet,
                 next_data_seq, counters, mbufVars, wire>>

\* Mutant of NextNothing: the batch waits for the next frame.
NextNothingWaits ==
  /\ pc = "next"
  /\ TryReadEmpty \/ TryReadLapped \/ TryReadInvalid
  /\ pc' = "batch"
  /\ UNCHANGED <<published, stop_requested, start, carry_frame, packet,
                 next_data_seq, mbufVars, wire>>

NextNothing ==
  /\ pc = "next"
  /\ TryReadEmpty \/ TryReadLapped \/ TryReadInvalid
  /\ pc' = "send"
  /\ UNCHANGED <<published, stop_requested, start, carry_frame, packet,
                 next_data_seq, mbufVars, wire>>

Joins(frame) ==
  /\ ~begins_after_source_gap(frame)
  /\ frame.size <= remaining_payload_capacity

\* Mutant of NextCarried: the frame that ends the batch is forgotten.
NextCarriedForgotten ==
  /\ pc = "next"
  /\ \E frame \in ValidViews : TryReadOk(frame) /\ ~Joins(frame)
  /\ pc' = "send"
  /\ UNCHANGED <<published, stop_requested, start, packet, carry_frame,
                 next_data_seq, mbufVars, wire>>

NextCarried ==
  /\ pc = "next"
  /\ \E frame \in ValidViews :
       TryReadOk(frame) /\ ~Joins(frame) /\ carry_frame' = <<frame>>
  /\ pc' = "send"
  /\ UNCHANGED <<published, stop_requested, start, packet, next_data_seq,
                 mbufVars, wire>>

NextAppended ==
  /\ pc = "next"
  /\ \E frame \in ValidViews :
       TryReadOk(frame) /\ Joins(frame) /\ packet' = Append(packet, frame)
  /\ pc' = "batch"
  /\ UNCHANGED <<published, stop_requested, start, carry_frame, next_data_seq,
                 mbufVars, wire>>

\* The packet is finished and consumes its data_seq, whether or not
\* rte_eth_tx_burst() accepts it.
Finish ==
  /\ packet' = <<>>
  /\ next_data_seq' = next_data_seq + 1
  /\ pc' = "top"
  /\ UNCHANGED <<published, stop_requested, start, readerVars, carry_frame>>

TxEnqueued ==
  /\ pc = "send"
  /\ nic < TxDesc
  /\ nic' = nic + 1
  /\ wire' = Append(wire, [data_seq |-> next_data_seq, frames |-> packet])
  /\ counters' = Bump("packetized", Len(packet))
  /\ Finish
  /\ UNCHANGED free

\* Mutants of TxUnsent: the mbuf leaks; the data_seq is used again.
TxUnsentLeak ==
  /\ pc = "send"
  /\ counters' = [counters EXCEPT !.packetized = @ + Len(packet), !.unsent = @ + 1]
  /\ Finish
  /\ UNCHANGED <<free, nic, wire>>

TxUnsentRollback ==
  /\ pc = "send"
  /\ free' = free + 1
  /\ counters' = [counters EXCEPT !.packetized = @ + Len(packet), !.unsent = @ + 1]
  /\ packet' = <<>>
  /\ pc' = "top"
  /\ UNCHANGED <<published, stop_requested, start, readerVars, carry_frame,
                 next_data_seq, nic, wire>>

\* The TX ring is full, or the driver takes nothing for a reason of its own.
TxUnsent ==
  /\ pc = "send"
  /\ free' = free + 1
  /\ counters' = [counters EXCEPT !.packetized = @ + Len(packet), !.unsent = @ + 1]
  /\ Finish
  /\ UNCHANGED <<nic, wire>>
-----------------------------------------------------------------------------
Loop ==
  \/ Attach \/ Stop \/ TakeCarry \/ GoOn
  \/ ReadNothing \/ ReadFirst
  \/ AllocFail \/ ReserveFail \/ BuildFirst
  \/ BatchStop \/ BatchGoOn \/ NextNothing \/ NextCarried \/ NextAppended
  \/ TxEnqueued \/ TxUnsent

Next == Publish \/ Signal \/ TxDone \/ Loop

Spec == Init /\ [][Next]_vars

\* run_sender never blocks; nothing obliges the producer, the user or the NIC.
FairSpec == Spec /\ WF_vars(Loop)
-----------------------------------------------------------------------------
(* Properties *)

HoldsMbuf == pc \in {"batch", "next", "send"}

Views == [index : Nat, size : Nat, seq_id : Nat]

TypeOK ==
  /\ published \in Nat /\ stop_requested \in BOOLEAN
  /\ pc \in {"attach", "top", "read", "alloc", "batch", "next", "send", "done", "failed"}
  /\ start \in Nat /\ read_index \in Nat /\ prev_valid \in Nat
  /\ buffer \in SUBSET Nat /\ taken \in SUBSET Nat /\ torn \in BOOLEAN
  /\ carry_frame \in Seq(Views) /\ packet \in Seq(Views)
  /\ next_data_seq \in Nat
  /\ counters \in [DOMAIN Zero -> Nat]
  /\ free \in Nat /\ nic \in Nat
  /\ wire \in Seq([data_seq : Nat, frames : Seq(Views)])

Packets == {packet} \cup {p.frames : p \in ToSet(wire)}

\* A source gap is never crossed inside a packet (186-216, WIRE_PROTOCOL.md 136):
\* its frames are neighbours in the ring and in sequence, also when the ring
\* lapped the sender, frames were rejected or a torn read went unnoticed.
BatchContiguous ==
  \A frames \in Packets : \A i \in 1..Len(frames)-1 :
    /\ frames[i+1].index = frames[i].index + 1
    /\ frames[i+1].seq_id = frames[i].seq_id + 1

Ascending(frames) == \A i, j \in DOMAIN frames : i < j => frames[i].index < frames[j].index

Before(frames, later) ==
  \A i \in DOMAIN frames, j \in DOMAIN later : frames[i].index < later[j].index

\* The frames handed to the NIC, packet by packet, and those still in hand.
Departing == [i \in DOMAIN wire |-> wire[i].frames] \o <<packet, carry_frame>>

\* However laps, carries, lost mbufs and full TX queues interleave, no source
\* frame is sent twice and none overtakes another.
SentOnceInOrder ==
  /\ \A i \in DOMAIN Departing : Ascending(Departing[i])
  /\ \A i, j \in DOMAIN Departing : i < j => Before(Departing[i], Departing[j])
  /\ \A i \in DOMAIN Departing : \A k \in DOMAIN Departing[i] : Departing[i][k].index \in taken

\* A number missing on the wire stands for a packet the NIC did not take, and
\* every packet carries a frame (219-234, WIRE_PROTOCOL.md 68-72).
GapsOnWireAreUnsent ==
  /\ \A i \in DOMAIN wire : wire[i].frames # <<>>
  /\ \A i, j \in DOMAIN wire : i < j => wire[i].data_seq < wire[j].data_seq
  /\ \A i \in DOMAIN wire : wire[i].data_seq < next_data_seq
  /\ next_data_seq = Len(wire) + counters.unsent

\* Nothing the reader moved past is unaccounted for: a position was read or
\* skipped; a read frame was rejected, is in hand, was packed, or was given up
\* for want of an mbuf.
EveryFrameAccounted ==
  /\ read_index = start + counters.frames_read + counters.lapped_frames_skipped
  /\ counters.frames_read = counters.invalid_frames + counters.offered
  /\ counters.offered = counters.packetized + counters.mbuf_alloc_failures
                        + Len(packet) + Len(carry_frame)

\* source_frames_missing is exactly the number of frames that were published
\* between the first and the last admitted one and not admitted, as long as no
\* read returned bytes of another frame.
MissingIsExact ==
  ~torn /\ taken # {} =>
    /\ prev_valid = Max(taken) + 1
    /\ counters.source_frames_missing = Cardinality((Min(taken)..Max(taken)) \ taken)

\* No mbuf is lost or freed twice on any path (163-234), and a pool larger than
\* the TX ring never runs dry, as dpdk_tx_port.cpp dimensions it.
MbufsConserved ==
  /\ free + nic + (IF HoldsMbuf THEN 1 ELSE 0) = TxMbufs
  /\ nic <= TxDesc
  /\ TxMbufs > TxDesc => counters.mbuf_alloc_failures = 0

\* A view is used only while SenderShmReader::buffer_ still holds its bytes.
ViewsAreFresh ==
  /\ carry_frame # <<>> => buffer = {carry_frame[1].index}
  /\ pc = "alloc" => buffer = {packet[1].index} /\ carry_frame = <<>>

\* After SIGINT run_sender ends, and before that it flushes the carried frame.
StopEnds == stop_requested ~> (pc \in {"done", "failed"} /\ carry_frame = <<>>)

\* A frame that was read leaves with the frames at hand: the sender does not
\* wait for another one (WIRE_PROTOCOL.md 133).
NothingLingers ==
  (packet # <<>> \/ carry_frame # <<>>) ~> (pc = "failed" \/ (packet = <<>> /\ carry_frame = <<>>))
==============================================================================
