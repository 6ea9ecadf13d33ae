------------------------------ MODULE Receiver ------------------------------
(***************************************************************************)
(* The receiver process: the loop of run_receiver (src/receiver_main.cpp)  *)
(* polls the RX queue of the NIC, parses each mbuf, orders the Data        *)
(* packets by data_seq and republishes their frames into the output ring   *)
(* with ReceiverShmWriter.  Around it: the sender's stream of data         *)
(* sequences, a network that loses, duplicates and reorders packets, and   *)
(* the RX queue.                                                           *)
(***************************************************************************)
EXTENDS Integers, SequencesExt

CONSTANTS RX_BURST_SIZE,  \* mbufs asked for by one rte_eth_rx_burst()
          RxDesc,         \* RX_DESC_COUNT
          RxMbufs,        \* RX_MBUF_COUNT
          RecordCount,    \* record_count, by data_seq % Len(RecordCount)
          MaxSent,        \* bound: data sequences consumed by the sender
          MaxCopies,      \* bound: copies of one packet in the network
          MaxForeign      \* bound: packets that are not LLDT Data packets

ASSUME ReceiverAssumption ==
  /\ RX_BURST_SIZE \in Nat \ {0} /\ RxDesc \in Nat /\ RxMbufs \in Nat
  /\ MaxSent \in Nat /\ MaxCopies \in Nat /\ MaxForeign \in Nat
  /\ RecordCount \in Seq(Nat \ {0}) /\ Len(RecordCount) > 0

Foreign == -1       \* stands for the data_seq of a packet without one

VARIABLES sent,           \* the sender's next_data_seq
          network,        \* network[s]: copies of packet s under way
          foreign,        \* packets of other protocols the NIC was given
          rx_queue,       \* filled RX descriptors, oldest first
          free,           \* mbufs in the RX pool
          stop_requested, \* set by the signal handler
          pc,             \* where run_receiver is
          rx_mbufs,       \* the burst in hand
          i,              \* index into rx_mbufs
          record,         \* frames of the packet written so far
          data_seq_established,
          next_data_seq,
          rx_packets, invalid_lldt_packets, stale_data_packets, data_gap_events,
          data_packets_missing, data_packets_accepted, frames_published,
          published,      \* history: frames published to the output ring
          accepted        \* history: the packets written, in order

counters == <<rx_packets, invalid_lldt_packets, stale_data_packets, data_gap_events,
              data_packets_missing, data_packets_accepted, frames_published>>
nicVars == <<sent, network, foreign>>
vars == <<nicVars, rx_queue, free, stop_requested, pc, rx_mbufs, i, record,
          data_seq_established, next_data_seq, counters, published, accepted>>

Init ==
  /\ sent = 0 /\ network = [s \in 0..MaxSent-1 |-> 0] /\ foreign = 0
  /\ rx_queue = <<>> /\ free = RxMbufs
  /\ stop_requested = FALSE
  /\ pc = "poll" /\ rx_mbufs = <<>> /\ i = 1 /\ record = 0
  /\ data_seq_established = FALSE /\ next_data_seq = 0
  /\ rx_packets = 0 /\ invalid_lldt_packets = 0 /\ stale_data_packets = 0
  /\ data_gap_events = 0 /\ data_packets_missing = 0
  /\ data_packets_accepted = 0 /\ frames_published = 0
  /\ published = <<>> /\ accepted = <<>>
-----------------------------------------------------------------------------
(* Sender, network and NIC *)

loopVars == <<pc, rx_mbufs, i, record, data_seq_established, next_data_seq,
              counters, published, accepted>>

\* The sender consumes a data_seq.  The NIC of the sender may refuse the
\* packet, the network may lose it, or make copies of it.
Send ==
  /\ sent < MaxSent
  /\ \E copies \in 0..MaxCopies : network' = [network EXCEPT ![sent] = copies]
  /\ sent' = sent + 1
  /\ UNCHANGED <<foreign, rx_queue, free, stop_requested, loopVars>>

Fill(packet) ==
  /\ Len(rx_queue) < RxDesc
  /\ free > 0
  /\ free' = free - 1
  /\ rx_queue' = Append(rx_queue, packet)

Arrive(s) ==
  /\ network[s] > 0
  /\ network' = [network EXCEPT ![s] = @ - 1]
  /\ Fill(s)
  /\ UNCHANGED <<sent, foreign, stop_requested, loopVars>>

\* The RX ring is full, or the pool is: imissed or rx_nombuf counts the packet.
Missed(s) ==
  /\ network[s] > 0
  /\ Len(rx_queue) = RxDesc \/ free = 0
  /\ network' = [network EXCEPT ![s] = @ - 1]
  /\ UNCHANGED <<sent, foreign, rx_queue, free, stop_requested, loopVars>>

ForeignArrives ==
  /\ foreign < MaxForeign
  /\ foreign' = foreign + 1
  /\ Fill(Foreign)
  /\ UNCHANGED <<sent, network, stop_requested, loopVars>>

Signal ==
  /\ ~stop_requested
  /\ stop_requested' = TRUE
  /\ UNCHANGED <<nicVars, rx_queue, free, loopVars>>
-----------------------------------------------------------------------------
(* run_receiver *)

\* Only an idle loop looks at the flag: a burst in hand is processed.
Stop ==
  /\ pc = "poll"
  /\ stop_requested
  /\ pc' = "done"
  /\ UNCHANGED <<nicVars, rx_queue, free, stop_requested, rx_mbufs, i, record,
                 data_seq_established, next_data_seq, counters, published, accepted>>

\* rte_eth_rx_burst() may return fewer packets than there are; when it returns
\* none the loop starts again.
RxBurst ==
  /\ pc = "poll"
  /\ ~stop_requested
  /\ \E received \in 1..RX_BURST_SIZE :
       /\ received <= Len(rx_queue)
       /\ rx_mbufs' = SubSeq(rx_queue, 1, received)
       /\ rx_queue' = SubSeq(rx_queue, received + 1, Len(rx_queue))
  /\ i' = 1
  /\ pc' = "packet"
  /\ UNCHANGED <<nicVars, free, stop_requested, record, data_seq_established,
                 next_data_seq, counters, published, accepted>>

data_seq == rx_mbufs[i]
InBurst == pc = "packet" /\ i <= Len(rx_mbufs)

\* A packet that is not accepted leaves no trace but in the counters.
Reject ==
  /\ rx_packets' = rx_packets + 1
  /\ i' = i + 1
  /\ UNCHANGED <<nicVars, rx_queue, free, stop_requested, pc, rx_mbufs, record,
                 data_seq_established, next_data_seq, data_gap_events,
                 data_packets_missing, data_packets_accepted, frames_published,
                 published, accepted>>

Invalid ==
  /\ InBurst
  /\ data_seq = Foreign
  /\ Reject
  /\ invalid_lldt_packets' = invalid_lldt_packets + 1
  /\ UNCHANGED stale_data_packets

\* Mutant of expected: the expectation follows every packet.
expected_any == data_seq

\* next_data_seq as lines 140-144 leave it: the first Data packet decides.
expected == IF data_seq_established THEN next_data_seq ELSE data_seq

\* Mutant of Stale: the packet is not counted.
StaleUncounted ==
  /\ InBurst
  /\ data_seq # Foreign
  /\ data_seq < expected
  /\ Reject
  /\ UNCHANGED <<invalid_lldt_packets, stale_data_packets>>

Stale ==
  /\ InBurst
  /\ data_seq # Foreign
  /\ data_seq < expected
  /\ Reject
  /\ stale_data_packets' = stale_data_packets + 1
  /\ UNCHANGED invalid_lldt_packets

\* Mutant of NewlyMissing: the accepted packet counts too.
NewlyMissingOffByOne == IF data_seq > expected THEN data_seq - expected + 1 ELSE 0

NewlyMissing == data_seq - expected

\* Mutant of Accept: the walk over the records does not start anew.
AcceptKeepsRecord ==
  /\ InBurst
  /\ data_seq # Foreign
  /\ data_seq >= expected
  /\ data_seq_established' = TRUE
  /\ next_data_seq' = expected
  /\ rx_packets' = rx_packets + 1
  /\ data_packets_missing' = data_packets_missing + NewlyMissing
  /\ data_gap_events' = data_gap_events + (IF NewlyMissing > 0 THEN 1 ELSE 0)
  /\ accepted' = Append(accepted, data_seq)
  /\ pc' = "write"
  /\ UNCHANGED <<nicVars, rx_queue, free, stop_requested, rx_mbufs, i, record, published,
                 invalid_lldt_packets, stale_data_packets, data_packets_accepted,
                 frames_published>>

\* The packet is accepted: writer.write() starts.
Accept ==
  /\ InBurst
  /\ data_seq # Foreign
  /\ data_seq >= expected
  /\ data_seq_established' = TRUE
  /\ next_data_seq' = expected
  /\ rx_packets' = rx_packets + 1
  /\ data_packets_missing' = data_packets_missing + NewlyMissing
  /\ data_gap_events' = data_gap_events + (IF NewlyMissing > 0 THEN 1 ELSE 0)
  /\ accepted' = Append(accepted, data_seq)
  /\ record' = 0
  /\ pc' = "write"
  /\ UNCHANGED <<nicVars, rx_queue, free, stop_requested, rx_mbufs, i, published,
                 invalid_lldt_packets, stale_data_packets, data_packets_accepted,
                 frames_published>>

record_count(s) == RecordCount[(s % Len(RecordCount)) + 1]

WriteFrame ==
  /\ pc = "write"
  /\ record < record_count(data_seq)
  /\ published' = Append(published, [data_seq |-> data_seq, record |-> record])
  /\ record' = record + 1
  /\ UNCHANGED <<nicVars, rx_queue, free, stop_requested, pc, rx_mbufs, i,
                 data_seq_established, next_data_seq, counters, accepted>>

Written ==
  /\ pc = "write"
  /\ record = record_count(data_seq)
  /\ next_data_seq' = data_seq + 1
  /\ data_packets_accepted' = data_packets_accepted + 1
  /\ frames_published' = frames_published + record_count(data_seq)
  /\ i' = i + 1
  /\ pc' = "packet"
  /\ UNCHANGED <<nicVars, rx_queue, free, stop_requested, rx_mbufs, record,
                 data_seq_established, published, accepted, rx_packets,
                 invalid_lldt_packets, stale_data_packets, data_gap_events,
                 data_packets_missing>>

\* Mutants of FreeBurst: rejected packets keep their mbuf; the loop does not go on.
FreeBurstAcceptedOnly ==
  /\ pc = "packet"
  /\ i > Len(rx_mbufs)
  /\ free' = free + Len(SelectSeq(rx_mbufs, LAMBDA m : m # Foreign))
  /\ rx_mbufs' = <<>>
  /\ pc' = "poll"
  /\ UNCHANGED <<nicVars, rx_queue, stop_requested, i, record, data_seq_established,
                 next_data_seq, counters, published, accepted>>

FreeBurstStays ==
  /\ pc = "packet"
  /\ i > Len(rx_mbufs)
  /\ free' = free + Len(rx_mbufs)
  /\ rx_mbufs' = <<>>
  /\ UNCHANGED <<nicVars, rx_queue, stop_requested, pc, i, record, data_seq_established,
                 next_data_seq, counters, published, accepted>>

\* The whole burst goes back to the pool, rejected packets included.
FreeBurst ==
  /\ pc = "packet"
  /\ i > Len(rx_mbufs)
  /\ free' = free + Len(rx_mbufs)
  /\ rx_mbufs' = <<>>
  /\ pc' = "poll"
  /\ UNCHANGED <<nicVars, rx_queue, stop_requested, i, record, data_seq_established,
                 next_data_seq, counters, published, accepted>>
-----------------------------------------------------------------------------
Loop ==
  \/ Stop \/ RxBurst
  \/ Invalid \/ Stale \/ Accept \/ WriteFrame \/ Written \/ FreeBurst

Next ==
  \/ Send \/ ForeignArrives \/ Signal
  \/ \E s \in 0..MaxSent-1 : Arrive(s) \/ Missed(s)
  \/ Loop

Spec == Init /\ [][Next]_vars

\* run_receiver never blocks.
FairSpec == Spec /\ WF_vars(Loop)
-----------------------------------------------------------------------------
(* Properties *)

TypeOK ==
  /\ sent \in 0..MaxSent /\ foreign \in Nat
  /\ network \in [0..MaxSent-1 -> Nat]
  /\ rx_queue \in Seq(0..MaxSent-1 \cup {Foreign})
  /\ free \in Nat /\ stop_requested \in BOOLEAN
  /\ pc \in {"poll", "packet", "write", "done"}
  /\ rx_mbufs \in Seq(0..MaxSent-1 \cup {Foreign})
  /\ i \in Nat \ {0} /\ record \in Nat
  /\ data_seq_established \in BOOLEAN /\ next_data_seq \in Nat
  /\ rx_packets \in Nat /\ invalid_lldt_packets \in Nat /\ stale_data_packets \in Nat
  /\ data_gap_events \in Nat /\ data_packets_missing \in Nat
  /\ data_packets_accepted \in Nat /\ frames_published \in Nat
  /\ published \in Seq([data_seq : Nat, record : Nat])
  /\ accepted \in Seq(Nat)

\* Whatever the network duplicates or reorders, packets come out in the order of
\* data_seq and none twice (140-160): the receiver implements a channel that only
\* loses packets.
Channel == INSTANCE LossyChannel
ImplementsChannel == Channel!Spec

\* The frames of packet s that write() has published so far.
WrittenOf(j) ==
  LET s == accepted[j]
      n == IF j = Len(accepted) /\ pc = "write" THEN record ELSE record_count(s)
  IN  [k \in 1..n |-> [data_seq |-> s, record |-> k - 1]]

\* The output ring gets all frames of the accepted packets, in their order, and
\* nothing else: no rejected or repeated packet leaves a trace in it.
WholePackets == published = FlattenSeq([j \in DOMAIN accepted |-> WrittenOf(j)])

\* Every packet taken from the NIC is invalid, stale or accepted, and is counted
\* once (130-162); frames_published counts the frames in the output ring.
PacketsAccounted ==
  /\ rx_packets = invalid_lldt_packets + stale_data_packets + Len(accepted)
  /\ Len(accepted) = data_packets_accepted + (IF pc = "write" THEN 1 ELSE 0)
  /\ Len(published) = frames_published + (IF pc = "write" THEN record ELSE 0)

\* data_packets_missing is the number of data sequences between the first and
\* the last accepted packet that were not accepted, and data_gap_events the
\* number of places where they are missing (152-156).  What was lost before the
\* first accepted packet is in no counter.
MissingIsExact ==
  accepted # <<>> =>
    /\ data_packets_missing =
         Cardinality((accepted[1]..Last(accepted)) \ ToSet(accepted))
    /\ data_gap_events =
         Cardinality({j \in 1..Len(accepted)-1 : accepted[j+1] # accepted[j] + 1})

\* No mbuf is lost or freed twice on any path through the burst, and a pool of
\* RX_DESC_COUNT + RX_BURST_SIZE mbufs is enough: then only a full ring can make
\* the NIC drop a packet.
MbufsConserved ==
  /\ free + Len(rx_queue) + Len(rx_mbufs) = RxMbufs
  /\ RxMbufs > RxDesc + RX_BURST_SIZE => free > 0

\* After SIGINT the burst in hand is processed and run_receiver ends.
StopEnds == stop_requested ~> pc = "done" /\ rx_mbufs = <<>>
==============================================================================
