------------------------------ MODULE Pipeline ------------------------------
(***************************************************************************)
(* End to end: frames of the source ring, packed by run_sender (src/       *)
(* sender_main.cpp), through the network, classified by run_receiver       *)
(* (src/receiver_main.cpp) and republished, while either program is        *)
(* stopped and started again.  Sender and Receiver have the two programs   *)
(* in detail; here a packet is one step at each end, a frame is its        *)
(* position in the source ring, and a packet holds neighbours, as          *)
(* Sender.BatchContiguous says.                                            *)
(*                                                                         *)
(* The wire has no session: nothing in a packet tells one run of the       *)
(* sender from the next.  The field run below is history.                  *)
(***************************************************************************)
EXTENDS Integers, FiniteSets, SequencesExt

CONSTANTS MaxBatch,   \* bound: frames of a packet
          MaxFrames,  \* bound: frames of the source ring
          MaxRuns,    \* bound: runs of the sender
          MaxFlight,  \* bound: packets in the network
          MaxStale    \* bound: packets dropped as stale

ASSUME PipelineAssumption ==
  /\ MaxBatch \in Nat \ {0} /\ MaxFrames \in Nat
  /\ MaxRuns \in Nat /\ MaxFlight \in Nat /\ MaxStale \in Nat

VARIABLES reordering,    \* the network reorders and duplicates, or only loses
          run,           \* history: how often the sender was started again
          read_index,    \* the sender's place in the source ring
          next_data_seq, \* of the sender
          network,       \* packets under way, in the order of sending
          gone,          \* history: data_seqs of this run unsent or lost
          expected,      \* next_data_seq of the receiver; None: not established
          counters,      \* ReceiverCounters
          accepted,      \* history: the packets accepted by this receiver
          output         \* the output ring, as the frames published into it

senderVars == <<run, read_index, next_data_seq>>
receiverVars == <<expected, counters, accepted, output>>
vars == <<reordering, senderVars, network, gone, receiverVars>>

None == -1
Counters == {"data_gap_events", "data_packets_missing", "stale_data_packets",
             "frames_published"}
Zero == [c \in Counters |-> 0]

Init ==
  /\ reordering \in BOOLEAN
  /\ run = 0 /\ read_index = 0 /\ next_data_seq = 0
  /\ network = <<>> /\ gone = {}
  /\ expected = None /\ counters = Zero /\ accepted = <<>> /\ output = <<>>
-----------------------------------------------------------------------------
(* run_sender *)

\* Frames before the first are those lapped, rejected, or given up for want of
\* an mbuf.  The packet consumes its data_seq whatever becomes of it.
Packetize(packet) ==
  /\ packet.first >= read_index /\ packet.last < MaxFrames
  /\ packet.run = run /\ packet.data_seq = next_data_seq
  /\ read_index' = packet.last + 1
  /\ next_data_seq' = next_data_seq + 1
  /\ UNCHANGED <<reordering, run, receiverVars>>

NextPackets ==
  {[run |-> run, data_seq |-> next_data_seq, first |-> f, last |-> l] :
     f, l \in read_index..MaxFrames-1}

Batches == {packet \in NextPackets : packet.last - packet.first \in 0..MaxBatch-1}

Enqueued ==
  /\ Len(network) < MaxFlight
  /\ \E packet \in Batches : Packetize(packet) /\ network' = Append(network, packet)
  /\ UNCHANGED gone

\* rte_eth_tx_burst() returns 0.
Unsent ==
  /\ \E packet \in Batches : Packetize(packet)
  /\ gone' = gone \cup {next_data_seq}
  /\ UNCHANGED network

\* Mutant of RestartSender: the new run reads the source ring from its start.
RestartSenderFromStart ==
  /\ run < MaxRuns
  /\ run' = run + 1
  /\ read_index' = 0
  /\ next_data_seq' = 0
  /\ gone' = {}
  /\ UNCHANGED <<reordering, network, receiverVars>>

\* The sender ends, with the frames it has in hand, and is started again: its
\* reader begins at the live edge, its data_seq at 0.
RestartSender ==
  /\ run < MaxRuns
  /\ run' = run + 1
  /\ read_index' \in read_index..MaxFrames
  /\ next_data_seq' = 0
  /\ gone' = {}
  /\ UNCHANGED <<reordering, network, receiverVars>>
-----------------------------------------------------------------------------
(* The network *)

Lose ==
  \E i \in DOMAIN network :
    /\ network' = RemoveAt(network, i)
    /\ gone' = IF network[i].run = run THEN gone \cup {network[i].data_seq} ELSE gone
    /\ UNCHANGED <<reordering, senderVars, receiverVars>>

Arrives(i) ==
  /\ i \in DOMAIN network
  /\ IF reordering THEN network' \in {network, RemoveAt(network, i)}
                   ELSE i = 1 /\ network' = Tail(network)
-----------------------------------------------------------------------------
(* run_receiver *)

Frames(packet) == [k \in 1..(packet.last - packet.first + 1) |-> packet.first + k - 1]

IsStale(packet) == expected # None /\ packet.data_seq < expected

\* Mutant of Gap: a receiver counts what it missed before it was started.
GapFromZero(packet) ==
  IF expected = None THEN packet.data_seq ELSE packet.data_seq - expected

\* The first packet establishes the sequence, so nothing before it is missing.
Gap(packet) == IF expected = None THEN 0 ELSE packet.data_seq - expected

Stale ==
  /\ counters.stale_data_packets < MaxStale
  /\ \E i \in DOMAIN network : Arrives(i) /\ IsStale(network[i])
  /\ counters' = [counters EXCEPT !.stale_data_packets = @ + 1]
  /\ UNCHANGED <<reordering, senderVars, gone, expected, accepted, output>>

\* Mutant of Expect: next_data_seq stays at the packet just accepted.
ExpectSame(packet) == expected' = packet.data_seq

Expect(packet) == expected' = packet.data_seq + 1

Accept ==
  \E i \in DOMAIN network :
    LET packet == network[i] IN
    /\ Arrives(i) /\ ~IsStale(packet)
    /\ Expect(packet)
    /\ output' = output \o Frames(packet)
    /\ accepted' = Append(accepted, packet)
    /\ counters' = [counters EXCEPT
         !.data_gap_events = IF Gap(packet) > 0 THEN @ + 1 ELSE @,
         !.data_packets_missing = @ + Gap(packet),
         !.frames_published = @ + Len(Frames(packet))]
    /\ UNCHANGED <<reordering, senderVars, gone>>

\* The receiver is started again: a new output ring and no expectation.
RestartReceiver ==
  /\ accepted # <<>>
  /\ expected' = None /\ counters' = Zero /\ accepted' = <<>> /\ output' = <<>>
  /\ UNCHANGED <<reordering, senderVars, network, gone>>
-----------------------------------------------------------------------------
Next ==
  \/ Enqueued \/ Unsent \/ RestartSender
  \/ Lose \/ Stale \/ Accept \/ RestartReceiver

Spec == Init /\ [][Next]_vars
-----------------------------------------------------------------------------
(* Properties *)

Packets == {packet \in [run : Nat, data_seq : Nat, first : Nat, last : Nat] :
              packet.first <= packet.last}

TypeOK ==
  /\ reordering \in BOOLEAN
  /\ run \in Nat /\ read_index \in 0..MaxFrames /\ next_data_seq \in Nat
  /\ network \in Seq(Packets) /\ gone \in SUBSET Nat
  /\ expected \in Nat \cup {None}
  /\ counters \in [Counters -> Nat]
  /\ accepted \in Seq(Packets) /\ output \in Seq(Nat)

OneRun == \A i, j \in DOMAIN accepted : accepted[i].run = accepted[j].run

\* A consumer of the output ring sees the frames of the source in their order and
\* none twice: whatever the network does while the sender keeps running, and
\* across its restarts when the network keeps the order (146-166 of
\* receiver_main.cpp, live_edge() of the sender's reader).
OutputInOrder ==
  OneRun \/ ~reordering =>
    \A i \in 1..Len(output)-1 : output[i] < output[i+1]

\* Every packet the sender could not send or the network lost, and no other, is
\* counted missing, once a later one of the same run is accepted (TX failures do
\* not roll data_seq back, WIRE_PROTOCOL.md 71; E2E_RESULTS.md 181).
MissingIsUnsentOrLost ==
  ~reordering /\ accepted # <<>> /\ OneRun /\ accepted[1].run = run =>
    counters.data_packets_missing =
      Cardinality(gone \cap (accepted[1].data_seq)..(Last(accepted).data_seq))

\* On a network that keeps the order a packet is dropped as stale only after the
\* sender was started again under this receiver; restarting the receiver as well
\* ends it (WIRE_PROTOCOL.md 75).
StaleMeansRestart ==
  ~reordering /\ counters.stale_data_packets > 0 =>
    accepted # <<>> /\ accepted[1].run < run

\* The price of the missing session: what a restarted sender sends is accepted
\* only from the place in data_seq that the old run had reached, so that across
\* runs, too, accepted numbers grow, and the packets before are not counted
\* missing.
OneSequence ==
  /\ \A i \in 1..Len(accepted)-1 : accepted[i].data_seq < accepted[i+1].data_seq
  /\ accepted # <<>> =>
       counters.data_packets_missing + Len(accepted)
         = Last(accepted).data_seq - accepted[1].data_seq + 1
==============================================================================
