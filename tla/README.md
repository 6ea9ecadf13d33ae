# Verification of the low-latency data transfer pipeline

TLA+ models of the programs in this repository, the TLC runs that check them on
small instances, and proofs, for every instance, of the safety of the ring, its segment,
the sender, the receiver, the consumer, the packet headers, the set-up and the pipeline
as a whole.  Paths are relative to the repository root.

## The system

```
producer --> source ring --> sender --> NIC/network --> receiver --> output ring --> consumer
             (shm::Ring)     DPDK TX                    DPDK RX      (shm::Ring)
```

| Component | State | Operations | Talks to |
|---|---|---|---|
| `shm::Ring` (`harness/include/shm_ring.h`) | per slot `seq`, `frame_len`, `frame`; `write_index`; per reader a cursor | `attach`, `publish`, `live_edge`, `read` | one producer and any number of readers in other processes, through shared memory and without locks |
| `shm::Segment` (`harness/include/shm_segment.h`) | descriptor, mapping | `open` (create or attach), `unlink` | every program at start and end |
| Producer (`harness/src/producer.cpp`) | `seq` | build and publish a frame, paced | source ring |
| `SenderShmReader` (`src/sender_shm_reader.cpp`) | `read_index_`, `prev_valid_`, `buffer_`, counters | `try_read` | source ring |
| Sender loop, `RawDataPacketBuilder` (`src/sender_main.cpp`, `src/raw_data_packet_builder.cpp`) | `carry_frame`, `next_data_seq`, packet, counters, mbufs | allocate, reserve, batch, finalize, transmit, stop | reader, TX pool, NIC, signal handler |
| Packet materializer (`src/dpdk/data_packet_materializer.cpp`) | prepared headers | reserve, finalize, checksum | sender loop |
| Ports (`src/dpdk/dpdk_{tx,rx}_port.cpp`, `dpdk_port_info.cpp`) | pool, queue | initialise, stop | NIC |
| Receiver loop, parser (`src/receiver_main.cpp`, `src/dpdk/ingress_packet_parser.cpp`) | `next_data_seq`, `data_seq_established`, burst, counters | burst, parse, classify, write, free, stop | NIC, writer, signal handler |
| `ReceiverShmWriter` (`src/receiver_shm_writer.cpp`) | output ring | `write` | output ring |
| Consumer and metrics (`harness/src/consumer.cpp`, `harness/include/metrics.h`) | `read_index`, `last_progress`, accumulator | read, record, idle test, report | output ring, wall clock |
| Endpoint configuration (`src/config.cpp`) | the flags set so far | parse an argument with its value | sender and receiver at start |
| Message formats (`harness/include/message_*.hpp`) | the Compact profile's running totals | lay out and narrow the fields of a frame | producer, consumer |
| Scripts (`scripts/`) | - | remove segments, start programs in order, plot | all programs |

What is hard to get right here, and hard to test, is listed line by line in
`PROJECT.json` under `hazards`.  The main groups are: the ring's unlocked
overwrite (a reader one ring behind, the two stores that end a publication, the
decision "lapped" and the resume position being taken from different loads);
sequence bookkeeping across gaps, laps and torn reads; frames and mbufs on the
error paths of the sender; a network that loses, duplicates and reorders; SIGINT
in the middle of a batch or burst; unsigned and wall-clock arithmetic at the
consumer; restarts over a segment in use.

What makes each component correct: the ring never hands out a frame it no longer
holds, never repeats one, and lets a reader catch up; the sender sends each
admitted frame at most once and in order, never crosses a source gap inside a
packet, and accounts for every frame and mbuf; the receiver turns the network
into a channel that only loses packets; the consumer's drop count is exact; a segment
started again shows nothing of its earlier life; a process that ends leaves nothing
behind; a packet's lengths and checksum are those the other end expects; a
configuration that is accepted can be run with; a Compact frame says what the Raw
one says.

## Modules

| Module | What it is |
|---|---|
| `BroadcastContract` | what one read of a ring promises, as operators of two numbers |
| `BroadcastLog` | abstract specification of the ring: a log with one cursor per reader |
| `ShmRing`, `ShmRingProofs` | the ring, one step per access to shared memory, and proofs |
| `SegmentLifecycle`, `SegmentProofs` | one segment over several lives of its writer, under a reader that stays, and proofs |
| `Sender`, `SenderProofs` | `SenderShmReader`, the loop of `run_sender`, the packet builder, the TX pool and ring, and proofs |
| `LossyChannel` | abstract specification of the network as the receiver presents it |
| `Receiver`, `ReceiverProofs` | network, RX ring and pool, the loop of `run_receiver`, `ReceiverShmWriter`, and proofs |
| `Consumer`, `ConsumerProofs` | the consumer's loop and the counters of `metrics::Accumulator`, and proofs |
| `Pipeline`, `PipelineProofs` | sender, network and receiver composed, with restarts of either, and proofs |
| `Endpoint` | `main()` of sender and receiver around the loops, step by step |
| `DataPacket` | packet layout, IPv4 header and checksum, parser and record walk on one mbuf |
| `Producer` | pacing, timestamps and the fields of both message profiles |
| `FormatProofs` | proofs about both: what is in a packet and what is in a frame |
| `EndpointConfig` | `try_parse_endpoint_config` |
| `EndpointProofs` | proofs about both |
| `MC*` | instances for TLC |

`Sender` and `Consumer` do not repeat the ring.  They read it through
`BroadcastContract`, whose operators are the guards and outcomes of
`BroadcastLog`; `ShmRing` is proved to implement `BroadcastLog`.

### ShmRing

A frame is its number: a word of a slot, or of a reader's copy, holds the number
of the frame whose publication stored it, and `frame_len` is one more such word.
`publish()` is `PublishBegin`, one `StoreField` per word, `StoreSeq`,
`StoreIndex`; `read()` is `PollEmpty | PollLapped | PollReady`, one `CopyField`
per word, `RecheckOk | RecheckLapped`, and `LoadEdge` for a lapped reader.  The
update of the cursor by the caller (all three callers do the same) is part of
the last step, being local to the reader.  `publish()` keeps a word that it has
not stored apart from one that it has by its number, so no second program
counter is needed.

The plain stores of a publication come in any order, and so do the loads of one
`memcpy` after the length was loaded.  The atomics take effect in program order:
the release stores and acquire loads give that for the stores of the producer,
and for the loads before the re-check on x86-64, where loads are not reordered
and for which the programs are built.  C++ alone does not order the plain loads
of the `memcpy` before the acquire load that follows them.  A copy is always of all
words; a torn length makes `memcpy` copy fewer or more of them, which changes
nothing in what each word may hold.

### Sender

A ring read is one step.  A frame read at position `n` may carry the length, the
type or the `seq_id` of the frame being published when the reader is exactly one
ring behind, and is rejected when length and type disagree.  Everything else is
the loop statement by statement, with a program counter wherever the producer,
the signal handler or the NIC can come in between.  `stopping` is not a variable
of the model: the flag is never reset, so it equals `stop_requested` as last
read.  History variables (`start`, `wire`, `taken`, `torn`) only serve the
properties.  Byte and poll counters, the latter unbounded, are left out.

### Receiver

`Send` lets the sender consume a `data_seq`; the packet may be refused by its
NIC, lost, or duplicated (0 to `MaxCopies` copies).  Copies arrive in any order,
between packets of other protocols.  The loop is modelled packet by packet, and
`writer.write` frame by frame.

### Consumer

Sequence numbers in the output ring grow with gaps.  A torn read may return the
`seq_id` of the frame being published, of which the model only fixes that it is
larger than the last.  In `Tick` time passes: clock and `silence` advance together.  In
`StepClock` the clock alone is stepped, forward or back, `util::now_ns()` being
`system_clock`; `stepped` says that this happened since the last frame.  The unsigned
difference is taken modulo `TimeWrap`.  `--count` and `--from-edge` are chosen at the
start.  `IdleMeansIdle` is what the README of the harness says of `--idle-ms`;
`IdleUnlessStepped` is what holds.

### SegmentLifecycle

A file is an inode.  `Create` opens the linked inode or a new one, `Size` is
`ftruncate`, `InitStore` one store of `Ring::attach(init)` in any order, `Exit`
unlinks, `Crash` is a kill at any step (and SIGINT for the producer, which has no
handler, and which `run_pair.ps1` ends with it), `Remove` an `rm -f` by hand.
`publish()` is `StoreBytes`, `StoreSeq` and `StoreIndex`, the three parts a kill can
separate; the interleavings of its bytes are `ShmRing`'s.  `Open`, `Attach`, `LiveEdge`,
`Poll`, `Copy`, `Recheck` and `LoadEdge` are the reader's, which is never told of a
restart.  Chosen at the start are whether it attaches at the live edge (`from_edge`) and
who started it (`scripted`): `run_pair.ps1`, as its sender or as its consumer, or a user.
The script's `rm -f` is part of `Create`.  `SeeLine` is its `grep` for the line that the
producer prints once the segment is initialised; the sender opens at any time after that,
its EAL and port come first, and the producer may be dead by then.  For the consumer
nothing is awaited but seconds (`sleep 1`, the warm-up) and that the receiver's process
was there once, so it opens at any time at all.  What the run and the proofs show:

- A writer that crashed and starts again initialises the same inode under its
  readers.  A reader with cursor `c` gets no frame of the old life from the new
  one (`OnlyThisLife`), but waits until frame `c` of the new life and goes on
  there: the first `c` frames are lost to it without being counted
  (`AheadOnlyIfOutlived`).  What was published ends at `LogEnd`, which counts a frame
  that has its `seq` and is not yet in `write_index`.
- A writer that exited cleanly unlinked the name, so its successor has a new
  inode, which the old reader never sees.
- A reader that attaches before the first initialisation stored `slot_count` keeps a
  mask of all ones and reads outside the mapping; after that it is never exposed
  (`InBounds`).
- The sender of `run_pair.ps1` finds its segment, of full size and with its mask, also
  when the producer was killed after its line.  The consumer of `run_pair.ps1` may find no
  segment and leave, or an unfinished one with a bad mask.  Since the script removes the
  segment before it starts a writer, no inode is initialised twice, and neither is ever
  ahead of the log (`ScriptIsSafe`).
- A writer killed between the stores at `shm_ring.h:77` and `78` leaves a frame in a slot
  that `write_index` does not count.  A reader at `write_index - slots` finds that frame in
  its slot, is lapped, and is sent by `resume_at` to where it is: it spins there until the
  segment is initialised again (`LappedForEver`).  Any other reader catches up
  (`CatchUpUnlessHalfPublished`).

### Endpoint

`Role` tells senders from receivers.  The stages of `main()`, then the steps of `Plan` and
of `Teardown`, each of which can fail; the process may be stopped or killed anywhere.  EAL's lock on the
primary process is external, and is why two receivers given one segment name do
not take it from each other (`SegmentStaysLinked`).  `Segment::open` leaves by
`exit(1)`, past all destructors: harmless in the receiver, which opens the segment
before it touches the port (`HardExitIsEarly`), but not in the sender, which
attaches last (`SenderHardExit`).

### DataPacket

Lengths, offsets and 16-bit words have the values of the code.  An mbuf keeps the
bytes of its last packet, so the canonical area is the set of frame headers readable
in it, stale ones included.  Lengths, record count, trim and walk have to agree for the
receiver to publish the frames that were appended and no stale one (`ArrivesWhole`).
`finalize_data_packet` folds the carries of its sum once; that this is enough is proved.

### EndpointConfig

One step is one turn of the argument loop.  A text is what the parser tells apart;
numbers above the bounds stand for those that overflow the member's type.  The
arguments are chosen as the loop reaches them, and `AcceptsExactlySound` says which
command lines give a configuration and which configuration.  `value & (value - 1)` is
`ShareBit`, a bit set in both; the property says instead that the value is a power of two.
The module's `Init`, `Next` and `Spec` have `Parser` in front, so that `EndpointProofs` can
extend it beside `Endpoint`.

### Producer

`Pace` waits for the schedule, `Build` reads the clock for the exchange time, `Stamp`
reads it again for the send time and writes the 32-bit delta, `Publish` hands the frame
over.  `Decode` of a Compact frame is compared with the Raw message of the same
number, and a reader that loses any subset of the frames checks the running totals.
The Raw builders go through doubles and truncate; the values they end up with were
computed for every period of the fields and are those of `RawTrade`, `RawBbo` and `RawBook`.
The module's `Init`, `Next` and `Spec` have its name in front, so that `FormatProofs` can
extend it beside `DataPacket`.

### Pipeline

A packet is one step at each end, its frames neighbours in the source ring, as
`Sender!BatchContiguous` says.  Whether the network only loses packets or also reorders
and duplicates them (`reordering`) is chosen at the start.  There is no session on the
wire: a restarted sender counts from 0, its packets are stale for a running receiver until
it passes the number the old run had reached, and those dropped before are not counted
missing (`OneSequence`).  On a network that keeps order nothing else is ever stale
(`StaleMeansRestart`), and starting the receiver again as well ends it, as
`WIRE_PROTOCOL.md:75` asks.

## Runs

| Run | Bounds | Shows |
|---|---|---|
| `ring` | 2 slots, 2 readers (one from the live edge), 2 fields per frame, 5 frames | the ring implements the log; a copy is of the frames its slot can hold; `kEmpty` is right; readers catch up once the producer pauses |
| `ring_torn` | 1 reader, 3 fields, 4 frames | **violation**: a `kOk` with bytes of two frames |
| `sender` | 2 slots, 5 frames of sizes 1, 1 and 3, payload 4, pool 2, TX ring 2, a reservation may fail | contiguity, order, sequence numbers, accounting, mbufs, view lifetime, shutdown, and that no frame lingers |
| `receiver` | 3 packets of one or two frames, up to 2 copies each, 1 foreign packet, burst 2, RX ring 2, pool 5 | the channel refinement, whole packets, accounting, mbufs, shutdown |
| `consumer` | 2 slots, `--count` 0 or 3, buffer 3, 5 frames, gaps up to 2, times up to 3, a clock stepped to any of them at any time | the drops are exact, every frame is a sample or counted as overflow, the idle test is right unless the clock was stepped since the last frame |
| `consumer_clock` | the same | **violation**: an exit without idle time |
| `segment` | 2 slots, 3 lives of 3 frames | no frame of an earlier life, no access outside the mapping once initialised, when a cursor is ahead of the log, what the order of `run_pair.ps1` does and does not exclude, and that a reader catches up with the next life unless its writer was killed within `publish()` |
| `endpoint` | 2 receivers with one segment name and 1 sender | what each leaves behind, the device before its pool, the segment's name |
| `packet` | frames of 192 and 576 bytes, 256 pairs of address words, 2 packets through one mbuf | checksum, and that a packet arrives whole |
| `config` | every command line over 5 numbers, 2 addresses, 5 MACs, a 4-bit slot count and ports up to 7 | accepted exactly if sound |
| `producer` | 4 paced frames under a clock set back twice, 8 values of the delta; 3000 unpaced ones, the first 9 read in any subset | pacing, exchange times, Compact against Raw, totals under loss |
| `pipeline` | 6 frames, packets of up to 2, the sender started 3 times, 3 packets under way, 3 stale ones; with and without reordering and duplication | order, missing, one sequence over restarts |

Why the bounds are enough.  Two slots and five frames are more than two full rounds, in
which a reader meets its slot empty, wanted, being overwritten, overwritten and
overwritten twice; the proofs carry the results to every size.  Five frames let the
sender be lapped, read a torn frame and live with the backward jump that follows.  The
frame sizes keep the raw profile's ratio 1:1:3, so that some torn reads are rejected and
others are not, and a payload of four makes the third frame overflow a packet.  A pool as
large as the TX ring runs dry, which the pool as built (2047 against 512) does not: that
it cannot, the last part of `MbufsConserved`, is vacuous in the run and proved.  Three
packets with two copies each give every order of fresh, repeated, late and missing packets
within and across bursts.  Two lives show every restart at every step of a read and the
third that nothing accumulates.  `packet` covers the only layouts a packet of Raw frames
can have; the address words are zero, one byte, mixed and all ones, and the proof does the
rest.  3000 frames are a period of every field of both profiles; three starts of the
sender are a restart of a restarted one.

Deadlock is checked for the ring alone in the sense that its readers poll for
ever; the other programs end, so their runs switch the check off.

Fairness.  Weak fairness is assumed of each reader and of a publication that has
begun, and of the loops of `run_sender` and `run_receiver`: busy loops without
blocking calls on cores of their own.  Nothing is assumed of the producer, the
network, the NIC or the user.  In `segment` the reader is fair, and so are the last two
stores of a publication that has begun, unless the writer is killed in it: nothing makes
a writer start, publish or end.  `CatchUp` of `ShmRing` speaks of a producer that pauses
between publications, which the bounds make it do: fairness of `Store` means that it is
not killed inside one, a case which is left to `CatchUpUnlessHalfPublished`.  Against a
producer that never pauses a reader can be lapped for ever, by design of the ring.

## Findings

1. `publish()` overwrites a slot while its sequence number still names the old
   frame (`shm_ring.h:73-77`), so the re-check at line 106 passes for a reader
   exactly one ring behind: `ring_torn`.  `CopyIsOfHolders` says exactly how far the
   damage goes, and `BatchContiguous` that the sender's packets stay
   contiguous in spite of it.
2. The consumer's idle test is wrong when the wall clock is stepped, forward by more than
   `--idle-ms` or back by anything: `consumer_clock`.

Seen while reading and not run:

- The lap can be spurious: between the two stores at `shm_ring.h:77-78` `resume_at` equals
  the reader's own position, so `kLapped` skips nothing.  It is harmless for safety
  (`LapTheorem`) and ends with the producer's next store (`CatchUp`).  If the producer is
  killed before that store, it does not end: the reader stays lapped at its own `resume_at`,
  although `shm_ring.h:88-89` calls it a safe position to jump to (`LappedForEver` of
  `SegmentLifecycle`).
- A consumer started first finds no segment and exits (`shm_segment.h:23-27`), although
  `harness/README.md:126-128` offers to start it first.
- `SOLUTION.md` says the receiver validates Ethernet, IPv4 and UDP, while the parser
  checks the LLDT prefix at offset 42 only (`WIRE_PROTOCOL.md` calls the outer shape a
  deployment contract).
- The comment at `dpdk_tx_port.cpp:16` says 1024 descriptors where the constant is 512.

## Proofs

`ShmRingProofs` proves, for every number of slots, readers and words and without
a bound on the frames that matters (`MaxPublish` is arbitrary):

- `TypeCorrect`: the type invariant.
- `SafetyInvariant`: `Inv`, the conjunction of `SlotCarriesLastFrame` (a slot's
  sequence number is that of the last committed frame that maps to it),
  `BytesFollowSeq` (its bytes are of that frame or of the one being published),
  `LappedStaysLapped`, `CopyIsOfHolders` and `CursorInLog`.  The parts are
  inductive only together.  What a reader copies is safe because of what the
  slots hold; that a lapped reader does not go back needs that sequence numbers
  of one slot are a whole ring apart; the order of delivery needs cursors that
  never go back.
- `SlotTheorem`, `BytesTheorem`, `LapTheorem`, `CursorTheorem`, `CopyTheorem`,
  `EmptyTruthful`, `InOrder`: the parts of `Inv` and the read guarantees, from `Inv`.
- `Refinement`: `ShmRing` implements `BroadcastLog`.  `StoreSeq` commits a frame,
  `RecheckOk` delivers, `LoadEdge` skips; every other step stutters.

The arithmetic of the slots is in five lemmas on `%` at the top of the module:
two frames of one slot are at least a ring apart (`SameSlotIsFar`), one ring
further is the same slot (`NextRound`).  Assumptions: `Slots` is positive,
`FromEdge` is a set of readers, `frame_len` is not a word.

`ReceiverProofs` proves, for every size of burst, RX ring and pool, every number of
records per packet and every behaviour of the network:

- `TypeCorrect`, from `Typed`: that a packet being written has a `data_seq`
  (`InHand`) is needed for `next_data_seq` to be a number.
- `NoMbufLost`: `MbufsConserved`, from `MbufInv`, which adds that ring and burst keep
  their bounds and that the loop polls with an empty burst.
- `Accounting`: `PacketsAccounted`, inductive with `Typed`.
- `Refinement`: `Receiver` implements `LossyChannel`.  `OrderInv` adds that only
  what was sent is under way (`OnlySent`) and that `next_data_seq` is one more than
  the last packet accepted, which is the largest (`Expecting`).
- `Missing`: `MissingIsExact`, from `OrderInv` and the lemma `OneMore`: a packet
  after the last adds exactly the data sequences in between to the missing ones.
- `Whole`: `WholePackets`, which flattens a sequence of packets.  The lemmas before it
  show that `FlattenSeq` is the last of the partial concatenations (`FlattenIsJoined`) and
  that a sequence more at the end adds its elements (`FlattenAppend`).  `WholePackets` is
  then inductive with `OrderInv` and `PacketsAccounted`: a record more extends the last
  sequence only (`PartsWriting`), and the end of a packet makes it one of the complete ones.

Assumptions: sizes are natural numbers, a packet has at least one record
(`ReceiverAssumption`).  The bounds `MaxSent`, `MaxCopies` and `MaxForeign` are
arbitrary.

`SenderProofs` proves, for every ring size, table of frame sizes, payload capacity, pool
and TX ring:

- `TypeCorrect`; `Hands`: `HandInv` says which of `packet` and `carry_frame` is in use at
  each point of the loop, and is what the others rest on.
- `Mbufs` (`MbufsConserved` is inductive with the types) and `Accounting`
  (`EveryFrameAccounted`, with `FreshStart`: nothing was counted before the attach).
- `Wire`: `GapsOnWireAreUnsent`.
- `NewestFrame`: the frame in hand is the last one admitted.  A torn read can push
  `prev_valid_` one ring ahead; the invariant bounds it by `read_index + Slots`, and
  by one less than the torn number of the frame in hand when that frame is its own.
  Hence the next frame either begins after a gap or is the neighbour of the last
  (`JoinsNeighbour`), which gives `Batches` (`BatchContiguous`); and the reader's one
  buffer holds the frame in hand, which gives `Fresh` (`ViewsAreFresh`).
- `Missing`: `MissingIsExact`.  `MissInv` keeps the counter equal to what lies between
  the first and the last admitted frame, less the number admitted.
- `Order` and `SentOnce`: `SentOnceInOrder`.  `OrderInv` keeps the packets on the wire in
  order among themselves and before those in hand, and every frame below `read_index`
  (`Kept`), so that the next one admitted goes behind them all.

`ConsumerProofs` proves type correctness, `Once` and `Samples` from `CountInv` (frames got
lie between the start and the cursor), `Drops` from `Sequence` (sequence numbers in
the log grow, and without a torn read `received` counts distinct ones), and `Idle`
(`IdleUnlessStepped`: while the clock was not stepped since the last frame, the silence is
the time since `last_progress`, or both are beyond the idle time).

`SegmentProofs` proves, for any slot count, number of lives and length of a life, `IInv`
of four parts.  `Typed` adds that a program at work has its file and that a copy stays in
the mapping.  `FileInv`: the stores of an initialisation that are no longer to come have
had their effect, and once it is over every slot that is not empty holds a frame of this
life below `LogEnd`, which is one more than `write_index` after a kill between the
stores.  `ReadInv`: the life a frame was polled in is not later than what its slot or copy
holds, a reader that attached to an initialised segment has a good mask, and the life it
attached to is not later than the last one initialised there.
`ScriptInv`: under `run_pair.ps1` no inode is initialised twice, and the line was seen only
of a writer whose initialisation is over and whose file is linked.  `ThisLife`, `Bounds`,
`Ahead` and `Script` follow.

`PipelineProofs` proves, for any number of frames, packets under way and restarts, `IInv`:
every packet still to be seen was sent, and a later one begins behind the last frame of an
earlier one (`SeenInv`); the receiver expects the number after its last and its counter is
what lies between (`SequenceInv`); on a network that keeps the order the packets accepted
and under way are in the order of sending (`LineUp`); and the output ends with the last
accepted packet (`OutputInv`).  `Sequence`, `Output` and `StalePackets` follow.
`MissingPackets` (`MissingIsUnsentOrLost`) needs in addition `Covered`: on such a network
every number sent since a packet that is still seen is gone or seen itself, and none is
both.  No two places hold one packet (`OnePlace`), hence the numbers between the first and
the last accepted that were not accepted are the gone ones (`GoneIsSkipped`), and their
cardinality is the counter.

`EndpointProofs` proves, for any number of processes, type correctness and `IInv`: a
process past EAL holds the lock (`LockInv`); what it owns follows from its stage and
step (`StageInv`); and the name is linked to the segment of the process that holds the
lock, if any (`LinkInv`).  `PoolTheorem`, `ReleaseTheorem` and `LinkTheorem` follow with
it, and `StatusTheorem` from `Progress`.  `HardExitTheorem` speaks of the receivers and
`SenderExitTheorem` of the senders, in any mix of both.

About the command line it proves, for any width of the slot count, any largest port, any
numbers, addresses and MAC addresses and any number of arguments, `Parser`
(`AcceptsExactlySound`).  `ParserInv` says that while the loop runs nothing odd was met, a
flag that is not set had no argument, and one that is set had one, which is valid and
whose value is in the configuration.  It rests on `HandlersRead`: each handler reads
exactly the value of a valid argument.  For the slot count that is `PowerOfTwoTest`: a
number shares no bit with its predecessor exactly if it is a power of two, by its highest
bit (`HighestBit`) in one direction and `PowerMultiple` in the other.

`FormatProofs` proves, for any frame sizes from 24 to 1450 bytes and any address
words, `ChecksumVerifies`: the header checksum computed with a single fold verifies for
every total length, because ten words whose first are fixed cannot carry twice out of
that fold in a way that matters; and from it `HeadersVerify` for every packet sent.
`ArrivesComplete` (`ArrivesWhole`) rests on `Placed`: there are offsets, one for each
frame and each the end of the one before, at which the frames' headers can be read and no
stale one can.  The receiver's walk, a recursive function, meets these offsets
(`WalkMeets`, by induction with `SameWalk`), and the recursive sum of the bytes ends
where the builder stopped (`BytesPlaced`).

About the producer it proves, for any rate, count, width of the delta and number of times the clock
is set back: `Schedule` (`NeverEarly`) from `PacedInv`, which ties `next_send` to the
start and the number of frames; `ExchangeTime` (`ExchangeTimeSurvives`) and `MarketData`
(`SameMarketData`) from `FrameInv`, which says that the buffer holds the frame of `seq`
from its building to that of the next; the comparison of the two profiles is then one
lemma for each type (`TradeSays`, `BboSays`, `BookSays`), for every sequence number;
and `Aggregates` (`AggregatesSurviveLoss`) from `TotalsInv`, with the reference sum a
recursive function again.

Induction over data.  The library's induction theorems take an operator as a parameter
and cannot be used, but induction on the natural numbers for *sets* of numbers can be
derived from what the library proves about cardinality: `NatInduct`, at the head of the
sections that need it.  With it a recursive function is shown to exist, to be determined
by its equations (`SameWalk`, `JoinedUnique`), and to grow by one step at a time.

Assumptions are those named `...Assumption` in the modules: sizes are natural numbers,
a ring has a slot, a frame fits a packet.  TLC evaluates them on every run.

Only model-checked: everything about liveness.  Every invariant and action property of
the runs that pass is proved.

Only proved, and in no run of their own: the type invariants, the parts of `Inv` of the
ring, `DeliveredInOrder`, `ReceivedOnce`, `StaleMeansRestart` and the exits of `Endpoint`
(`HardExitIsEarly`, `SenderHardExit`, `StatusIsHonest`).

## Not modelled

- The argument parsers of producer and consumer, usage texts, printed statistics, plots
  and reports, building and copying: wording and I/O without state of interest.
- The percentiles, mean and drop rate of the consumer's report, computed on doubles from
  a sorted copy of the samples, its CSV file and its exit status.
- `magic` and `slot_size` of the ring header, which nothing reads; a change of the slot
  count between two lives of a segment; two writers given one name by mistake, other
  than the receivers of `Endpoint`.
- The choice of port and queue parameters from the device's information is one step
  that may fail.
- Producer without `--count`, which never ends; identifiers, update ids and the
  synthetic checksum of messages, which follow from `seq_id` alone.
- EAL, the NIC and the kernel are modelled by what the code uses of them.
