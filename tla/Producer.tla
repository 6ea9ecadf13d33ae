------------------------------ MODULE Producer ------------------------------
(***************************************************************************)
(* The producer of the harness in the Compact profile: its pacing, its two *)
(* readings of the clock for a frame, the fields it narrows and the        *)
(* running totals it keeps over Trade frames.  The messages of the Raw     *)
(* profile (RawMessage), which carry every field at full width, are the    *)
(* reference for what a Compact frame must say.                            *)
(*                                                                         *)
(* A reader takes any subset of the frames: publish() and everything after *)
(* it may lose some.  Fixed texts, the notional total, which is summed as  *)
(* the quantity is, and what follows from seq_id alone (trade and order    *)
(* ids, update ids, the synthetic checksum) are left out.                  *)
(***************************************************************************)
EXTENDS Integers, Sequences, FiniteSets

CONSTANTS Options,     \* <<count, interval_ns>> a run may be started with
          kind,        \* --type
          MaxSetBacks, \* bound: how often the wall clock is set back
          DeltaRange,  \* number of values of exchange_ts_delta_ns: 2^32
          MaxTime,     \* bound: the latest time
          MaxReads     \* bound: the last frame the reader looks at

ASSUME ProducerAssumption ==
  /\ Options \subseteq (Nat \ {0}) \X Nat /\ MaxSetBacks \in Nat
  /\ kind \in {"trade", "bbo", "book", "mixed"}
  /\ DeltaRange \in Nat \ {0} /\ DeltaRange % 2 = 0
  /\ MaxTime \in Nat /\ MaxReads \in Nat

VARIABLES count,       \* --count, not 0
          interval_ns, \* the interval of --rate, or 0
          stage,       \* "start", "pace", "build", "stamp", "publish", "done"
          now,         \* the wall clock
          setBacks,    \* history: how often it was set back
          start,       \* history: the time the pacing began
          next_send,
          seq,
          totals,      \* compact_trade_state
          exchange,    \* exchange_ts_ns of the frame being built
          frame,       \* the frame buffer
          seen         \* the last Trade frame the reader got

options == <<count, interval_ns>>
producerVars == <<options, stage, now, setBacks, start, next_send, seq, totals, exchange, frame, seen>>

\* Conversions to an unsigned and to a signed field of so many values.
Unsigned(x, range) == x % range

Signed(x, range) == ((x + range \div 2) % range) - range \div 2

Levels == 0..4

kindOf(s) ==
  IF kind # "mixed" THEN kind
  ELSE <<"trade", "bbo", "book">>[(s % 3) + 1]

mid(s) == 6500000 + (s % 500) * 50
lots(s) == 1 + (s % 100) * 10

\* The messages of the Raw profile.  Its builders compute with doubles, whose
\* truncation gives these values for every s.
RawTrade(s) ==
  [price |-> mid(s), quantity |-> lots(s), tick_direction |-> s % 4, aggressor_side |-> s % 2]

RawBbo(s) ==
  [price |-> [bids |-> mid(s) - 50, asks |-> mid(s) + 50],
   size |-> [bids |-> 1500 + (s % 50) * 100, asks |-> 1500 + ((s + 7) % 50) * 100],
   order_count |-> [bids |-> 3 + (s % 10), asks |-> 3 + ((s + 3) % 10)]]

RawBook(s) ==
  [price |-> [bids |-> [i \in Levels |-> mid(s) - 50 - 100 * i],
              asks |-> [i \in Levels |-> mid(s) + 50 + 100 * i]],
   size |-> [bids |-> [i \in Levels |-> 1000 + ((s + i) % 40) * 100],
             asks |-> [i \in Levels |-> 1000 + ((s + i + 5) % 40) * 100]],
   order_count |-> [bids |-> [i \in Levels |-> 2 + ((s + i) % 8)],
                    asks |-> [i \in Levels |-> 2 + ((s + i + 5) % 8)]],
   is_snapshot |-> TRUE]

RawMessage(s) ==
  CASE kindOf(s) = "trade" -> RawTrade(s)
    [] kindOf(s) = "bbo" -> RawBbo(s)
    [] kindOf(s) = "book" -> RawBook(s)

\* The bodies and flags build_trade(), build_bbo() and build_book() write.
TradeBody(s, sums) ==
  [flags |-> Unsigned((s % 4) * 32, 2^8) + (s % 2),
   price_ticks |-> mid(s), quantity_lots |-> lots(s), cumulative |-> sums]

BboBody(s) ==
  [flags |-> 0, bid_price_ticks |-> mid(s) - 50, spread_ticks |-> Unsigned(100, 2^16),
   bid_size_lots |-> Unsigned(1500 + (s % 50) * 100, 2^16),
   ask_size_lots |-> Unsigned(1500 + ((s + 7) % 50) * 100, 2^16),
   bid_order_count |-> Unsigned(3 + (s % 10), 2^16), ask_order_count |-> Unsigned(3 + ((s + 3) % 10), 2^16)]

\* Mutant of BookBody: the offsets of the deeper levels are one byte wide.
BookBodyNarrow(s) ==
  LET side(top, shift) ==
        [top |-> top, offset |-> [i \in Levels \ {0} |-> Unsigned(i * 100, 2^8)],
         size |-> [i \in Levels |-> Unsigned(1000 + ((s + i + shift) % 40) * 100, 2^16)],
         order_count |-> [i \in Levels |-> Unsigned(2 + ((s + i + shift) % 8), 2^16)]]
  IN [flags |-> 16, bids |-> side(mid(s) - 50, 0), asks |-> side(mid(s) + 50, 5)]

BookBody(s) ==
  LET side(top, shift) ==
        [top |-> top, offset |-> [i \in Levels \ {0} |-> Unsigned(i * 100, 2^16)],
         size |-> [i \in Levels |-> Unsigned(1000 + ((s + i + shift) % 40) * 100, 2^16)],
         order_count |-> [i \in Levels |-> Unsigned(2 + ((s + i + shift) % 8), 2^16)]]
  IN [flags |-> 16, bids |-> side(mid(s) - 50, 0), asks |-> side(mid(s) + 50, 5)]

Body(s, sums) ==
  CASE kindOf(s) = "trade" -> TradeBody(s, sums)
    [] kindOf(s) = "bbo" -> BboBody(s)
    [] kindOf(s) = "book" -> BookBody(s)

\* What a Compact body and its flags say, by the field comments of the structures.
SaidTrade(b) ==
  [price |-> b.price_ticks, quantity |-> b.quantity_lots,
   tick_direction |-> (b.flags \div 32) % 4, aggressor_side |-> b.flags % 2]

SaidBbo(b) ==
  [price |-> [bids |-> b.bid_price_ticks, asks |-> b.bid_price_ticks + b.spread_ticks],
   size |-> [bids |-> b.bid_size_lots, asks |-> b.ask_size_lots],
   order_count |-> [bids |-> b.bid_order_count, asks |-> b.ask_order_count]]

SaidBook(b) ==
  LET away(sd, i) == IF i = 0 THEN 0 ELSE b[sd].offset[i] IN
    [price |-> [bids |-> [i \in Levels |-> b.bids.top - away("bids", i)],
                asks |-> [i \in Levels |-> b.asks.top + away("asks", i)]],
     size |-> [bids |-> b.bids.size, asks |-> b.asks.size],
     order_count |-> [bids |-> b.bids.order_count, asks |-> b.asks.order_count],
     is_snapshot |-> (b.flags \div 16) % 2 = 1]

Decode(f) ==
  CASE f.type = "trade" -> SaidTrade(f.body)
    [] f.type = "bbo" -> SaidBbo(f.body)
    [] f.type = "book" -> SaidBook(f.body)

\* Mutant of exchange_ts_ns: a negative delta is negated at its own width.
exchange_ts_narrow(f) ==
  IF f.delta >= 0 THEN f.send_ts - f.delta
  ELSE f.send_ts + Signed(-f.delta, DeltaRange)

\* exchange_ts_ns(): the reader's side of the delta.
exchange_ts_ns(f) ==
  IF f.delta >= 0 THEN f.send_ts - f.delta
  ELSE f.send_ts + Unsigned(-f.delta, DeltaRange)

frame_size(type) == [trade |-> 64, bbo |-> 48, book |-> 96][type]
-----------------------------------------------------------------------------
ProducerInit ==
  /\ \E o \in Options : count = o[1] /\ interval_ns = o[2]
  /\ stage = "start" /\ now \in 0..MaxTime /\ setBacks = 0 /\ start = 0 /\ next_send = 0 /\ seq = 0
  /\ totals = [quantity |-> 0, trades |-> 0]
  /\ exchange = 0 /\ frame = <<>> /\ seen = <<>>

\* Bound: only the clock of a paced run moves.
Tick ==
  /\ interval_ns # 0
  /\ now < MaxTime /\ now' \in (now + 1)..MaxTime
  /\ UNCHANGED <<options, stage, setBacks, start, next_send, seq, totals, exchange, frame, seen>>

SetBack ==
  /\ interval_ns # 0
  /\ setBacks < MaxSetBacks /\ setBacks' = setBacks + 1
  /\ now' \in {t \in 0..MaxTime : t < now}
  /\ UNCHANGED <<options, stage, start, next_send, seq, totals, exchange, frame, seen>>

\* The bound on time leaves room for the whole schedule.
Start ==
  /\ stage = "start" /\ stage' = "pace"
  /\ now + count * interval_ns <= MaxTime
  /\ start' = now /\ next_send' = now
  /\ UNCHANGED <<options, now, setBacks, seq, totals, exchange, frame, seen>>

\* Mutant of Pace: the producer does not wait.
PaceAtOnce ==
  /\ stage = "pace" /\ seq < count
  /\ next_send' = next_send + interval_ns
  /\ seq' = seq + 1 /\ stage' = "build"
  /\ UNCHANGED <<options, now, setBacks, start, totals, exchange, frame, seen>>

\* The spin until next_send, and the number of the next frame.
Pace ==
  /\ stage = "pace" /\ seq < count
  /\ interval_ns # 0 => now >= next_send
  /\ next_send' = IF interval_ns # 0 THEN next_send + interval_ns ELSE next_send
  /\ seq' = seq + 1 /\ stage' = "build"
  /\ UNCHANGED <<options, now, setBacks, start, totals, exchange, frame, seen>>

\* Mutant of Totals: a reader is to add up what it gets.
TotalsOfOne == [quantity |-> lots(seq), trades |-> 1]

Totals == [quantity |-> totals.quantity + lots(seq), trades |-> totals.trades + 1]

\* The builder reads the clock and fills the body.
Build ==
  /\ stage = "build" /\ stage' = "stamp"
  /\ exchange' = now
  /\ totals' = IF kindOf(seq) = "trade" THEN Totals ELSE totals
  /\ frame' = [seq_id |-> seq, type |-> kindOf(seq), send_ts |-> 0, delta |-> 0,
               len |-> frame_size(kindOf(seq)),
               body |-> Body(seq, totals')]
  /\ UNCHANGED <<options, now, setBacks, start, next_send, seq, seen>>

\* fill_header(): the second reading of the clock, "as late as possible".
Stamp ==
  /\ stage = "stamp" /\ stage' = "publish"
  /\ frame' = [frame EXCEPT !.send_ts = now, !.delta = Signed(now - exchange, DeltaRange)]
  /\ UNCHANGED <<options, now, setBacks, start, next_send, seq, totals, exchange, seen>>

\* publish(), and a reader that gets the frame or never does.
Publish ==
  /\ stage = "publish" /\ stage' = "pace"
  /\ \/ UNCHANGED seen
     \/ frame.type = "trade" /\ seq <= MaxReads /\ seen' = <<frame>>
  /\ UNCHANGED <<options, now, setBacks, start, next_send, seq, totals, exchange, frame>>

Finish ==
  /\ stage = "pace" /\ seq = count /\ stage' = "done"
  /\ UNCHANGED <<options, now, setBacks, start, next_send, seq, totals, exchange, frame, seen>>

Step == Start \/ Pace \/ Build \/ Stamp \/ Publish \/ Finish

ProducerNext == Tick \/ SetBack \/ Step

ProducerSpec == ProducerInit /\ [][ProducerNext]_producerVars

(***************************************************************************)
(* Properties                                                              *)
(***************************************************************************)

Stamped == stage \in {"publish", "pace", "done"} /\ seq > 0

\* With a clock that only goes forward, frame n never leaves before the n-th slot
\* of the schedule, even after the producer was held up and hurries: --rate is
\* the highest rate over any time since the start.
NeverEarly ==
  setBacks = 0 /\ Stamped => frame.send_ts >= start + (seq - 1) * interval_ns

\* The reader recovers the exchange time from the header whenever the clock
\* moved by less than half the range of the delta between the two readings,
\* forward or back (message_compact.hpp 106-108).
ExchangeTimeSurvives ==
  Stamped /\ frame.send_ts - exchange \in -(DeltaRange \div 2)..(DeltaRange \div 2 - 1)
    => exchange_ts_ns(frame) = exchange

\* A Compact frame says the same of prices, sizes, counts and flags as the Raw
\* message of its number, although most of its fields are narrower, and its
\* length is the one its type implies (message_compact.hpp 9-31).
SameMarketData ==
  Stamped => Decode(frame) = RawMessage(seq) /\ frame.len = frame_size(frame.type)

Trades(from, to) == {s \in from..to : kindOf(s) = "trade"}

QuantityUpTo(n) ==
  LET sum[s \in 0..n] ==
        IF s = 0 THEN 0 ELSE sum[s-1] + (IF kindOf(s) = "trade" THEN lots(s) ELSE 0)
  IN  sum[n]

\* "Trade keeps cumulative values so aggregate state can recover after loss"
\* (message_compact.hpp 13): whatever a reader missed, the totals of the last
\* Trade it got cover every Trade sent up to then.
AggregatesSurviveLoss ==
  seen # <<>> =>
    LET f == seen[1]
    IN /\ f.body.cumulative.trades = Cardinality(Trades(1, f.seq_id))
       /\ f.body.cumulative.quantity = QuantityUpTo(f.seq_id)
=============================================================================
