------------------------------ MODULE Consumer ------------------------------
(***************************************************************************)
(* The consumer process (harness/src/consumer.cpp) with its                *)
(* metrics::Accumulator (harness/include/metrics.h): it follows the output *)
(* ring, counts what it gets and what it must have missed, and leaves      *)
(* after --count frames or when the ring has been silent for --idle-ms of  *)
(* wall-clock time.                                                        *)
(*                                                                         *)
(* The ring is filled by a receiver: sequence numbers grow from frame to   *)
(* frame and may leave gaps.  A ring read has the outcomes of              *)
(* BroadcastContract.  The clock ticks; util::now_ns() is system_clock, so *)
(* it may also be stepped, forward or back, without any time passing.      *)
(***************************************************************************)
EXTENDS BroadcastContract, Sequences, FiniteSetsExt

CONSTANTS Counts,       \* what --count may be; 0 means no limit
          idle_ns,      \* --idle-ms, in ticks of the clock
          DefaultCapacity, \* DEFAULT_SAMPLE_CAPACITY
          TimeWrap,     \* 2^64 of the unsigned time difference, scaled
          MaxPublish,   \* bound: frames published
          MaxGap,       \* bound: distance of neighbouring sequence numbers
          MaxTime       \* bound: the latest time

ASSUME ConsumerAssumption ==
  /\ Counts \subseteq Nat
  /\ DefaultCapacity \in Nat /\ idle_ns \in Nat
  /\ MaxPublish \in Nat /\ MaxGap \in Nat
  /\ MaxTime \in Nat /\ TimeWrap \in Nat /\ TimeWrap > MaxTime

VARIABLES count, from_edge,  \* the command line
          log,           \* log[n+1]: seq_id of frame n of the output ring
          now,           \* the wall clock
          stepped,       \* history: the wall clock was stepped since last_progress
          silence,       \* history: time passed since the consumer last got a frame
          pc,            \* before attaching, reading, before the idle check, left
          start,         \* history: the first read_index
          read_index,
          last_progress,
          received, first_seq, last_seq, stored, overflow,  \* Accumulator
          got,           \* history: the frames received
          torn,          \* history: a read was not of its own frame only
          exit           \* why the loop was left

accumulator == <<received, first_seq, last_seq, stored, overflow>>
options == <<count, from_edge>>
vars == <<options, log, now, stepped, silence, pc, start, read_index, last_progress,
          accumulator, got, torn, exit>>

published == Len(log)
seq_id(n) == log[n + 1]
sample_capacity == IF count # 0 THEN count ELSE DefaultCapacity

Init ==
  /\ count \in Counts /\ from_edge \in BOOLEAN
  /\ log = <<>> /\ now = 0 /\ stepped = FALSE /\ silence = 0
  /\ pc = "attach" /\ start = 0 /\ read_index = 0 /\ last_progress = 0
  /\ received = 0 /\ first_seq = 0 /\ last_seq = 0 /\ stored = 0 /\ overflow = 0
  /\ got = {} /\ torn = FALSE /\ exit = "none"
-----------------------------------------------------------------------------
(* The receiver and the clock *)

consumerVars == <<options, pc, start, read_index, last_progress, accumulator, got, torn,
                  exit>>

Publish ==
  /\ published < MaxPublish
  /\ \E d \in 1..MaxGap :
       log' = Append(log, IF log = <<>> THEN d ELSE log[published] + d)
  /\ UNCHANGED <<now, stepped, silence, consumerVars>>

\* Time passes: the clock and the silence advance together.  silence is only
\* compared with idle_ns and saturates beyond it.
Tick ==
  /\ now < MaxTime
  /\ now' = now + 1
  /\ silence' = IF silence > idle_ns THEN silence ELSE silence + 1
  /\ UNCHANGED <<log, stepped, consumerVars>>

\* The clock is stepped to another time; no time passes.
StepClock ==
  /\ stepped' = TRUE
  /\ now' \in 0..MaxTime \ {now}
  /\ UNCHANGED <<log, silence, consumerVars>>
-----------------------------------------------------------------------------
(* main() *)

Attach ==
  /\ pc = "attach"
  /\ IF from_edge THEN read_index' \in LiveEdges(published) ELSE read_index' = 0
  /\ start' = read_index'
  /\ last_progress' = now /\ stepped' = FALSE /\ silence' = 0
  /\ pc' = "read"
  /\ UNCHANGED <<options, log, now, accumulator, got, torn, exit>>

WantsMore == count = 0 \/ received < count

Reached ==
  /\ pc = "read"
  /\ ~WantsMore
  /\ pc' = "done" /\ exit' = "count"
  /\ UNCHANGED <<options, log, now, stepped, silence, start, read_index,
                 last_progress, accumulator, got, torn>>

\* Mutant of Record: there always is room for a sample.
RecordUnbounded(id) ==
  /\ first_seq' = IF received = 0 \/ id < first_seq THEN id ELSE first_seq
  /\ last_seq' = IF received = 0 \/ id > last_seq THEN id ELSE last_seq
  /\ received' = received + 1
  /\ stored' = stored + 1 /\ UNCHANGED overflow

\* Mutant of Record: the highest number is only taken from the first frame.
RecordNoLast(id) ==
  /\ first_seq' = IF received = 0 \/ id < first_seq THEN id ELSE first_seq
  /\ last_seq' = IF received = 0 THEN id ELSE last_seq
  /\ received' = received + 1
  /\ IF stored = sample_capacity
       THEN overflow' = overflow + 1 /\ UNCHANGED stored
       ELSE stored' = stored + 1 /\ UNCHANGED overflow

\* Accumulator::record()
Record(id) ==
  /\ first_seq' = IF received = 0 \/ id < first_seq THEN id ELSE first_seq
  /\ last_seq' = IF received = 0 \/ id > last_seq THEN id ELSE last_seq
  /\ received' = received + 1
  /\ IF stored = sample_capacity
       THEN overflow' = overflow + 1 /\ UNCHANGED stored
       ELSE stored' = stored + 1 /\ UNCHANGED overflow

\* The seq_id a kOk read at read_index may return: one ring behind, also that of
\* the frame being published.
SeenIds ==
  {seq_id(read_index)}
    \cup {id \in log[published]+1..log[published]+MaxGap : published = read_index + Slots}

\* Mutant of ReadOk: progress is not noted.
ReadOkNoProgress ==
  /\ pc = "read" /\ WantsMore
  /\ IsReadable(published, read_index)
  /\ \E id \in SeenIds :
       Record(id) /\ torn' = (torn \/ id # seq_id(read_index))
  /\ got' = got \cup {read_index}
  /\ read_index' = read_index + 1
  /\ stepped' = FALSE /\ silence' = 0
  /\ UNCHANGED <<options, log, now, pc, start, last_progress, exit>>

ReadOk ==
  /\ pc = "read" /\ WantsMore
  /\ IsReadable(published, read_index)
  /\ \E id \in SeenIds :
       Record(id) /\ torn' = (torn \/ id # seq_id(read_index))
  /\ got' = got \cup {read_index}
  /\ read_index' = read_index + 1
  /\ last_progress' = now /\ stepped' = FALSE /\ silence' = 0
  /\ UNCHANGED <<options, log, now, pc, start, exit>>

ReadLapped ==
  /\ pc = "read" /\ WantsMore
  /\ IsLapped(published, read_index)
  /\ read_index' \in ResumePoints(published)
  /\ UNCHANGED <<options, log, now, stepped, silence, pc, start, last_progress,
                 accumulator, got, torn, exit>>

ReadEmpty ==
  /\ pc = "read" /\ WantsMore
  /\ IsEmpty(published, read_index)
  /\ pc' = "idle"
  /\ UNCHANGED <<options, log, now, stepped, silence, start, read_index,
                 last_progress, accumulator, got, torn, exit>>

\* now_ns() - last_progress is unsigned.
Elapsed == (now - last_progress) % TimeWrap

IdleCheck ==
  /\ pc = "idle"
  /\ IF Elapsed > idle_ns THEN pc' = "done" /\ exit' = "idle"
                          ELSE pc' = "read" /\ UNCHANGED exit
  /\ UNCHANGED <<options, log, now, stepped, silence, start, read_index,
                 last_progress, accumulator, got, torn>>
-----------------------------------------------------------------------------
Next ==
  \/ Publish \/ Tick \/ StepClock
  \/ Attach \/ Reached \/ ReadOk \/ ReadLapped \/ ReadEmpty \/ IdleCheck

Spec == Init /\ [][Next]_vars
-----------------------------------------------------------------------------
(* Accumulator::report() and the properties *)

expected == last_seq - first_seq + 1
dropped == IF expected > received THEN expected - received ELSE 0

TypeOK ==
  /\ count \in Nat /\ from_edge \in BOOLEAN /\ stepped \in BOOLEAN
  /\ log \in Seq(Nat) /\ now \in 0..MaxTime /\ silence \in Nat
  /\ pc \in {"attach", "read", "idle", "done"}
  /\ start \in Nat /\ read_index \in Nat /\ last_progress \in 0..MaxTime
  /\ received \in Nat /\ first_seq \in Nat /\ last_seq \in Nat
  /\ stored \in Nat /\ overflow \in Nat
  /\ got \in SUBSET Nat /\ torn \in BOOLEAN /\ exit \in {"none", "count", "idle"}

\* The sequence numbers that reached the accumulator.
SeenSeqs == {seq_id(n) : n \in got}

\* "dropped" is the number of sequence numbers between the lowest and the highest
\* one seen that never reached the accumulator, whether they were lost before
\* the ring or overwritten in it; frames published before the consumer's first
\* one are not mistaken for loss (harness/README.md 97-100).  Assumes that no
\* read returned bytes of another frame.
DropsAreExact ==
  ~torn /\ received > 0 =>
    dropped = Cardinality((Min(SeenSeqs)..Max(SeenSeqs)) \ SeenSeqs)

\* Each frame is received at most once, however often the consumer is lapped.
ReceivedOnce ==
  /\ received = Cardinality(got)
  /\ \A n \in got : start <= n /\ n < read_index

\* Every received frame is a sample or counted as overflow, the buffer is never
\* overrun, and with --count it is large enough.
SamplesAccounted ==
  /\ received = stored + overflow
  /\ stored <= sample_capacity
  /\ count # 0 => overflow = 0 /\ received <= count

\* "exit after this long with no new messages" (harness/README.md 124).  The code
\* breaks it: see IdleUnlessStepped.
IdleMeansIdle == exit = "idle" => silence > idle_ns

\* What the unsigned difference of wall-clock readings still gives: the consumer
\* leaves for idleness only after the idle time without a frame, unless the wall
\* clock was stepped, forward or back, since the last frame.  Neither laps nor late
\* frames nor a step before the last frame make it leave early.
IdleUnlessStepped == ~stepped => IdleMeansIdle
==============================================================================
