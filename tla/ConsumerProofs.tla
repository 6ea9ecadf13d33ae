--------------------------- MODULE ConsumerProofs ---------------------------
(***************************************************************************)
(* Proofs about Consumer, for every ring size, --count, --idle-ms and      *)
(* capacity, every sequence of gaps and every behaviour of the clock.      *)
(*                                                                         *)
(* LogInv says that sequence numbers grow along the ring; CountInv what    *)
(* the accumulator's counters are worth; SeenInv, which needs both, what   *)
(* its first_seq and last_seq are; ClockInv what the idle test measures.   *)
(***************************************************************************)
EXTENDS Consumer, FiniteSetTheorems, TLAPS

LogInv == \A i, j \in 1..Len(log) : i < j => log[i] < log[j]

CountInv ==
  /\ IsFiniteSet(got)
  /\ ReceivedOnce
  /\ SamplesAccounted
  /\ pc = "attach" => got = {}
  /\ start <= read_index
  /\ \A n \in got : n < Len(log)

\* As long as no read was torn.
SeenInv ==
  ~torn =>
    /\ IsFiniteSet(SeenSeqs)
    /\ Cardinality(SeenSeqs) = received
    /\ \A s \in SeenSeqs : s \in first_seq..last_seq
    /\ received > 0 => first_seq \in SeenSeqs /\ last_seq \in SeenSeqs

\* As long as the clock was not stepped since the last frame.
ClockInv ==
  /\ exit = "idle" => pc = "done"
  /\ ~stepped =>
       /\ pc # "attach" => last_progress <= now
       /\ pc # "attach" /\ now - last_progress > idle_ns => silence > idle_ns
       /\ pc # "attach" /\ now - last_progress <= idle_ns => silence = now - last_progress
       /\ exit = "idle" => silence > idle_ns
-----------------------------------------------------------------------------
(* Types *)

\* The type invariant holds initially.
LEMMA TypeInit == Init => TypeOK
  <1> SUFFICES ASSUME Init PROVE TypeOK
    OBVIOUS
  <1>1. log \in Seq(Nat) /\ now \in 0..MaxTime /\ last_progress \in 0..MaxTime
    BY ConsumerAssumption DEF Init
  <1>2. got \in SUBSET Nat /\ torn \in BOOLEAN /\ stepped \in BOOLEAN
        /\ count \in Nat /\ from_edge \in BOOLEAN
    BY ConsumerAssumption DEF Init
  <1> QED
    BY <1>1, <1>2 DEF Init, TypeOK

\* What a read may return as seq_id is a number.
LEMMA SeenType ==
  ASSUME TypeOK, IsReadable(published, read_index), NEW id \in SeenIds
  PROVE  id \in Nat
  <1>1. published \in Nat /\ read_index + 1 \in 1..Len(log) /\ Len(log) \in 1..Len(log)
    BY SlotsAssumption DEF TypeOK, IsReadable, published
  <1> QED
    BY <1>1 DEF SeenIds, seq_id, TypeOK, published

\* The type invariant is kept by every step.
LEMMA TypeStep == TypeOK /\ [Next]_vars => TypeOK'
  <1> SUFFICES ASSUME TypeOK, [Next]_vars PROVE TypeOK'
    OBVIOUS
  <1> USE ConsumerAssumption, SlotsAssumption DEF TypeOK, options
  <1>1. CASE Publish
    <2>1. PICK d \in 1..MaxGap :
            log' = Append(log, IF log = <<>> THEN d ELSE log[published] + d)
      BY <1>1 DEF Publish
    <2>2. log # <<>> => log[published] \in Nat
      BY DEF published
    <2>3. log' \in Seq(Nat)
      BY <2>1, <2>2
    <2> QED
      BY <1>1, <2>3 DEF Publish, consumerVars, accumulator
  <1>2. CASE Tick
    BY <1>2 DEF Tick, consumerVars, accumulator
  <1>3. CASE StepClock
    BY <1>3 DEF StepClock, consumerVars, accumulator
  <1>4. CASE Attach
    <2>1. read_index' \in Nat /\ start' \in Nat
      BY <1>4 DEF Attach, LiveEdges, published
    <2>2. /\ stepped' \in BOOLEAN /\ silence' = 0 /\ last_progress' = now /\ pc' = "read"
          /\ UNCHANGED <<options, log, now, accumulator, got, torn, exit>>
      BY <1>4 DEF Attach
    <2> QED
      BY <2>1, <2>2 DEF accumulator
  <1>5. CASE Reached
    BY <1>5 DEF Reached, accumulator
  <1>6. CASE ReadOk
    <2>1. PICK id \in SeenIds : Record(id) /\ torn' = (torn \/ id # seq_id(read_index))
      BY <1>6 DEF ReadOk
    <2>2. id \in Nat
      BY <1>6, SeenType DEF ReadOk
    <2>3. torn' \in BOOLEAN
      BY <2>1
    <2>4. received' \in Nat /\ first_seq' \in Nat /\ last_seq' \in Nat
          /\ stored' \in Nat /\ overflow' \in Nat
      BY <2>1, <2>2 DEF Record
    <2>5. /\ stepped' \in BOOLEAN /\ silence' = 0 /\ last_progress' = now
          /\ got' = got \cup {read_index} /\ read_index' = read_index + 1
          /\ UNCHANGED <<options, log, now, pc, start, exit>>
      BY <1>6 DEF ReadOk
    <2> QED
      BY <2>3, <2>4, <2>5
  <1>7. CASE ReadLapped
    BY <1>7 DEF ReadLapped, accumulator, IsLapped, ResumePoints, published
  <1>8. CASE ReadEmpty
    BY <1>8 DEF ReadEmpty, accumulator
  <1>9. CASE IdleCheck
    BY <1>9 DEF IdleCheck, accumulator
  <1>10. CASE UNCHANGED vars
    BY <1>10 DEF vars, accumulator
  <1> QED
    BY <1>1, <1>2, <1>3, <1>4, <1>5, <1>6, <1>7, <1>8, <1>9, <1>10 DEF Next

\* Type correctness, for every value of the constants.
THEOREM TypeCorrect == Spec => []TypeOK
  BY TypeInit, TypeStep, PTL DEF Spec
-----------------------------------------------------------------------------
(* Counting *)

\* CountInv holds initially.
LEMMA CountInit == Init => CountInv
  BY FS_EmptySet, ConsumerAssumption
  DEF Init, CountInv, ReceivedOnce, SamplesAccounted, sample_capacity

\* CountInv is kept by every step.
LEMMA CountStep == TypeOK /\ CountInv /\ [Next]_vars => CountInv'
  <1> SUFFICES ASSUME TypeOK, CountInv, [Next]_vars PROVE CountInv'
    OBVIOUS
  <1> USE ConsumerAssumption, SlotsAssumption
      DEF TypeOK, CountInv, ReceivedOnce, SamplesAccounted, sample_capacity,
          options
  <1>1. CASE Publish
    <2>1. Len(log') = Len(log) + 1
      BY <1>1 DEF Publish
    <2>2. UNCHANGED <<count, received, got, start, read_index, stored, overflow, pc>>
      BY <1>1 DEF Publish, consumerVars, accumulator
    <2>3. \A n \in got : n < Len(log')
      BY <2>1
    <2>4. ReceivedOnce' /\ SamplesAccounted'
      BY <2>2
    <2> QED
      BY <2>2, <2>3, <2>4
  <1>2. CASE Tick
    BY <1>2 DEF Tick, consumerVars, accumulator
  <1>3. CASE StepClock
    BY <1>3 DEF StepClock, consumerVars, accumulator
  <1>4. CASE Attach
    <2>1. read_index' \in Nat /\ start' = read_index'
      BY <1>4 DEF Attach, LiveEdges
    <2>2. UNCHANGED <<count, received, stored, overflow, got, log>> /\ got = {}
      BY <1>4 DEF Attach, accumulator
    <2>3. ReceivedOnce' /\ SamplesAccounted'
      BY <2>2
    <2> QED
      BY <2>1, <2>2, <2>3
  <1>5. CASE Reached
    BY <1>5 DEF Reached, accumulator
  <1>6. CASE ReadOk
    <2>1. PICK id \in SeenIds : Record(id)
      BY <1>6 DEF ReadOk
    <2>2. got' = got \cup {read_index} /\ read_index \notin got
      BY <1>6 DEF ReadOk
    <2>3. IsFiniteSet(got') /\ Cardinality(got') = Cardinality(got) + 1
      BY <2>2, FS_AddElement
    <2>4. received' = received + 1
      BY <2>1 DEF Record
    <2>5. start <= read_index
      OBVIOUS
    <2>6. SamplesAccounted'
      BY <1>6, <2>1 DEF ReadOk, Record, WantsMore
    <2>7. \A n \in got' : start' <= n /\ n < read_index' /\ n < Len(log')
      BY <1>6, <2>2, <2>5 DEF ReadOk, IsReadable, published
    <2> QED
      BY <1>6, <2>3, <2>4, <2>6, <2>7 DEF ReadOk
  <1>7. CASE ReadLapped
    <2>1. read_index' \in Nat /\ read_index <= read_index'
      <3>1. Len(log) \in Nat /\ read_index + Slots < Len(log)
        BY <1>7 DEF ReadLapped, IsLapped, published
      <3>2. read_index' \in {Len(log) - Slots - 1, Len(log) - Slots}
        BY <1>7 DEF ReadLapped, ResumePoints, published
      <3> QED
        BY <3>1, <3>2
    <2>2. UNCHANGED <<count, received, stored, overflow, got, log, start, pc>>
      BY <1>7 DEF ReadLapped, accumulator
    <2>3. \A n \in got : start <= n /\ n < read_index'
      BY <2>1
    <2>4. ReceivedOnce' /\ SamplesAccounted'
      BY <2>2, <2>3
    <2> QED
      BY <2>1, <2>2, <2>4
  <1>8. CASE ReadEmpty
    BY <1>8 DEF ReadEmpty, accumulator
  <1>9. CASE IdleCheck
    BY <1>9 DEF IdleCheck, accumulator
  <1>10. CASE UNCHANGED vars
    BY <1>10 DEF vars, accumulator
  <1> QED
    BY <1>1, <1>2, <1>3, <1>4, <1>5, <1>6, <1>7, <1>8, <1>9, <1>10 DEF Next

\* With TypeOK, inductive: the counters of record() against the frames received.
THEOREM Counting == Spec => []CountInv
  BY TypeCorrect, CountInit, CountStep, PTL DEF Spec

\* No frame of the ring is received twice, however often the consumer is lapped.
THEOREM Once == Spec => []ReceivedOnce
  BY Counting, PTL DEF CountInv

\* record() never overruns its buffer, and with --count never overflows it.
THEOREM Samples == Spec => []SamplesAccounted
  BY Counting, PTL DEF CountInv
-----------------------------------------------------------------------------
(* Sequence numbers *)

\* LogInv holds initially.
LEMMA LogInit == Init => LogInv
  BY DEF Init, LogInv

\* LogInv is kept by every step.
LEMMA LogStep == TypeOK /\ LogInv /\ [Next]_vars => LogInv'
  <1> SUFFICES ASSUME TypeOK, LogInv, [Next]_vars PROVE LogInv'
    OBVIOUS
  <1> USE ConsumerAssumption DEF TypeOK, LogInv
  <1>1. CASE Publish
    <2>1. PICK d \in 1..MaxGap :
            log' = Append(log, IF log = <<>> THEN d ELSE log[published] + d)
      BY <1>1 DEF Publish
    <2> DEFINE n == Len(log)
               new == IF log = <<>> THEN d ELSE log[published] + d
    <2>2. n \in Nat /\ Len(log') = n + 1 /\ log'[n+1] = new
          /\ \A i \in 1..n : log'[i] = log[i]
      BY <2>1
    <2>3. \A i \in 1..n : log[i] < new
      <3> TAKE i \in 1..n
      <3>1. n \in 1..n /\ log # <<>> /\ log[i] \in Nat /\ log[n] \in Nat
        BY <2>2
      <3>2. log[i] <= log[n]
        BY <2>2, <3>1, SMTT(60)
      <3> QED
        BY <3>1, <3>2 DEF published
    <2> HIDE DEF n, new
    <2> SUFFICES ASSUME NEW i \in 1..n+1, NEW j \in 1..n+1, i < j
                 PROVE  log'[i] < log'[j]
      BY <2>2
    <2>4. CASE j = n + 1
      BY <2>2, <2>3, <2>4
    <2>5. CASE j # n + 1
      <3>1. i \in 1..n /\ j \in 1..n
        BY <2>2, <2>5
      <3> QED
        BY <2>2, <3>1 DEF n
    <2> QED
      BY <2>4, <2>5
  <1>2. CASE UNCHANGED log
    BY <1>2
  <1> QED
    BY <1>1, <1>2 DEF Next, Tick, StepClock, Attach, Reached, ReadOk, ReadLapped,
                      ReadEmpty, IdleCheck, vars

\* The numbers of the frames received do not change as the ring fills up.
LEMMA SeenGrows ==
  ASSUME TypeOK, CountInv, Publish
  PROVE  UNCHANGED SeenSeqs
  <1>1. Len(log) \in Nat /\ got' = got /\ \A i \in 1..Len(log) : log'[i] = log[i]
    BY DEF TypeOK, Publish, consumerVars
  <1>2. \A n \in got : n + 1 \in 1..Len(log)
    BY <1>1 DEF TypeOK, CountInv
  <1>3. \A n \in got : seq_id(n)' = seq_id(n)
    BY <1>1, <1>2 DEF seq_id
  <1> QED
    BY <1>1, <1>3 DEF SeenSeqs

\* A frame received without tearing has the highest number so far.
LEMMA SeenNext ==
  ASSUME TypeOK, CountInv, LogInv, IsReadable(published, read_index)
  PROVE  /\ seq_id(read_index) \in Nat
         /\ \A s \in SeenSeqs : s \in Nat /\ s < seq_id(read_index)
  <1>1. Len(log) \in Nat /\ read_index + 1 \in 1..Len(log)
    BY DEF TypeOK, IsReadable, published
  <1>2. \A n \in got : n + 1 \in 1..Len(log) /\ n + 1 < read_index + 1
    BY <1>1 DEF TypeOK, CountInv, ReceivedOnce
  <1>3. \A n \in got : seq_id(n) \in Nat /\ seq_id(n) < seq_id(read_index)
    BY <1>1, <1>2 DEF seq_id, LogInv, TypeOK
  <1> QED
    BY <1>1, <1>3 DEF SeenSeqs, seq_id, TypeOK

\* SeenInv holds initially.
LEMMA SeenInit == Init => SeenInv
  <1> SUFFICES ASSUME Init PROVE SeenInv
    OBVIOUS
  <1>1. SeenSeqs = {} /\ received = 0
    BY DEF Init, SeenSeqs
  <1> QED
    BY <1>1, FS_EmptySet DEF SeenInv

\* SeenInv is kept by every step.
LEMMA SeenStep == TypeOK /\ CountInv /\ LogInv /\ SeenInv /\ [Next]_vars => SeenInv'
  <1> SUFFICES ASSUME TypeOK, CountInv, LogInv, SeenInv, [Next]_vars PROVE SeenInv'
    OBVIOUS
  <1>1. CASE Publish
    BY <1>1, SeenGrows DEF SeenInv, Publish, consumerVars, accumulator
  <1>2. CASE ReadOk
    <2> SUFFICES ASSUME ~torn' PROVE SeenInv'
      BY DEF SeenInv
    <2> DEFINE id == seq_id(read_index)
    <2>1. ~torn /\ Record(id) /\ got' = got \cup {read_index} /\ UNCHANGED log
      BY <1>2 DEF ReadOk, TypeOK
    <2>2. id \in Nat /\ \A s \in SeenSeqs : s \in Nat /\ s < id
      BY <1>2, SeenNext DEF ReadOk
    <2>3. SeenSeqs' = SeenSeqs \cup {id}
      BY <2>1 DEF SeenSeqs, seq_id
    <2>4. IsFiniteSet(SeenSeqs') /\ Cardinality(SeenSeqs') = received + 1
      BY <2>1, <2>2, <2>3, FS_AddElement, SMTT(60) DEF SeenInv
    <2>5. received' = received + 1 /\ received \in Nat
      BY <2>1 DEF Record, TypeOK
    <2>6. CASE received = 0
      <3>1. first_seq' = id /\ last_seq' = id
        BY <2>1, <2>6 DEF Record
      <3>2. SeenSeqs = {}
        BY <2>1, <2>6, FS_EmptySet DEF SeenInv
      <3> QED
        BY <2>2, <2>3, <2>4, <2>5, <3>1, <3>2 DEF SeenInv
    <2>7. CASE received > 0
      <3>1. first_seq \in SeenSeqs /\ last_seq \in SeenSeqs
        BY <2>1, <2>7 DEF SeenInv
      <3>2. first_seq' = first_seq /\ last_seq' = id
        <4> HIDE DEF id
        <4>1. first_seq < id /\ last_seq < id /\ first_seq \in Nat /\ last_seq \in Nat
          BY <2>2, <3>1
        <4> QED
          BY <2>1, <2>2, <2>7, <4>1 DEF Record
      <3>3. \A s \in SeenSeqs' : s \in first_seq'..last_seq'
        BY <2>1, <2>2, <2>3, <3>1, <3>2 DEF SeenInv
      <3> QED
        BY <2>3, <2>4, <2>5, <3>1, <3>2, <3>3 DEF SeenInv
    <2> QED
      BY <2>5, <2>6, <2>7
  <1>3. CASE UNCHANGED <<log, accumulator, got, torn>>
    BY <1>3 DEF SeenInv, SeenSeqs, seq_id, accumulator
  <1> QED
    BY <1>1, <1>2, <1>3 DEF Next, Tick, StepClock, Attach, Reached, ReadLapped,
                            ReadEmpty, IdleCheck, consumerVars, vars

\* LogInv, CountInv and SeenInv are inductive together.
THEOREM Sequence == Spec => [](TypeOK /\ CountInv /\ LogInv /\ SeenInv)
  BY TypeInit, TypeStep, CountInit, CountStep, LogInit, LogStep, SeenInit, SeenStep,
     PTL DEF Spec

\* "dropped" of the report is exactly the number of sequence numbers between the
\* lowest and the highest one seen that did not reach the accumulator (report()
\* and record() of metrics.h), as long as no read was torn.
THEOREM Drops == Spec => []DropsAreExact
  <1>1. TypeOK /\ SeenInv => DropsAreExact
    <2> SUFFICES ASSUME TypeOK, SeenInv, ~torn, received > 0
                 PROVE  dropped = Cardinality((Min(SeenSeqs)..Max(SeenSeqs)) \ SeenSeqs)
      BY DEF DropsAreExact
    <2> DEFINE S == SeenSeqs
               I == first_seq..last_seq
    <2>1. /\ first_seq \in S /\ last_seq \in S /\ first_seq \in Nat /\ last_seq \in Nat
          /\ \A s \in S : s \in I
          /\ IsFiniteSet(S) /\ Cardinality(S) = received /\ received \in Nat
      BY DEF SeenInv, TypeOK
    <2> HIDE DEF S
    <2>2. Min(S) = first_seq /\ Max(S) = last_seq
      <3>1. \A s \in S : s \in Nat /\ first_seq <= s /\ s <= last_seq
        BY <2>1
      <3>2. \E m \in S : \A s \in S : m <= s
        BY <2>1, <3>1
      <3>3. \E m \in S : \A s \in S : m >= s
        BY <2>1, <3>1
      <3>4. Min(S) \in S /\ \A s \in S : Min(S) <= s
        BY <3>2 DEF Min
      <3>5. Max(S) \in S /\ \A s \in S : Max(S) >= s
        BY <3>3 DEF Max
      <3> DEFINE low == Min(S)
                 high == Max(S)
      <3> HIDE DEF low, high
      <3>6. low = first_seq
        <4>1. low \in S /\ low <= first_seq
          BY <2>1, <3>4 DEF low
        <4> QED
          BY <2>1, <3>1, <4>1
      <3>7. high = last_seq
        <4>1. high \in S /\ high >= last_seq
          BY <2>1, <3>5 DEF high
        <4> QED
          BY <2>1, <3>1, <4>1
      <3> QED
        BY <3>6, <3>7 DEF low, high
    <2>3. IsFiniteSet(I) /\ Cardinality(I) = last_seq - first_seq + 1
      <3>1. first_seq <= last_seq
        BY <2>1
      <3> QED
        BY <2>1, <3>1, FS_Interval
    <2>4. Cardinality(I \ S) = Cardinality(I) - Cardinality(S)
      <3>1. I \cap S = S
        BY <2>1
      <3> HIDE DEF I
      <3>2. Cardinality(I \ S) = Cardinality(I) - Cardinality(I \cap S)
        BY <2>3, FS_Difference
      <3> QED
        BY <3>1, <3>2
    <2>5. Cardinality(S) <= Cardinality(I)
      <3>1. S \in SUBSET I
        BY <2>1
      <3> HIDE DEF I
      <3> QED
        BY <2>3, <3>1, FS_Subset
    <2>6. dropped = Cardinality(I \ S)
      BY <2>1, <2>3, <2>4, <2>5 DEF dropped, expected
    <2> QED
      BY <2>2, <2>6 DEF S
  <1> QED
    BY <1>1, Sequence, PTL
-----------------------------------------------------------------------------
(* The idle test *)

\* ClockInv holds initially.
LEMMA ClockInit == Init => ClockInv
  BY DEF Init, ClockInv

\* ClockInv is kept by every step.
LEMMA ClockStep == TypeOK /\ ClockInv /\ [Next]_vars => ClockInv'
  <1> SUFFICES ASSUME TypeOK, ClockInv, [Next]_vars PROVE ClockInv'
    OBVIOUS
  <1> USE ConsumerAssumption DEF TypeOK, ClockInv, options
  <1>1. CASE Publish
    BY <1>1 DEF Publish, consumerVars, accumulator
  <1>2. CASE Tick
    BY <1>2 DEF Tick, consumerVars, accumulator
  <1>3. CASE StepClock
    BY <1>3 DEF StepClock, consumerVars, accumulator
  <1>4. CASE Attach
    BY <1>4 DEF Attach, LiveEdges, accumulator
  <1>5. CASE Reached
    BY <1>5 DEF Reached, accumulator
  <1>6. CASE ReadOk
    BY <1>6 DEF ReadOk, Record
  <1>7. CASE ReadLapped
    BY <1>7 DEF ReadLapped, accumulator, IsLapped, ResumePoints
  <1>8. CASE ReadEmpty
    BY <1>8 DEF ReadEmpty, accumulator
  <1>9. CASE IdleCheck
    <2>1. ~stepped => Elapsed = now - last_progress
      BY <1>9 DEF IdleCheck, Elapsed
    <2> QED
      BY <1>9, <2>1 DEF IdleCheck
  <1>10. CASE UNCHANGED vars
    BY <1>10 DEF vars, accumulator
  <1> QED
    BY <1>1, <1>2, <1>3, <1>4, <1>5, <1>6, <1>7, <1>8, <1>9, <1>10 DEF Next

\* A consumer leaves for idleness only after --idle-ms without a frame, unless the
\* wall clock was stepped since the last frame (main() of consumer.cpp).
THEOREM Idle == Spec => []IdleUnlessStepped
  <1>1. ClockInv => IdleUnlessStepped
    BY DEF ClockInv, IdleUnlessStepped, IdleMeansIdle
  <1> QED
    BY <1>1, TypeCorrect, ClockInit, ClockStep, PTL DEF Spec
=============================================================================
