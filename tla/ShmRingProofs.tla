--------------------------- MODULE ShmRingProofs ---------------------------
(***************************************************************************)
(* Proofs about ShmRing, for any number of slots, readers and words: the   *)
(* inductive invariant behind its safety properties, and that it           *)
(* implements BroadcastLog.                                                *)
(***************************************************************************)
EXTENDS ShmRing, TLAPS

USE SlotsAssumption
-----------------------------------------------------------------------------
(* Which frames share a slot *)

\* Every number is a round and a slot.
LEMMA Division ==
  ASSUME NEW i \in Int
  PROVE  /\ i \div Slots \in Int
         /\ i = (i \div Slots) * Slots + (i % Slots)
         /\ i % Slots \in 0..Slots-1
  BY Z3

\* A positive multiple of Slots is at least Slots.
LEMMA PositiveMultiple ==
  ASSUME NEW d \in Int, d * Slots > 0
  PROVE  d * Slots >= Slots
  <1>1. d >= 1
    BY Z3
  <1>2. (d - 1) * Slots >= 0
    BY <1>1, Z3
  <1> QED
    BY <1>2, Z3

\* A multiple of Slots closer to 0 than Slots is 0.
LEMMA SmallMultiple ==
  ASSUME NEW d \in Int, d * Slots < Slots, -Slots < d * Slots
  PROVE  d = 0
  <1>1. ~(d >= 1)
    <2> SUFFICES ASSUME d >= 1 PROVE FALSE
      OBVIOUS
    <2>1. d * Slots > 0
      BY Z3
    <2> QED
      BY <2>1, PositiveMultiple, Z3
  <1>2. ~(d <= -1)
    <2> SUFFICES ASSUME d <= -1 PROVE FALSE
      OBVIOUS
    <2>1. (-d) * Slots > 0 /\ -d \in Int
      BY Z3
    <2>2. (-d) * Slots >= Slots
      BY <2>1, PositiveMultiple, Z3
    <2> QED
      BY <2>2, Z3
  <1> QED
    BY <1>1, <1>2, Z3

\* Every frame number has a slot of the ring.
LEMMA SlotRange ==
  ASSUME NEW i \in Nat
  PROVE  SlotOf(i) \in 0..Slots-1
  BY Division DEF SlotOf

\* The first Slots frames go to the slots in order.
LEMMA FirstRound ==
  ASSUME NEW i \in 0..Slots-1
  PROVE  SlotOf(i) = i
  BY Z3 DEF SlotOf

\* One ring further is the same slot.
LEMMA NextRound ==
  ASSUME NEW i \in Int, NEW j \in Int, i + Slots = j
  PROVE  SlotOf(j) = SlotOf(i)
  <1> DEFINE qi == i \div Slots
             qj == j \div Slots
             d == qj - qi - 1
  <1>1. /\ qi \in Int /\ i = qi * Slots + (i % Slots) /\ i % Slots \in 0..Slots-1
        /\ qj \in Int /\ j = qj * Slots + (j % Slots) /\ j % Slots \in 0..Slots-1
    BY Division
  <1> HIDE DEF qi, qj
  <1>2. d \in Int /\ d * Slots = (i % Slots) - (j % Slots)
    BY <1>1, Z3
  <1>3. d * Slots < Slots /\ -Slots < d * Slots
    BY <1>1, <1>2, Z3
  <1> HIDE DEF d
  <1>4. d = 0
    BY <1>2, <1>3, SmallMultiple
  <1>5. d * Slots = 0
    BY <1>4, Z3
  <1>6. i % Slots = j % Slots
    BY <1>1, <1>2, <1>5, Z3
  <1> QED
    BY <1>6 DEF SlotOf

\* Two frames of one slot are at least one ring apart.
LEMMA SameSlotIsFar ==
  ASSUME NEW i \in Nat, NEW j \in Nat, SlotOf(i) = SlotOf(j), i < j
  PROVE  i + Slots <= j
  <1> DEFINE d == (j \div Slots) - (i \div Slots)
  <1>1. d \in Int /\ j - i = d * Slots
    BY Division, Z3 DEF SlotOf
  <1>2. d * Slots >= Slots
    BY <1>1, PositiveMultiple, Z3
  <1> QED
    BY <1>1, <1>2, Z3
-----------------------------------------------------------------------------
(* Type correctness *)

\* The initial states are type correct.
LEMMA TypeInit == Init => TypeOK
  BY FirstRound DEF Init, TypeOK, Blank, Nil

\* Every step keeps the types.
LEMMA TypeStep == TypeOK /\ [Next]_vars => TypeOK'
  <1> SUFFICES ASSUME TypeOK, [Next]_vars PROVE TypeOK'
    OBVIOUS
  <1> USE DEF TypeOK
  <1>1. SlotOf(write_index) \in 0..Slots-1
    BY SlotRange
  <1>2. CASE PublishBegin
    BY <1>2 DEF PublishBegin, readerVars
  <1>3. ASSUME NEW f \in Fields, StoreField(f) PROVE TypeOK'
    BY <1>1, <1>3 DEF StoreField, readerVars
  <1>4. CASE StoreSeq
    BY <1>1, <1>4 DEF StoreSeq, readerVars
  <1>5. CASE StoreIndex
    BY <1>5 DEF StoreIndex, readerVars
  <1>6. ASSUME NEW r \in Readers, Read(r) PROVE TypeOK'
    <2>1. CASE Attach(r)
      BY <2>1 DEF Attach, producerVars
    <2>2. CASE PollEmpty(r)
      BY <2>2 DEF PollEmpty, producerVars
    <2>3. CASE PollLapped(r)
      BY <2>3 DEF PollLapped, producerVars
    <2>4. CASE PollReady(r)
      BY <2>4 DEF PollReady, producerVars
    <2>5. ASSUME NEW f \in Fields, CopyField(r, f) PROVE TypeOK'
      <3>1. SlotOf(read_index[r]) \in 0..Slots-1
        BY <1>6, SlotRange
      <3> QED
        BY <2>5, <3>1 DEF CopyField, producerVars
    <2>6. CASE RecheckOk(r)
      BY <2>6 DEF RecheckOk, producerVars, Blank
    <2>7. CASE RecheckLapped(r)
      BY <2>7 DEF RecheckLapped, producerVars, Blank
    <2>8. CASE LoadEdge(r)
      BY <2>8 DEF LoadEdge, producerVars, resume_at
    <2> QED
      BY <1>6, <2>1, <2>2, <2>3, <2>4, <2>5, <2>6, <2>7, <2>8 DEF Read
  <1>7. CASE UNCHANGED vars
    BY <1>7 DEF vars, producerVars, readerVars
  <1> QED
    BY <1>2, <1>3, <1>4, <1>5, <1>6, <1>7 DEF Next, Store

\* Every variable of the ring keeps its type.
THEOREM TypeCorrect == Spec => []TypeOK
  BY TypeInit, TypeStep, PTL DEF Spec
-----------------------------------------------------------------------------
(* The safety invariant.  Its parts are inductive only together: a reader   *)
(* is safe because of what the sequence numbers say about the log, and      *)
(* DeliveredInOrder needs cursors that never go back, hence LappedStaysLapped. *)

Inv ==
  /\ TypeOK
  /\ SlotCarriesLastFrame
  /\ BytesFollowSeq
  /\ LappedStaysLapped
  /\ CopyIsOfHolders
  /\ CursorInLog

\* A sequence number other than the wanted one tells on which side of the
\* window the reader is.
LEMMA SeqTells ==
  ASSUME TypeOK, SlotCarriesLastFrame, NEW r \in Readers
  PROVE  /\ SlotSeq(r) < want(r) => read_index[r] >= Committed
         /\ SlotSeq(r) = want(r) => Log!IsReadable(Committed, read_index[r])
         /\ SlotSeq(r) > want(r) => Log!IsLapped(Committed, read_index[r])
  <1> DEFINE i == read_index[r]
             k == SlotOf(i)
  <1>1. i \in Nat /\ k \in 0..Slots-1 /\ seq[k] \in Nat /\ Committed \in Nat
    BY SlotRange DEF TypeOK, Committed
  <1>2. /\ seq[k] <= Committed
        /\ seq[k] = 0 => Committed <= k
        /\ seq[k] > 0 => SlotOf(seq[k] - 1) = k /\ Committed < seq[k] + Slots
    BY <1>1 DEF SlotCarriesLastFrame
  <1>3. ASSUME seq[k] < i + 1 PROVE i >= Committed
    <2>1. CASE seq[k] = 0
      <3> SUFFICES ASSUME i < Committed PROVE FALSE
        BY <1>1
      <3>1. i \in 0..Slots-1
        BY <1>1, <1>2, <2>1
      <3> QED
        BY <1>1, <1>2, <2>1, <3>1, FirstRound
    <2>2. CASE seq[k] > 0
      <3>1. seq[k] - 1 \in Nat /\ seq[k] - 1 <= i
        BY <1>1, <1>3, <2>2
      <3>2. CASE seq[k] - 1 < i
        BY <1>1, <1>2, <2>2, <3>1, <3>2, SameSlotIsFar
      <3>3. CASE seq[k] - 1 = i
        BY <1>1, <1>3, <3>3
      <3> QED
        BY <1>1, <3>1, <3>2, <3>3
    <2> QED
      BY <1>1, <2>1, <2>2
  <1>4. ASSUME seq[k] = i + 1 PROVE i < Committed /\ Committed <= i + Slots
    BY <1>1, <1>2, <1>4
  <1>5. ASSUME seq[k] > i + 1 PROVE i + Slots < Committed
    <2>1. seq[k] - 1 \in Nat /\ i < seq[k] - 1 /\ SlotOf(seq[k] - 1) = SlotOf(i)
      BY <1>1, <1>2, <1>5
    <2>2. i + Slots <= seq[k] - 1
      BY <1>1, <2>1, SameSlotIsFar
    <2> QED
      BY <1>1, <1>2, <2>2
  <1> QED
    BY <1>1, <1>3, <1>4, <1>5
    DEF SlotSeq, want, Log!IsReadable, Log!IsLapped

\* Only the reader that is exactly one ring behind shares a slot with the frame
\* being published.
LEMMA Overwriting ==
  ASSUME TypeOK, SlotCarriesLastFrame, NEW i \in Nat,
         ppc = "store", SlotOf(write_index) = SlotOf(i), seq[SlotOf(i)] = i + 1
  PROVE  i + Slots = Committed
  <1>1. write_index \in Nat /\ Committed = write_index
    BY DEF TypeOK, Committed
  <1>2. i < write_index /\ write_index < i + 1 + Slots
    BY <1>1, SlotRange DEF SlotCarriesLastFrame
  <1>3. i + Slots <= write_index
    BY <1>1, <1>2, SameSlotIsFar
  <1> QED
    BY <1>1, <1>2, <1>3

\* Inv holds initially.
LEMMA InvInit == Init => Inv
  <1> SUFFICES ASSUME Init PROVE Inv
    OBVIOUS
  <1> USE DEF Init
  <1>1. TypeOK
    BY TypeInit
  <1>2. Committed = 0
    BY DEF Committed
  <1>3. SlotCarriesLastFrame
    BY <1>2 DEF SlotCarriesLastFrame
  <1>4. BytesFollowSeq
    BY DEF BytesFollowSeq, Blank, Nil
  <1>5. LappedStaysLapped /\ CopyIsOfHolders
    BY DEF LappedStaysLapped, CopyIsOfHolders
  <1>6. CursorInLog
    BY <1>2 DEF CursorInLog, Nil
  <1> QED
    BY <1>1, <1>3, <1>4, <1>5, <1>6 DEF Inv

\* A step that leaves the committed frames, the sequence numbers and the
\* readers alone disturbs at most BytesFollowSeq.
LEMMA QuietProducerStep ==
  ASSUME Inv, TypeOK', UNCHANGED <<seq, readerVars>>, Committed' = Committed
  PROVE  /\ SlotCarriesLastFrame' /\ LappedStaysLapped'
         /\ CopyIsOfHolders' /\ CursorInLog'
  <1> USE DEF Inv, readerVars
  <1>1. SlotCarriesLastFrame'
    BY DEF SlotCarriesLastFrame
  <1>2. LappedStaysLapped'
    BY DEF LappedStaysLapped, Log!IsLapped
  <1>3. CopyIsOfHolders'
    BY DEF CopyIsOfHolders, want, SlotSeq, Log!Holders
  <1>4. CursorInLog'
    BY DEF CursorInLog
  <1> QED
    BY <1>1, <1>2, <1>3, <1>4

\* Inv is kept by the start of publish().
LEMMA PublishBeginStep == Inv /\ PublishBegin => Inv'
  <1> SUFFICES ASSUME Inv, PublishBegin PROVE Inv'
    OBVIOUS
  <1>1. TypeOK'
    BY TypeStep DEF Inv, Next
  <1>2. Committed' = Committed
    BY DEF PublishBegin, Committed
  <1>3. BytesFollowSeq'
    BY DEF PublishBegin, Inv, BytesFollowSeq
  <1> QED
    BY <1>1, <1>2, <1>3, QuietProducerStep DEF PublishBegin, Inv

\* Inv is kept by a store to the bytes of a slot.
LEMMA StoreFieldStep ==
  ASSUME Inv, NEW f \in Fields, StoreField(f)
  PROVE  Inv'
  <1>1. TypeOK'
    BY TypeStep DEF Inv, Next, Store
  <1>2. Committed' = Committed
    BY DEF StoreField, Committed
  <1>3. BytesFollowSeq'
    <2> SUFFICES ASSUME NEW k \in 0..Slots-1, NEW g \in Fields
                 PROVE  \/ frame'[k][g] = seq[k] - 1
                        \/ k = SlotOf(write_index) /\ frame'[k][g] = write_index
      BY DEF StoreField, BytesFollowSeq, SlotOf
    <2>1. CASE k = SlotOf(write_index) /\ g = f
      BY <2>1 DEF StoreField, Inv, TypeOK
    <2>2. CASE ~(k = SlotOf(write_index) /\ g = f)
      BY <2>2 DEF StoreField, Inv, TypeOK, BytesFollowSeq
    <2> QED
      BY <2>1, <2>2
  <1> QED
    BY <1>1, <1>2, <1>3, QuietProducerStep DEF StoreField, Inv

\* Inv is kept by the store of write_index.
LEMMA StoreIndexStep == Inv /\ StoreIndex => Inv'
  <1> SUFFICES ASSUME Inv, StoreIndex PROVE Inv'
    OBVIOUS
  <1>1. TypeOK'
    BY TypeStep DEF Inv, Next, Store
  <1>2. Committed' = Committed
    BY DEF StoreIndex, Committed
  <1>3. BytesFollowSeq'
    BY DEF StoreIndex, Inv, BytesFollowSeq
  <1> QED
    BY <1>1, <1>2, <1>3, QuietProducerStep DEF StoreIndex, Inv

\* The store that commits the frame.
LEMMA StoreSeqStep == Inv /\ StoreSeq => Inv'
  <1> SUFFICES ASSUME Inv, StoreSeq PROVE Inv'
    OBVIOUS
  <1> DEFINE w == write_index
             b == SlotOf(write_index)
  <1> USE DEF Inv
  <1>1. TypeOK'
    BY TypeStep DEF Next, Store
  <1>2. w \in Nat /\ b \in 0..Slots-1 /\ Committed = w /\ Committed' = w + 1
    BY SlotRange DEF StoreSeq, Committed, TypeOK
  <1>3. /\ seq'[b] = w + 1
        /\ \A k \in 0..Slots-1 : k # b => seq'[k] = seq[k]
        /\ write_index' = w
    BY <1>2 DEF StoreSeq, TypeOK
  <1>4. \A k \in 0..Slots-1 : seq[k] \in Nat
    BY DEF TypeOK
  <1>5. SlotCarriesLastFrame'
    <2> SUFFICES ASSUME NEW k \in 0..Slots-1
                 PROVE  /\ seq'[k] <= w + 1
                        /\ seq'[k] = 0 => w + 1 <= k
                        /\ seq'[k] > 0 => /\ SlotOf(seq'[k] - 1) = k
                                          /\ w + 1 < seq'[k] + Slots
      BY <1>2 DEF SlotCarriesLastFrame, SlotOf
    <2>1. CASE k = b
      <3>1. seq'[k] = w + 1 /\ seq'[k] - 1 = w
        BY <1>2, <1>3, <2>1
      <3> QED
        BY <1>2, <2>1, <3>1
    <2>2. CASE k # b
      <3>1. /\ seq'[k] = seq[k] /\ seq[k] <= w
            /\ seq[k] = 0 => w <= k
            /\ seq[k] > 0 => SlotOf(seq[k] - 1) = k /\ w < seq[k] + Slots
        BY <1>2, <1>3, <2>2 DEF SlotCarriesLastFrame
      <3>2. seq[k] = 0 => w # k
        BY <2>2, FirstRound
      <3>3. seq[k] > 0 => w # seq[k] - 1 + Slots
        <4> SUFFICES ASSUME seq[k] > 0, w = seq[k] - 1 + Slots PROVE FALSE
          OBVIOUS
        <4>1. seq[k] - 1 \in Int /\ w \in Int /\ (seq[k] - 1) + Slots = w
          BY <1>2, <1>4
        <4>2. SlotOf(w) = SlotOf(seq[k] - 1)
          BY <4>1, NextRound
        <4> QED
          BY <2>2, <3>1, <4>2
      <3> QED
        BY <1>2, <1>4, <3>1, <3>2, <3>3
    <2> QED
      BY <2>1, <2>2
  <1>6. BytesFollowSeq'
    <2> SUFFICES ASSUME NEW k \in 0..Slots-1, NEW f \in Fields
                 PROVE  frame[k][f] = seq'[k] - 1
      BY DEF BytesFollowSeq, StoreSeq
    <2>1. CASE k = b
      BY <1>2, <1>3, <2>1 DEF StoreSeq, Unstored
    <2>2. CASE k # b
      BY <1>3, <2>2 DEF BytesFollowSeq
    <2> QED
      BY <2>1, <2>2
  <1>7. LappedStaysLapped'
    BY <1>2 DEF LappedStaysLapped, Log!IsLapped, StoreSeq, readerVars, TypeOK
  <1>8. CopyIsOfHolders'
    <2> SUFFICES ASSUME NEW r \in Readers, rpc[r] = "copy"
                 PROVE  /\ want(r) <= SlotSeq(r)'
                        /\ SlotSeq(r)' = want(r) =>
                             \A f \in Fields : out[r][f] \in {Nil} \cup Log!Holders(w + 1, read_index[r])
      BY <1>2 DEF CopyIsOfHolders, StoreSeq, readerVars, want, SlotSeq, Log!Holders
    <2> DEFINE i == read_index[r]
               k == SlotOf(i)
    <2>1. i \in Nat /\ k \in 0..Slots-1
      BY SlotRange DEF TypeOK
    <2>2. /\ i + 1 <= seq[k]
          /\ seq[k] = i + 1 =>
               \A f \in Fields : out[r][f] \in {Nil} \cup Log!Holders(w, i)
      BY <1>2 DEF CopyIsOfHolders, want, SlotSeq
    <2>3. seq[k] <= w /\ SlotSeq(r)' = seq'[k]
      BY <1>2, <2>1 DEF SlotCarriesLastFrame, SlotSeq, StoreSeq, readerVars
    <2>4. CASE k = b
      BY <1>2, <1>3, <1>4, <2>1, <2>2, <2>3, <2>4 DEF want
    <2>5. CASE k # b
      <3>1. w # i + Slots
        BY <1>2, <2>1, <2>5, NextRound
      <3>2. Log!Holders(w, i) = {i}
        BY <3>1 DEF Log!Holders
      <3> QED
        BY <1>3, <2>1, <2>2, <2>3, <2>5, <3>2 DEF want, Log!Holders
    <2> QED
      BY <2>4, <2>5
  <1>9. CursorInLog'
    BY <1>2 DEF CursorInLog, StoreSeq, readerVars, TypeOK
  <1> QED
    BY <1>1, <1>5, <1>6, <1>7, <1>8, <1>9

\* A step of reader r leaves the ring and the other readers alone: what it
\* does to r itself decides.
LEMMA ReaderStep ==
  ASSUME Inv, NEW r \in Readers, Read(r),
         rpc'[r] = "lapped" => Log!IsLapped(Committed, read_index'[r]),
         rpc'[r] = "copy" =>
           /\ want(r)' <= SlotSeq(r)'
           /\ SlotSeq(r)' = want(r)' =>
                \A f \in Fields : out'[r][f] \in {Nil} \cup Log!Holders(Committed, read_index'[r]),
         rpc'[r] # "copy" => out'[r] = Blank,
         read_index'[r] <= Committed,
         delivered'[r].index < read_index'[r],
         rpc'[r] # "attach"
  PROVE  Inv'
  <1> USE DEF Inv
  <1>1. TypeOK'
    BY TypeStep DEF Next
  <1>2. UNCHANGED producerVars
    BY DEF Read, Attach, PollEmpty, PollLapped, PollReady, CopyField,
           RecheckOk, RecheckLapped, LoadEdge
  <1>3. \A q \in Readers \ {r} : /\ rpc'[q] = rpc[q]
                                 /\ read_index'[q] = read_index[q]
                                 /\ out'[q] = out[q]
                                 /\ delivered'[q] = delivered[q]
    BY DEF Read, Attach, PollEmpty, PollLapped, PollReady, CopyField,
           RecheckOk, RecheckLapped, LoadEdge, TypeOK
  <1>4. Committed' = Committed
    BY <1>2 DEF Committed, producerVars
  <1>5. SlotCarriesLastFrame' /\ BytesFollowSeq'
    BY <1>2, <1>4 DEF SlotCarriesLastFrame, BytesFollowSeq, producerVars
  <1>6. LappedStaysLapped'
    BY <1>3, <1>4 DEF LappedStaysLapped, Log!IsLapped
  <1>7. CopyIsOfHolders'
    <2> SUFFICES ASSUME NEW q \in Readers
                 PROVE  /\ rpc'[q] = "copy" =>
                             /\ want(q)' <= SlotSeq(q)'
                             /\ SlotSeq(q)' = want(q)' =>
                                  \A f \in Fields : out'[q][f] \in {Nil} \cup Log!Holders(Committed, read_index'[q])
                        /\ rpc'[q] # "copy" => out'[q] = Blank
      BY <1>4 DEF CopyIsOfHolders, Log!Holders, Blank
    <2>1. CASE q = r
      BY <2>1
    <2>2. CASE q # r
      <3>1. SlotSeq(q)' = SlotSeq(q) /\ want(q)' = want(q)
        BY <1>2, <1>3, <2>2 DEF SlotSeq, want, producerVars
      <3> QED
        BY <1>3, <2>2, <3>1 DEF CopyIsOfHolders
    <2> QED
      BY <2>1, <2>2
  <1>8. CursorInLog'
    BY <1>3, <1>4 DEF CursorInLog
  <1> QED
    BY <1>1, <1>5, <1>6, <1>7, <1>8

\* The bytes a reader copies now, if its slot still carries the wanted frame.
LEMMA CopiedByte ==
  ASSUME Inv, NEW r \in Readers, NEW f \in Fields, SlotSeq(r) = want(r)
  PROVE  frame[SlotOf(read_index[r])][f] \in Log!Holders(Committed, read_index[r])
  <1> DEFINE i == read_index[r]
             k == SlotOf(i)
  <1>1. i \in Nat /\ k \in 0..Slots-1 /\ seq[k] = i + 1
    BY SlotRange DEF Inv, TypeOK, SlotSeq, want
  <1>2. CASE frame[k][f] = seq[k] - 1
    BY <1>1, <1>2 DEF Log!Holders
  <1>3. CASE ppc = "store" /\ k = SlotOf(write_index) /\ frame[k][f] = write_index
    <2>1. i + Slots = Committed /\ Committed = write_index
      BY <1>1, <1>3, Overwriting DEF Inv, Committed
    <2> QED
      BY <1>3, <2>1 DEF Log!Holders
  <1> QED
    BY <1>1, <1>2, <1>3 DEF Inv, BytesFollowSeq

\* Inv is kept by every access of a reader.
LEMMA ReadStep ==
  ASSUME Inv, NEW r \in Readers, Read(r)
  PROVE  Inv'
  <1> USE DEF Inv
  <1> DEFINE i == read_index[r]
  <1>1. i \in Nat /\ Committed \in Nat /\ write_index \in Nat /\ write_index <= Committed
    BY DEF TypeOK, Committed
  <1>2. i <= Committed /\ delivered[r].index < i
    BY DEF CursorInLog
  <1>3. CASE Attach(r)
    <2>1. /\ rpc'[r] = "poll" /\ read_index'[r] = write_index
          /\ out'[r] = Blank /\ delivered'[r].index = Nil
      BY <1>3 DEF Attach, TypeOK, CopyIsOfHolders, CursorInLog
    <2>2. Nil < write_index
      BY <1>1 DEF Nil
    <2> QED
      BY <1>1, <2>1, <2>2, ReaderStep
  <1>4. CASE PollEmpty(r)
    <2>1. /\ rpc'[r] = "poll" /\ read_index'[r] = i
          /\ out'[r] = Blank /\ delivered'[r] = delivered[r]
      BY <1>4 DEF PollEmpty, CopyIsOfHolders
    <2> QED
      BY <1>2, <2>1, ReaderStep
  <1>5. CASE PollLapped(r)
    <2>1. /\ rpc'[r] = "lapped" /\ read_index'[r] = i
          /\ out'[r] = Blank /\ delivered'[r] = delivered[r]
      BY <1>5 DEF PollLapped, CopyIsOfHolders, TypeOK
    <2>2. Log!IsLapped(Committed, i)
      BY <1>5, SeqTells DEF PollLapped
    <2> QED
      BY <1>2, <2>1, <2>2, ReaderStep
  <1>6. CASE PollReady(r)
    <2>1. /\ rpc'[r] = "copy" /\ read_index'[r] = i
          /\ out'[r] = Blank /\ delivered'[r] = delivered[r]
          /\ SlotSeq(r)' = SlotSeq(r) /\ want(r)' = want(r) /\ SlotSeq(r) = want(r)
      BY <1>6 DEF PollReady, CopyIsOfHolders, TypeOK, SlotSeq, want, producerVars
    <2>2. want(r) <= SlotSeq(r) /\ \A f \in Fields : Blank[f] = Nil
      BY <1>1, <2>1 DEF want, Blank
    <2> QED
      BY <1>2, <2>1, <2>2, ReaderStep
  <1>7. ASSUME NEW f \in Fields, CopyField(r, f) PROVE Inv'
    <2>1. /\ rpc'[r] = "copy" /\ read_index'[r] = i /\ delivered'[r] = delivered[r]
          /\ out'[r] = [out[r] EXCEPT ![f] = frame[SlotOf(i)][f]]
          /\ SlotSeq(r)' = SlotSeq(r) /\ want(r)' = want(r)
      BY <1>7 DEF CopyField, TypeOK, SlotSeq, want, producerVars
    <2>2. want(r) <= SlotSeq(r)
      BY <1>7 DEF CopyField, CopyIsOfHolders
    <2>3. ASSUME SlotSeq(r) = want(r), NEW g \in Fields
          PROVE  out'[r][g] \in {Nil} \cup Log!Holders(Committed, i)
      <3>1. CASE g = f
        BY <2>1, <2>3, <3>1, CopiedByte DEF TypeOK
      <3>2. CASE g # f
        BY <1>7, <2>1, <2>3, <3>2 DEF CopyField, CopyIsOfHolders, TypeOK
      <3> QED
        BY <3>1, <3>2
    <2> QED
      BY <1>2, <2>1, <2>2, <2>3, ReaderStep
  <1>8. CASE RecheckOk(r)
    <2>1. /\ rpc'[r] = "poll" /\ read_index'[r] = i + 1
          /\ out'[r] = Blank /\ delivered'[r].index = i
      BY <1>8 DEF RecheckOk, TypeOK
    <2>2. i < Committed
      BY <1>8, SeqTells DEF RecheckOk, RecheckPasses, Log!IsReadable
    <2> QED
      BY <1>1, <2>1, <2>2, ReaderStep
  <1>9. CASE RecheckLapped(r)
    <2>1. /\ rpc'[r] = "lapped" /\ read_index'[r] = i
          /\ out'[r] = Blank /\ delivered'[r] = delivered[r]
      BY <1>9 DEF RecheckLapped, TypeOK
    <2>2. SlotSeq(r) > want(r)
      <3>1. want(r) <= SlotSeq(r) /\ SlotSeq(r) # want(r)
        BY <1>9 DEF RecheckLapped, RecheckPasses, CopyIsOfHolders
      <3>2. SlotOf(i) \in 0..Slots-1
        BY <1>1, SlotRange
      <3>3. SlotSeq(r) \in Nat /\ want(r) \in Nat
        BY <1>1, <3>2 DEF SlotSeq, want, TypeOK
      <3> QED
        BY <3>1, <3>3
    <2>3. Log!IsLapped(Committed, i)
      BY <2>2, SeqTells
    <2> QED
      BY <1>2, <2>1, <2>3, ReaderStep
  <1>10. CASE LoadEdge(r)
    <2>1. /\ rpc'[r] = "poll" /\ read_index'[r] = resume_at(write_index)
          /\ out'[r] = Blank /\ delivered'[r] = delivered[r]
      BY <1>10 DEF LoadEdge, TypeOK, CopyIsOfHolders
    <2>2. i + Slots < Committed /\ Committed <= write_index + 1
      BY <1>1, <1>10 DEF LoadEdge, LappedStaysLapped, Log!IsLapped, Committed
    <2>3. i <= resume_at(write_index) /\ resume_at(write_index) <= Committed
      BY <1>1, <2>2 DEF resume_at
    <2>4. resume_at(write_index) \in Nat /\ delivered[r].index \in Int
      BY <1>1 DEF resume_at, TypeOK, Nil
    <2> QED
      BY <1>1, <1>2, <2>1, <2>3, <2>4, ReaderStep
  <1> QED
    BY <1>3, <1>4, <1>5, <1>6, <1>7, <1>8, <1>9, <1>10 DEF Read

\* Inv is kept by every step.
LEMMA InvStep == Inv /\ [Next]_vars => Inv'
  <1> SUFFICES ASSUME Inv, [Next]_vars PROVE Inv'
    OBVIOUS
  <1>1. CASE UNCHANGED vars
    BY <1>1 DEF vars, producerVars, readerVars, Inv, TypeOK, SlotCarriesLastFrame,
                BytesFollowSeq, LappedStaysLapped, CopyIsOfHolders, CursorInLog,
                Committed, SlotSeq, want, Log!IsLapped, Log!Holders
  <1> QED
    BY <1>1, PublishBeginStep, StoreFieldStep, StoreSeqStep, StoreIndexStep, ReadStep
    DEF Next, Store

\* The ring carries the last Slots committed frames (SlotCarriesLastFrame), with
\* bytes of those frames and of the one being published (BytesFollowSeq); what a
\* reader decides stays true until it acts on it (LappedStaysLapped,
\* CopyIsOfHolders); its cursor stays inside the log (CursorInLog).
THEOREM SafetyInvariant == Spec => []Inv
  BY InvInit, InvStep, PTL DEF Spec
\* While a slot still names the wanted frame, what a reader has copied belongs to
\* that frame or to the one being published (103-106 of read()).
THEOREM CopyTheorem == Spec => []CopyIsOfHolders
  BY SafetyInvariant, PTL DEF Inv

\* A slot's sequence number is that of the last committed frame that maps to it
\* (the order of the stores in publish(), 72-78), for every ring size.
THEOREM SlotTheorem == Spec => []SlotCarriesLastFrame
  BY SafetyInvariant, PTL DEF Inv

\* The bytes of a slot are of the frame its sequence number names or of the one
\* being published over it (73-77 of publish()).
THEOREM BytesTheorem == Spec => []BytesFollowSeq
  BY SafetyInvariant, PTL DEF Inv

\* A reader that found itself lapped still is when it loads write_index, so its
\* resume position never goes back (97-110 of read()).
THEOREM LapTheorem == Spec => []LappedStaysLapped
  BY SafetyInvariant, PTL DEF Inv

\* No reader's cursor runs ahead of the frames published (live_edge() and the
\* cursor updates of the callers).
THEOREM CursorTheorem == Spec => []CursorInLog
  BY SafetyInvariant, PTL DEF Inv
-----------------------------------------------------------------------------
(* Action properties *)

\* kEmpty is never the answer for a committed frame (line 96 of read()).
THEOREM EmptyTruthful == Spec => EmptyIsTruthful
  <1>1. ASSUME Inv, [Next]_vars, NEW r \in Readers,
               status'[r] = "kEmpty", status[r] # "kEmpty"
        PROVE  read_index[r] >= Committed
    <2> USE DEF Inv, TypeOK
    <2>1. status' # status
      BY <1>1
    <2>2. PICK q \in Readers : Read(q)
      BY <1>1, <2>1 DEF Next, Store, PublishBegin, StoreField, StoreSeq,
                        StoreIndex, vars, readerVars
    <2>3. PollEmpty(r)
      BY <1>1, <2>2 DEF Read, Attach, PollEmpty, PollLapped, PollReady, CopyField,
                        RecheckOk, RecheckLapped, LoadEdge
    <2> QED
      BY <1>1, <2>3, SeqTells DEF PollEmpty
  <1>2. Inv /\ [Next]_vars =>
          [\A r \in Readers : status'[r] = "kEmpty" /\ status[r] # "kEmpty"
                                => read_index[r] >= Committed]_vars
    BY <1>1
  <1> QED
    BY <1>2, SafetyInvariant, PTL DEF Spec, EmptyIsTruthful

\* A reader is given frames in the order of publication, none of them twice.
THEOREM InOrder == Spec => DeliveredInOrder
  <1>1. ASSUME Inv, [Next]_vars, NEW r \in Readers, delivered'[r] # delivered[r]
        PROVE  delivered[r].index < delivered'[r].index
    <2> USE DEF Inv, TypeOK
    <2>1. PICK q \in Readers : Read(q)
      BY <1>1 DEF Next, Store, PublishBegin, StoreField, StoreSeq,
                  StoreIndex, vars, readerVars
    <2>2. RecheckOk(r)
      BY <1>1, <2>1 DEF Read, Attach, PollEmpty, PollLapped, PollReady, CopyField,
                        RecheckOk, RecheckLapped, LoadEdge
    <2>3. delivered'[r].index = read_index[r]
      BY <1>1, <2>2 DEF RecheckOk
    <2> QED
      BY <1>1, <2>3 DEF CursorInLog
  <1>2. Inv /\ [Next]_vars =>
          [\A r \in Readers : delivered'[r] # delivered[r]
                                => delivered[r].index < delivered'[r].index]_vars
    BY <1>1
  <1> QED
    BY <1>2, SafetyInvariant, PTL DEF Spec, DeliveredInOrder
-----------------------------------------------------------------------------
(* Refinement: StoreSeq publishes, Attach attaches, RecheckOk delivers,     *)
(* LoadEdge skips; every other step of the ring is a stuttering step.       *)

AttachedBar == [r \in Readers |-> rpc[r] # "attach"]

\* The ring starts as the broadcast log does.
LEMMA LogInit == Init => Log!Init
  BY ReadersAssumption DEF Init, Log!Init, Log!NoFrame, Committed, Blank, Nil

\* What the log does not see of a ring.
LEMMA LogStutter ==
  ASSUME UNCHANGED <<read_index, delivered>>, Committed' = Committed, AttachedBar' = AttachedBar
  PROVE  [Log!Next]_(Log!logVars)
  BY DEF Log!logVars, AttachedBar

\* Every step of the ring is one of the broadcast log or none.
LEMMA LogStep == Inv /\ [Next]_vars => [Log!Next]_(Log!logVars)
  <1> SUFFICES ASSUME Inv, [Next]_vars PROVE [Log!Next]_(Log!logVars)
    OBVIOUS
  <1> USE DEF Inv, TypeOK
  <1>1. CASE PublishBegin
    BY <1>1, LogStutter DEF PublishBegin, Committed, AttachedBar, readerVars
  <1>2. ASSUME NEW f \in Fields, StoreField(f) PROVE [Log!Next]_(Log!logVars)
    BY <1>2, LogStutter DEF StoreField, Committed, AttachedBar, readerVars
  <1>3. CASE StoreSeq
    <2>1. Log!Publish
      BY <1>3 DEF StoreSeq, Log!Publish, Committed, readerVars
    <2> QED
      BY <2>1 DEF Log!Next
  <1>4. CASE StoreIndex
    BY <1>4, LogStutter DEF StoreIndex, Committed, AttachedBar, readerVars
  <1>5. ASSUME NEW r \in Readers, Read(r) PROVE [Log!Next]_(Log!logVars)
    <2>1. Committed' = Committed
      BY <1>5 DEF Read, Attach, PollEmpty, PollLapped, PollReady, CopyField,
                  RecheckOk, RecheckLapped, LoadEdge, producerVars, Committed
    <2>2. CASE Attach(r)
      <3>1. write_index \in Log!LiveEdges(Committed)
        BY DEF Log!LiveEdges, Committed
      <3>2. AttachedBar' = [AttachedBar EXCEPT ![r] = TRUE]
        BY <2>2 DEF Attach, AttachedBar
      <3>3. Log!Attach(r)
        BY <2>1, <2>2, <3>1, <3>2 DEF Attach, Log!Attach, AttachedBar
      <3> QED
        BY <3>3 DEF Log!Next
    <2>3. CASE PollEmpty(r)
      BY <2>1, <2>3, LogStutter DEF PollEmpty, AttachedBar
    <2>4. CASE PollLapped(r)
      BY <2>1, <2>4, LogStutter DEF PollLapped, AttachedBar
    <2>5. CASE PollReady(r)
      BY <2>1, <2>5, LogStutter DEF PollReady, AttachedBar
    <2>6. ASSUME NEW f \in Fields, CopyField(r, f) PROVE [Log!Next]_(Log!logVars)
      BY <2>1, <2>6, LogStutter DEF CopyField, AttachedBar
    <2>7. CASE RecheckOk(r)
      <3>1. SlotSeq(r) = want(r) /\ Log!IsReadable(Committed, read_index[r])
        BY <2>7, SeqTells DEF RecheckOk, RecheckPasses
      <3>2. \A f \in Fields : out[r][f] \in Log!Holders(Committed, read_index[r])
        BY <2>7, <3>1 DEF RecheckOk, CopyIsOfHolders, Uncopied
      <3>3. out[r] \in [Fields -> Log!Holders(Committed, read_index[r])]
        BY <3>2
      <3>4. AttachedBar' = AttachedBar /\ rpc[r] # "attach"
        BY <2>7 DEF RecheckOk, AttachedBar
      <3>5. Log!Deliver(r)
        BY <2>1, <2>7, <3>1, <3>3, <3>4 DEF RecheckOk, Log!Deliver, AttachedBar
      <3> QED
        BY <3>5 DEF Log!Next
    <2>8. CASE RecheckLapped(r)
      BY <2>1, <2>8, LogStutter DEF RecheckLapped, AttachedBar
    <2>9. CASE LoadEdge(r)
      <3>1. Log!IsLapped(Committed, read_index[r])
        BY <2>9 DEF LoadEdge, LappedStaysLapped
      <3>2. resume_at(write_index) \in Log!ResumePoints(Committed)
        BY <3>1 DEF Log!IsLapped, Log!ResumePoints, resume_at, Committed
      <3>3. AttachedBar' = AttachedBar /\ rpc[r] # "attach"
        BY <2>9 DEF LoadEdge, AttachedBar
      <3>4. Log!Skip(r)
        BY <2>1, <2>9, <3>1, <3>2, <3>3 DEF LoadEdge, Log!Skip, AttachedBar
      <3> QED
        BY <3>4 DEF Log!Next
    <2> QED
      BY <1>5, <2>2, <2>3, <2>4, <2>5, <2>6, <2>7, <2>8, <2>9 DEF Read
  <1>6. CASE UNCHANGED vars
    BY <1>6, LogStutter DEF vars, producerVars, readerVars, Committed, AttachedBar
  <1> QED
    BY <1>1, <1>2, <1>3, <1>4, <1>5, <1>6 DEF Next, Store

\* The ring implements the broadcast log.
THEOREM Refinement == Spec => ImplementsLog
  BY LogInit, LogStep, SafetyInvariant, PTL DEF Spec, ImplementsLog, Log!Spec
==============================================================================
