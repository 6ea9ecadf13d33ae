--------------------------- MODULE ReceiverProofs ---------------------------
(***************************************************************************)
(* Proofs about Receiver, for every size of burst, RX ring and pool and    *)
(* for every behaviour of the network.                                     *)
(***************************************************************************)
EXTENDS Receiver, SequenceTheorems, FiniteSetTheorems, TLAPS
-----------------------------------------------------------------------------
(* Flattening a sequence of sequences.  The induction theorems of the       *)
(* library take an operator and cannot be used; induction on Nat is derived *)
(* here from the cardinality of finite sets, for sets of numbers.           *)

\* A set of numbers that holds 0 and the successor of each of its members is Nat.
LEMMA NatInduct ==
  ASSUME NEW S \in SUBSET Nat, 0 \in S, \A k \in S : k + 1 \in S
  PROVE  S = Nat
  <1> SUFFICES ASSUME NEW n \in Nat, n \notin S PROVE FALSE
    OBVIOUS
  <1> DEFINE A == S \cap (0..n)
  <1> DEFINE f == [k \in A |-> k + 1]
  <1>1. IsFiniteSet(0..n)
    BY FS_Interval
  <1>2. IsFiniteSet(A) 
    BY <1>1, FS_Subset
  <1>3. \A k \in A : k + 1 \in A \ {0}
    OBVIOUS
  <1>4. f \in Injection(A, A \ {0})
    BY <1>3 DEF Injection, IsInjective
  <1>5. /\ IsFiniteSet(A \ {0})
        /\ Cardinality(A \ {0}) = Cardinality(A) - 1
    BY <1>2, FS_RemoveElement
  <1>6. Cardinality(A) <= Cardinality(A \ {0})
    BY <1>4, <1>5, FS_Injection
  <1>7. Cardinality(A) \in Nat
    BY <1>2, FS_CardinalityType
  <1> QED
    BY <1>5, <1>6, <1>7

\* g[k] is the concatenation of the first k sequences of ss, for k up to n.
Joined(ss, n, g) == g = [k \in 1..n |-> IF k = 1 THEN ss[k] ELSE g[k-1] \o ss[k]]

\* They are the same for two sequences of which one is a prefix of the other.
LEMMA JoinedUnique ==
  ASSUME NEW n \in Nat, NEW ss, NEW tt, \A k \in 1..n : ss[k] = tt[k],
         NEW g, Joined(ss, n, g), NEW h, Joined(tt, n + 1, h)
  PROVE  \A k \in 1..n : g[k] = h[k]
  <1>1. ASSUME NEW j \in Nat, j + 1 \in 1..n, j \in 1..n => g[j] = h[j]
        PROVE  g[j+1] = h[j+1]
    <2>1. j + 1 \in 1..n /\ j + 1 \in 1..n+1
      BY <1>1
    <2>2. g[j+1] = IF j + 1 = 1 THEN ss[j+1] ELSE g[(j+1)-1] \o ss[j+1]
      BY <2>1, Zenon DEF Joined
    <2>3. h[j+1] = IF j + 1 = 1 THEN tt[j+1] ELSE h[(j+1)-1] \o tt[j+1]
      BY <2>1, Zenon DEF Joined
    <2>4. ss[j+1] = tt[j+1]
      BY <1>1
    <2>5. j = 0 \/ (j \in 1..n /\ (j + 1) - 1 = j /\ j + 1 # 1)
      BY <1>1
    <2> QED
      BY <1>1, <2>2, <2>3, <2>4, <2>5
  <1> DEFINE T == {k \in Nat : k \in 1..n => g[k] = h[k]}
  <1>2. 0 \in T /\ T \in SUBSET Nat
    OBVIOUS
  <1>3. \A k \in T : k + 1 \in T
    BY <1>1
  <1>4. T = Nat
    <2> HIDE DEF T
    <2> QED
      BY <1>2, <1>3, NatInduct
  <1> QED
    BY <1>4

\* One sequence more.
LEMMA JoinedGrows ==
  ASSUME NEW ss, NEW n \in Nat, NEW g, Joined(ss, n, g)
  PROVE  \E h : Joined(ss, n + 1, h)
  <1> DEFINE v == IF n = 0 THEN ss[n+1] ELSE g[n] \o ss[n+1]
             h == [k \in 1..n+1 |-> IF k = n + 1 THEN v ELSE g[k]]
  <1>1. \A k \in 1..n : h[k] = g[k]
    OBVIOUS
  <1>2. h[n+1] = v /\ n + 1 \in 1..n+1
    OBVIOUS
  <1>3. h = [k \in 1..n+1 |-> h[k]]
    OBVIOUS
  <1> HIDE DEF h
  <1>4. ASSUME NEW k \in 1..n+1
        PROVE  h[k] = IF k = 1 THEN ss[k] ELSE h[k-1] \o ss[k]
    <2>1. CASE k = n + 1
      <3>1. n = 0 \/ (n \in 1..n /\ k - 1 = n /\ k # 1)
        BY <2>1
      <3> QED
        BY <2>1, <3>1, <1>1, <1>2
    <2>2. CASE k # n + 1
      <3>1. k \in 1..n /\ (k # 1 => k - 1 \in 1..n)
        BY <2>2
      <3>2. g[k] = IF k = 1 THEN ss[k] ELSE g[k-1] \o ss[k]
        BY <3>1, Zenon DEF Joined
      <3> QED
        BY <3>1, <3>2, <1>1
    <2> QED
      BY <2>1, <2>2
  <1>5. Joined(ss, n + 1, h)
    BY <1>3, <1>4, Zenon DEF Joined
  <1> QED
    BY <1>5

\* The concatenations exist.
LEMMA JoinedExists ==
  ASSUME NEW ss, NEW m \in Nat
  PROVE  \E g : Joined(ss, m, g)
  <1> DEFINE T == {n \in Nat : \E g : Joined(ss, n, g)}
  <1>1. 0 \in T
    <2> DEFINE g == [k \in 1..0 |-> <<>>]
    <2>1. g = [k \in 1..0 |-> IF k = 1 THEN ss[k] ELSE g[k-1] \o ss[k]]
      OBVIOUS
    <2> QED
      BY <2>1 DEF Joined
  <1>2. \A n \in T : n + 1 \in T
    BY JoinedGrows
  <1>3. T \in SUBSET Nat
    OBVIOUS
  <1>4. m \in T
    <2> HIDE DEF T
    <2> QED
      BY <1>1, <1>2, <1>3, NatInduct
  <1> QED
    BY <1>4

\* FlattenSeq is the last of them.
LEMMA FlattenIsJoined ==
  ASSUME NEW S, NEW ss \in Seq(S), Len(ss) # 0
  PROVE  \E g : Joined(ss, Len(ss), g) /\ FlattenSeq(ss) = g[Len(ss)]
  <1> DEFINE n == Len(ss)
             Flattens(f) == f = [k \in 1..n |-> IF k = 1 THEN ss[k] ELSE f[k-1] \o ss[k]]
             c == CHOOSE f : Flattens(f)
  <1>0. n \in Nat
    OBVIOUS
  <1>1. \E g : Flattens(g)
    <2> PICK g : Joined(ss, n, g)
      BY <1>0, JoinedExists
    <2>1. Flattens(g)
      BY Zenon DEF Joined
    <2> QED
      BY <2>1
  <1>2. Flattens(c)
    <2> HIDE DEF Flattens
    <2> QED
      BY <1>1
  <1>3. FlattenSeq(ss) = c[n]
    BY DEF FlattenSeq
  <1>4. Joined(ss, n, c)
    BY <1>2, Zenon DEF Joined
  <1> QED
    BY <1>3, <1>4

\* FlattenSeq, from the front of a sequence and its last member.
LEMMA FlattenAppend ==
  ASSUME NEW S, NEW ss \in Seq(Seq(S)), NEW s \in Seq(S)
  PROVE  FlattenSeq(Append(ss, s)) = FlattenSeq(ss) \o s
  <1> DEFINE n == Len(ss)
             tt == Append(ss, s)
  <1>1. /\ tt \in Seq(Seq(S)) /\ Len(tt) = n + 1 /\ n \in Nat /\ tt[n+1] = s
        /\ \A k \in 1..n : ss[k] = tt[k]
    OBVIOUS
  <1> HIDE DEF tt
  <1>a. Len(tt) # 0
    BY <1>1
  <1>b. \E h : Joined(tt, n + 1, h) /\ FlattenSeq(tt) = h[n+1]
    BY <1>1, <1>a, FlattenIsJoined
  <1> PICK h : Joined(tt, n + 1, h) /\ FlattenSeq(tt) = h[n+1]
    BY <1>b
  <1>2. n + 1 \in 1..n+1 /\ (n + 1) - 1 = n
    BY <1>1
  <1>3. h[n+1] = IF n + 1 = 1 THEN tt[n+1] ELSE h[(n+1)-1] \o tt[n+1]
    BY <1>2, Zenon DEF Joined
  <1>4. CASE n = 0
    <2>1. FlattenSeq(ss) = <<>> /\ ss = <<>>
      BY <1>4 DEF FlattenSeq
    <2> QED
      BY <1>1, <1>3, <1>4, <2>1 DEF tt
  <1>5. CASE n # 0
    <2>0. \E g : Joined(ss, n, g) /\ FlattenSeq(ss) = g[n]
      BY <1>5, FlattenIsJoined
    <2> PICK g : Joined(ss, n, g) /\ FlattenSeq(ss) = g[n]
      BY <2>0
    <2>1. n \in 1..n /\ n <= n + 1 /\ n <= n /\ n + 1 \in Nat /\ n + 1 # 1
      BY <1>1, <1>5
    <2>2. g[n] = h[n]
      <3> HIDE DEF n
      <3>2. n \in Nat
        BY <1>1
      <3>3. \A k \in 1..n : ss[k] = tt[k]
        BY <1>1
      <3>4. Joined(ss, n, g) /\ Joined(tt, n + 1, h)
        OBVIOUS
      <3>1. \A k \in 1..n : g[k] = h[k]
        BY <3>2, <3>3, <3>4, JoinedUnique
      <3> QED
        BY <2>1, <3>1
    <2> QED
      BY <1>1, <1>2, <1>3, <2>1, <2>2 DEF tt
  <1> QED
    BY <1>4, <1>5

\* FlattenSeq yields a sequence.
LEMMA FlattenType ==
  ASSUME NEW S, NEW ss \in Seq(Seq(S))
  PROVE  FlattenSeq(ss) \in Seq(S)
  <1> DEFINE T == {n \in Nat : \A tt \in Seq(Seq(S)) : Len(tt) = n => FlattenSeq(tt) \in Seq(S)}
  <1>a. 0 \in T
    <2> SUFFICES ASSUME NEW tt \in Seq(Seq(S)), Len(tt) = 0
                 PROVE  FlattenSeq(tt) \in Seq(S)
      OBVIOUS
    <2>1. FlattenSeq(tt) = <<>>
      <3>1. tt = <<>>
        BY DEF FlattenSeq
      <3> QED
        BY <3>1 DEF FlattenSeq
    <2> QED
      BY <2>1
  <1>1. T \in SUBSET Nat
    OBVIOUS
  <1>2. ASSUME NEW n \in T PROVE n + 1 \in T
    <2> SUFFICES ASSUME NEW tt \in Seq(Seq(S)), Len(tt) = n + 1
                 PROVE  FlattenSeq(tt) \in Seq(S)
      OBVIOUS
    <2> DEFINE front == [k \in 1..n |-> tt[k]]
               last == tt[n+1]
    <2>1. n \in Nat /\ last \in Seq(S) /\ front \in Seq(Seq(S)) /\ Len(front) = n
      OBVIOUS
    <2>2. tt = Append(front, last)
      BY <2>1
    <2>3. FlattenSeq(front) \in Seq(S)
      BY <2>1
    <2>4. FlattenSeq(tt) = FlattenSeq(front) \o last
      BY <2>1, <2>2, FlattenAppend
    <2> HIDE DEF front, last
    <2> QED
      BY <2>1, <2>3, <2>4, ConcatProperties
  <1>3. Len(ss) \in T
    <2>1. Len(ss) \in Nat
      OBVIOUS
    <2>2. T = Nat
      <3> HIDE DEF T
      <3> QED
        BY <1>a, <1>1, <1>2, NatInduct
    <2> QED
      BY <2>1, <2>2
  <1> QED
    BY <1>3
-----------------------------------------------------------------------------
(* The receiver *)

USE ReceiverAssumption DEF Foreign

Packet == 0..MaxSent-1 \cup {Foreign}
-----------------------------------------------------------------------------
(* Type correctness.  That a packet being written has a data_seq is needed  *)
(* for next_data_seq to be a number.                                        *)

InHand ==
  pc = "write" => /\ i \in DOMAIN rx_mbufs
                  /\ data_seq # Foreign
                  /\ record <= record_count(data_seq)

Typed == TypeOK /\ InHand

\* What a packet at the end does to a sequence of packets.
LEMMA AppendLast ==
  ASSUME NEW a \in Seq(Nat), NEW s \in Nat
  PROVE  /\ Append(a, s) \in Seq(Nat) /\ Append(a, s) # <<>>
         /\ Len(Append(a, s)) = Len(a) + 1
         /\ Last(Append(a, s)) = s
         /\ \A j \in 1..Len(a) : Append(a, s)[j] = a[j]
         /\ \A j \in DOMAIN Append(a, s) :
              Append(a, s)[j] = s \/ (j \in DOMAIN a /\ Append(a, s)[j] = a[j])
  BY AppendProperties, LenProperties DEF Last

\* The last accepted number is one of the accepted.
LEMMA LastType ==
  ASSUME NEW a \in Seq(Nat), a # <<>>
  PROVE  Last(a) \in Nat /\ Len(a) \in DOMAIN a /\ 1 \in DOMAIN a
  BY DEF Last

\* Every packet has records.
LEMMA RecordCountType ==
  ASSUME NEW s \in Nat
  PROVE  record_count(s) \in Nat \ {0}
  <1>1. Len(RecordCount) \in Nat \ {0}
    OBVIOUS
  <1>2. s % Len(RecordCount) \in 0..Len(RecordCount)-1
    BY <1>1, Z3
  <1>3. (s % Len(RecordCount)) + 1 \in 1..Len(RecordCount)
    BY <1>1, <1>2
  <1> QED
    BY <1>3 DEF record_count

\* Typed holds initially.
LEMMA TypedInit == Init => Typed
  <1> SUFFICES ASSUME Init PROVE Typed
    OBVIOUS
  <1>1. \A S : <<>> \in Seq(S)
    OBVIOUS
  <1>2. network \in [0..MaxSent-1 -> Nat]
    BY DEF Init
  <1>3. pc = "poll"
    BY DEF Init
  <1>4. /\ rx_queue \in Seq(0..MaxSent-1 \cup {Foreign})
        /\ rx_mbufs \in Seq(0..MaxSent-1 \cup {Foreign})
        /\ published \in Seq([data_seq : Nat, record : Nat])
        /\ accepted \in Seq(Nat)
    BY <1>1, Zenon DEF Init
  <1>5. /\ sent \in 0..MaxSent /\ foreign \in Nat /\ free \in Nat
        /\ i \in Nat \ {0} /\ record \in Nat /\ next_data_seq \in Nat
        /\ rx_packets \in Nat /\ invalid_lldt_packets \in Nat
        /\ stale_data_packets \in Nat /\ data_gap_events \in Nat
        /\ data_packets_missing \in Nat /\ data_packets_accepted \in Nat
        /\ frames_published \in Nat
    BY DEF Init
  <1>6. stop_requested \in BOOLEAN /\ data_seq_established \in BOOLEAN
    BY DEF Init
  <1> QED
    BY <1>2, <1>3, <1>4, <1>5, <1>6 DEF Typed, TypeOK, InHand

\* What the guards of the loop say of the packet in hand.
LEMMA PacketInHand ==
  ASSUME Typed, InBurst \/ pc = "write", data_seq # Foreign
  PROVE  i \in DOMAIN rx_mbufs /\ data_seq \in 0..MaxSent-1 /\ data_seq \in Nat
  <1>1. i \in DOMAIN rx_mbufs
    BY DEF Typed, TypeOK, InHand, InBurst
  <1>2. data_seq \in Packet
    BY <1>1 DEF Typed, TypeOK, data_seq, Packet
  <1> QED
    BY <1>1, <1>2 DEF Packet

\* The steps that leave the packet in hand alone.
SamePacket == UNCHANGED <<pc, rx_mbufs, i, record>>

\* A step that leaves the packet in hand keeps InHand.
LEMMA SamePacketStep == InHand /\ SamePacket => InHand'
  BY DEF InHand, SamePacket, data_seq, record_count

\* Typed is kept by every step.
LEMMA TypedStep == Typed /\ [Next]_vars => Typed'
  <1> SUFFICES ASSUME Typed, [Next]_vars PROVE Typed'
    OBVIOUS
  <1>0. TypeOK /\ InHand
    BY DEF Typed
  <1>1. CASE Send
    BY <1>0, <1>1, SamePacketStep DEF Send, loopVars, counters, SamePacket, Typed, TypeOK
  <1>2. CASE ForeignArrives
    <2>1. rx_queue' \in Seq(0..MaxSent-1 \cup {Foreign}) /\ free' \in Nat /\ foreign' \in Nat
      BY <1>0, <1>2 DEF ForeignArrives, Fill, TypeOK
    <2>2. UNCHANGED <<sent, network, stop_requested, loopVars>>
      BY <1>2 DEF ForeignArrives
    <2> QED
      BY <1>0, <2>1, <2>2, SamePacketStep DEF loopVars, counters, SamePacket, Typed, TypeOK
  <1>3. CASE Signal
    <2>1. stop_requested' \in BOOLEAN /\ UNCHANGED <<nicVars, rx_queue, free, loopVars>>
      BY <1>3 DEF Signal
    <2> QED
      BY <1>0, <2>1, SamePacketStep
      DEF nicVars, loopVars, counters, SamePacket, Typed, TypeOK
  <1>4. ASSUME NEW s \in 0..MaxSent-1, Arrive(s) PROVE Typed'
    <2>1. rx_queue' \in Seq(0..MaxSent-1 \cup {Foreign}) /\ free' \in Nat
      BY <1>0, <1>4 DEF Arrive, Fill, TypeOK
    <2>2. network' \in [0..MaxSent-1 -> Nat]
      BY <1>0, <1>4 DEF Arrive, TypeOK
    <2>3. UNCHANGED <<sent, foreign, stop_requested, loopVars>>
      BY <1>4 DEF Arrive
    <2> QED
      BY <1>0, <2>1, <2>2, <2>3, SamePacketStep
      DEF loopVars, counters, SamePacket, Typed, TypeOK
  <1>5. ASSUME NEW s \in 0..MaxSent-1, Missed(s) PROVE Typed'
    BY <1>0, <1>5, SamePacketStep DEF Missed, loopVars, counters, SamePacket, Typed, TypeOK
  <1>6. CASE Stop
    BY <1>0, <1>6 DEF Stop, nicVars, counters, Typed, TypeOK, InHand
  <1>7. CASE RxBurst
    <2> PICK received \in 1..RX_BURST_SIZE :
               /\ received <= Len(rx_queue)
               /\ rx_mbufs' = SubSeq(rx_queue, 1, received)
               /\ rx_queue' = SubSeq(rx_queue, received + 1, Len(rx_queue))
      BY <1>7 DEF RxBurst
    <2>1. rx_queue \in Seq(Packet)
      BY <1>0 DEF TypeOK, Packet
    <2>2. rx_mbufs' \in Seq(Packet) /\ rx_queue' \in Seq(Packet)
      BY <2>1, SubSeqProperties
    <2> QED
      BY <1>0, <1>7, <2>2 DEF RxBurst, nicVars, counters, Typed, TypeOK, InHand, Packet
  <1>8. CASE Invalid
    BY <1>0, <1>8 DEF Invalid, Reject, InBurst, nicVars, Typed, TypeOK, InHand
  <1>9. CASE Stale
    BY <1>0, <1>9 DEF Stale, Reject, InBurst, nicVars, Typed, TypeOK, InHand
  <1>10. CASE Accept
    <2>1. i \in DOMAIN rx_mbufs /\ data_seq \in Nat
      BY <1>10, PacketInHand DEF Accept
    <2>2. expected \in Nat /\ NewlyMissing \in Nat
      BY <1>0, <1>10, <2>1 DEF Accept, expected, NewlyMissing, TypeOK
    <2>3. TypeOK'
      <3> QED
        BY <1>0, <1>10, <2>1, <2>2 DEF Accept, nicVars, TypeOK
    <2>4. record_count(data_seq) \in Nat
      BY <2>1, RecordCountType
    <2>5. data_seq' = data_seq /\ record' = 0 /\ i' = i /\ rx_mbufs' = rx_mbufs
      BY <1>10 DEF Accept, data_seq
    <2>6. record_count(data_seq)' = record_count(data_seq)
      BY <2>5 DEF record_count
    <2>7. InHand'
      BY <1>10, <2>1, <2>4, <2>5, <2>6 DEF Accept, InHand
    <2> QED
      BY <2>3, <2>7 DEF Typed
  <1>11. CASE WriteFrame
    <2>1. i \in DOMAIN rx_mbufs /\ data_seq \in Nat
      BY <1>0, <1>11, PacketInHand DEF WriteFrame, InHand
    <2>2. record_count(data_seq) \in Nat
      BY <2>1, RecordCountType
    <2>3. TypeOK'
      BY <1>0, <1>11, <2>1 DEF WriteFrame, nicVars, counters, TypeOK
    <2>4. record_count(data_seq)' = record_count(data_seq) /\ data_seq' = data_seq
      BY <1>11 DEF WriteFrame, record_count, data_seq
    <2>5. InHand'
      BY <1>0, <1>11, <2>1, <2>2, <2>4 DEF WriteFrame, InHand, TypeOK
    <2> QED
      BY <2>3, <2>5 DEF Typed
  <1>12. CASE Written
    <2>1. data_seq \in Nat
      BY <1>0, <1>12, PacketInHand DEF Written, InHand
    <2>2. record_count(data_seq) \in Nat
      BY <2>1, RecordCountType
    <2>3. next_data_seq' \in Nat /\ frames_published' \in Nat
      <3>1. frames_published \in Nat
        BY <1>0 DEF TypeOK
      <3>2. /\ next_data_seq' = data_seq + 1
            /\ frames_published' = frames_published + record_count(data_seq)
        BY <1>12 DEF Written
      <3> QED
        BY <2>1, <2>2, <3>1, <3>2
    <2>4. data_packets_accepted' \in Nat /\ i' \in Nat \ {0}
      BY <1>0, <1>12 DEF Written, TypeOK
    <2>5. pc' = "packet"
      BY <1>12 DEF Written
    <2> QED
      BY <1>0, <1>12, <2>3, <2>4, <2>5 DEF Written, nicVars, Typed, TypeOK, InHand
  <1>13. CASE FreeBurst
    BY <1>0, <1>13 DEF FreeBurst, nicVars, counters, Typed, TypeOK, InHand
  <1>14. CASE UNCHANGED vars
    BY <1>0, <1>14, SamePacketStep DEF vars, nicVars, counters, SamePacket, Typed, TypeOK
  <1> QED
    BY <1>1, <1>2, <1>3, <1>4, <1>5, <1>6, <1>7, <1>8, <1>9, <1>10, <1>11, <1>12,
       <1>13, <1>14 DEF Next, Loop

\* Every variable of the receiver keeps its type.
THEOREM TypeCorrect == Spec => []TypeOK
  <1>1. Typed => TypeOK
    BY DEF Typed
  <1> QED
    BY <1>1, TypedInit, TypedStep, PTL DEF Spec
-----------------------------------------------------------------------------
(* The mbufs *)

MbufInv ==
  /\ free + Len(rx_queue) + Len(rx_mbufs) = RxMbufs
  /\ Len(rx_queue) <= RxDesc
  /\ Len(rx_mbufs) <= RX_BURST_SIZE
  /\ pc \in {"poll", "done"} => Len(rx_mbufs) = 0

\* MbufInv is kept by every step.
LEMMA MbufStep == Typed /\ MbufInv /\ [Next]_vars => MbufInv'
  <1> SUFFICES ASSUME Typed, MbufInv, [Next]_vars PROVE MbufInv'
    OBVIOUS
  <1>0. /\ TypeOK
        /\ Len(rx_queue) \in Nat /\ Len(rx_mbufs) \in Nat /\ free \in Nat
    BY DEF Typed, TypeOK
  <1>1. CASE Send
    BY <1>0, <1>1 DEF Send, loopVars, MbufInv
  <1>2. ASSUME NEW packet \in Packet, Fill(packet), UNCHANGED loopVars
        PROVE  MbufInv'
    <2>1. Len(rx_queue') = Len(rx_queue) + 1
      BY <1>0, <1>2 DEF Fill, TypeOK, Packet
    <2>2. Len(rx_queue) < RxDesc /\ free' = free - 1 /\ UNCHANGED <<pc, rx_mbufs>>
      BY <1>2 DEF Fill, loopVars
    <2>3. free + Len(rx_queue) + Len(rx_mbufs) = RxMbufs
      BY DEF MbufInv
    <2>4. free' + Len(rx_queue') + Len(rx_mbufs') = RxMbufs
      BY <1>0, <2>1, <2>2, <2>3
    <2>5. Len(rx_queue') <= RxDesc
      BY <1>0, <2>1, <2>2
    <2> QED
      BY <2>2, <2>4, <2>5 DEF MbufInv
  <1>3. CASE ForeignArrives
    BY <1>2, <1>3 DEF ForeignArrives, Packet
  <1>4. CASE Signal
    BY <1>0, <1>4 DEF Signal, loopVars, MbufInv
  <1>5. ASSUME NEW s \in 0..MaxSent-1, Arrive(s) PROVE MbufInv'
    BY <1>2, <1>5 DEF Arrive, Packet
  <1>6. ASSUME NEW s \in 0..MaxSent-1, Missed(s) PROVE MbufInv'
    BY <1>0, <1>6 DEF Missed, loopVars, MbufInv
  <1>7. CASE Stop
    BY <1>0, <1>7 DEF Stop, MbufInv
  <1>8. CASE RxBurst
    <2> PICK received \in 1..RX_BURST_SIZE :
               /\ received <= Len(rx_queue)
               /\ rx_mbufs' = SubSeq(rx_queue, 1, received)
               /\ rx_queue' = SubSeq(rx_queue, received + 1, Len(rx_queue))
      BY <1>8 DEF RxBurst
    <2>1. rx_queue \in Seq(Packet) /\ received \in Int
      BY <1>0 DEF TypeOK, Packet
    <2>2. \A j \in 1..Len(rx_queue) : rx_queue[j] \in Packet
      BY <2>1
    <2>3. Len(rx_mbufs') = received
      BY <1>0, <2>1, <2>2, SubSeqProperties
    <2>4. Len(rx_queue') = Len(rx_queue) - received
      <3>1. \A j \in received+1..Len(rx_queue) : rx_queue[j] \in Packet
        BY <1>0, <2>1, <2>2
      <3>2. Len(rx_queue') = IF received + 1 <= Len(rx_queue)
                               THEN Len(rx_queue) - (received + 1) + 1 ELSE 0
        BY <1>0, <2>1, <3>1, SubSeqProperties
      <3> QED
        BY <1>0, <2>1, <3>2
    <2>5. pc = "poll" /\ pc' = "packet" /\ free' = free
      BY <1>8 DEF RxBurst
    <2>6. /\ free + Len(rx_queue) + Len(rx_mbufs) = RxMbufs
          /\ Len(rx_queue) <= RxDesc /\ Len(rx_mbufs) = 0
      BY <2>5 DEF MbufInv
    <2>7. free' + Len(rx_queue') + Len(rx_mbufs') = RxMbufs
      <3>1. free' + Len(rx_queue') + Len(rx_mbufs') = free + (Len(rx_queue) - received) + received
        BY <2>3, <2>4, <2>5, Zenon
      <3>2. free + (Len(rx_queue) - received) + received = RxMbufs
        BY <1>0, <2>6
      <3> QED
        BY <3>1, <3>2
    <2>8. Len(rx_queue') <= RxDesc /\ Len(rx_mbufs') <= RX_BURST_SIZE
      BY <1>0, <2>3, <2>4, <2>6
    <2> QED
      BY <2>5, <2>7, <2>8 DEF MbufInv
  <1>9. ASSUME Invalid \/ Stale \/ Accept \/ WriteFrame \/ Written PROVE MbufInv'
    <2>1. UNCHANGED <<free, rx_queue, rx_mbufs>> /\ pc' \in {"packet", "write"}
      BY <1>9 DEF Invalid, Stale, Reject, InBurst, Accept, WriteFrame, Written
    <2> QED
      BY <1>0, <2>1 DEF MbufInv
  <1>10. CASE FreeBurst
    BY <1>0, <1>10 DEF FreeBurst, MbufInv
  <1>11. CASE UNCHANGED vars
    BY <1>0, <1>11 DEF vars, MbufInv
  <1> QED
    BY <1>1, <1>3, <1>4, <1>5, <1>6, <1>7, <1>8, <1>9, <1>10, <1>11 DEF Next, Loop

\* No mbuf is lost or freed twice on any path through a burst, and a pool larger
\* than ring and burst together never runs dry.
THEOREM NoMbufLost == Spec => []MbufsConserved
  <1>1. Init => MbufInv
    BY DEF Init, MbufInv
  <1>2. Typed /\ MbufInv => MbufsConserved
    BY DEF Typed, TypeOK, MbufInv, MbufsConserved
  <1> QED
    BY <1>1, <1>2, TypedInit, TypedStep, MbufStep, PTL DEF Spec
-----------------------------------------------------------------------------
(* The packets *)

\* PacketsAccounted is kept by every step.
LEMMA AccountingStep == Typed /\ PacketsAccounted /\ [Next]_vars => PacketsAccounted'
  <1> SUFFICES ASSUME Typed, PacketsAccounted, [Next]_vars PROVE PacketsAccounted'
    OBVIOUS
  <1>0. /\ Len(accepted) \in Nat /\ Len(published) \in Nat /\ record \in Nat
        /\ rx_packets \in Nat /\ invalid_lldt_packets \in Nat
        /\ stale_data_packets \in Nat /\ data_packets_accepted \in Nat
        /\ frames_published \in Nat
    BY DEF Typed, TypeOK
  <1>1. ASSUME UNCHANGED <<counters, published, accepted, record>>,
               (pc # "write" /\ pc' # "write") \/ UNCHANGED pc
        PROVE  PacketsAccounted'
    BY <1>1 DEF counters, PacketsAccounted
  <1>2. ASSUME \/ Send \/ ForeignArrives \/ Signal \/ UNCHANGED vars
               \/ \E s \in 0..MaxSent-1 : Arrive(s) \/ Missed(s)
        PROVE  PacketsAccounted'
    BY <1>1, <1>2 DEF Send, ForeignArrives, Signal, Arrive, Missed, loopVars, vars
  <1>3. ASSUME Stop \/ RxBurst \/ FreeBurst PROVE PacketsAccounted'
    BY <1>1, <1>3 DEF Stop, RxBurst, FreeBurst
  <1>4. ASSUME Invalid \/ Stale PROVE PacketsAccounted'
    <2>1. /\ UNCHANGED <<accepted, published, data_packets_accepted, frames_published>>
          /\ pc = "packet" /\ pc' = "packet"
          /\ rx_packets' = rx_packets + 1
      BY <1>4 DEF Invalid, Stale, Reject, InBurst
    <2>2. invalid_lldt_packets' + stale_data_packets'
            = invalid_lldt_packets + stale_data_packets + 1
      BY <1>0, <1>4 DEF Invalid, Stale
    <2> QED
      BY <1>0, <2>1, <2>2 DEF PacketsAccounted
  <1>5. CASE Accept
    <2>1. data_seq \in Nat
      BY <1>5, PacketInHand DEF Accept
    <2>2. Len(accepted') = Len(accepted) + 1
      BY <1>5, <2>1 DEF Accept, Typed, TypeOK
    <2>3. /\ pc = "packet" /\ pc' = "write" /\ record' = 0
          /\ rx_packets' = rx_packets + 1
          /\ UNCHANGED <<published, invalid_lldt_packets, stale_data_packets,
                         data_packets_accepted, frames_published>>
      BY <1>5 DEF Accept, InBurst
    <2> QED
      BY <1>0, <2>2, <2>3 DEF PacketsAccounted
  <1>6. CASE WriteFrame
    <2>1. Len(published') = Len(published) + 1
      BY <1>6 DEF WriteFrame, Typed, TypeOK
    <2>2. /\ pc = "write" /\ pc' = "write" /\ record' = record + 1
          /\ UNCHANGED <<counters, accepted>>
      BY <1>6 DEF WriteFrame
    <2> QED
      BY <1>0, <2>1, <2>2 DEF PacketsAccounted, counters
  <1>7. CASE Written
    <2>1. /\ pc = "write" /\ pc' = "packet"
          /\ data_packets_accepted' = data_packets_accepted + 1
          /\ frames_published' = frames_published + record
          /\ UNCHANGED <<accepted, published, rx_packets, invalid_lldt_packets,
                         stale_data_packets>>
      BY <1>7 DEF Written
    <2> QED
      BY <1>0, <2>1 DEF PacketsAccounted
  <1> QED
    BY <1>2, <1>3, <1>4, <1>5, <1>6, <1>7 DEF Next, Loop

\* Every packet taken from the NIC is counted once, and every frame published.
THEOREM Accounting == Spec => []PacketsAccounted
  <1>1. Init => PacketsAccounted
    BY DEF Init, PacketsAccounted
  <1> QED
    BY <1>1, TypedInit, TypedStep, AccountingStep, PTL DEF Spec
-----------------------------------------------------------------------------
(* The order of the packets.  next_data_seq is one more than the last packet *)
(* written, and nothing arrives that was not sent.                          *)

OnlySent ==
  /\ \A s \in 0..MaxSent-1 : network[s] > 0 => s < sent
  /\ \A j \in DOMAIN rx_queue : rx_queue[j] < sent
  /\ \A j \in DOMAIN rx_mbufs : rx_mbufs[j] < sent

Expecting ==
  /\ data_seq_established <=> accepted # <<>>
  /\ \A j \in DOMAIN accepted : accepted[j] <= Last(accepted)
  /\ accepted # <<>> => IF pc = "write" THEN Last(accepted) = data_seq
                                        ELSE Last(accepted) + 1 = next_data_seq

\* OnlySent is kept by every step.
LEMMA OnlySentStep == Typed /\ OnlySent /\ [Next]_vars => OnlySent'
  <1> SUFFICES ASSUME Typed, OnlySent, [Next]_vars PROVE OnlySent'
    OBVIOUS
  <1>0. TypeOK
    BY DEF Typed
  <1>1. CASE Send
    <2>1. sent \in Nat /\ sent' = sent + 1
      BY <1>0, <1>1 DEF Send, TypeOK
    <2>2. \A s \in 0..MaxSent-1 : network'[s] > 0 => s < sent'
      BY <1>0, <1>1, <2>1 DEF Send, OnlySent, TypeOK
    <2>3. \A j \in DOMAIN rx_queue : rx_queue[j] \in Int
      BY <1>0 DEF TypeOK
    <2>4. \A j \in DOMAIN rx_mbufs : rx_mbufs[j] \in Int
      BY <1>0 DEF TypeOK
    <2> QED
      BY <1>1, <2>1, <2>2, <2>3, <2>4 DEF Send, loopVars, OnlySent
  <1>2. ASSUME NEW packet \in Packet, packet < sent, Fill(packet),
               \A s \in 0..MaxSent-1 : network'[s] > 0 => network[s] > 0,
               UNCHANGED <<sent, rx_mbufs>>
        PROVE  OnlySent'
    <2>1. rx_queue' = Append(rx_queue, packet) /\ rx_queue \in Seq(Packet)
      BY <1>0, <1>2 DEF Fill, TypeOK, Packet
    <2>2. \A j \in DOMAIN rx_queue' :
            rx_queue'[j] = packet \/ (j \in DOMAIN rx_queue /\ rx_queue'[j] = rx_queue[j])
      BY <2>1, AppendProperties, LenProperties
    <2> QED
      BY <1>2, <2>2 DEF OnlySent
  <1>3. CASE ForeignArrives
    <2>1. Foreign \in Packet /\ Foreign < sent
      BY <1>0 DEF TypeOK, Packet
    <2> QED
      BY <1>2, <1>3, <2>1 DEF ForeignArrives, loopVars
  <1>4. ASSUME NEW s \in 0..MaxSent-1, Arrive(s) PROVE OnlySent'
    <2>1. s \in Packet /\ s < sent
      BY <1>4 DEF Arrive, OnlySent, Packet
    <2>2. \A p \in 0..MaxSent-1 : network'[p] > 0 => network[p] > 0
      BY <1>0, <1>4 DEF Arrive, TypeOK
    <2> QED
      BY <1>2, <1>4, <2>1, <2>2 DEF Arrive, loopVars
  <1>5. ASSUME NEW s \in 0..MaxSent-1, Missed(s) PROVE OnlySent'
    <2>1. \A p \in 0..MaxSent-1 : network'[p] > 0 => network[p] > 0
      BY <1>0, <1>5 DEF Missed, TypeOK
    <2> QED
      BY <1>5, <2>1 DEF Missed, loopVars, OnlySent
  <1>6. CASE RxBurst
    <2> PICK received \in 1..RX_BURST_SIZE :
               /\ received <= Len(rx_queue)
               /\ rx_mbufs' = SubSeq(rx_queue, 1, received)
               /\ rx_queue' = SubSeq(rx_queue, received + 1, Len(rx_queue))
      BY <1>6 DEF RxBurst
    <2> DEFINE Below == {p \in Packet : p < sent}
    <2>1. rx_queue \in Seq(Packet) /\ Len(rx_queue) \in Nat
      BY <1>0 DEF TypeOK, Packet
    <2>2. \A j \in 1..Len(rx_queue) : rx_queue[j] \in Below
      BY <2>1 DEF OnlySent
    <2>3. rx_mbufs' \in Seq(Below) /\ rx_queue' \in Seq(Below)
      BY <2>1, <2>2, SubSeqProperties
    <2> QED
      BY SMTT(60), <1>6, <2>3 DEF RxBurst, nicVars, OnlySent
  <1>7. ASSUME UNCHANGED <<nicVars, rx_queue, rx_mbufs>> PROVE OnlySent'
    BY <1>7 DEF nicVars, OnlySent
  <1>8. ASSUME \/ Signal \/ Stop \/ Invalid \/ Stale \/ Accept \/ WriteFrame \/ Written
               \/ UNCHANGED vars
        PROVE  OnlySent'
    BY <1>7, <1>8 DEF Signal, Stop, Invalid, Stale, Reject, Accept, WriteFrame, Written,
                      loopVars, vars
  <1>9. CASE FreeBurst
    BY <1>9 DEF FreeBurst, nicVars, OnlySent
  <1> QED
    BY <1>1, <1>3, <1>4, <1>5, <1>6, <1>8, <1>9 DEF Next, Loop

\* What Accept does, given what the receiver expects.
LEMMA AcceptStep ==
  ASSUME Typed, Expecting, Accept
  PROVE  /\ data_seq \in Nat /\ i \in DOMAIN rx_mbufs
         /\ accepted \in Seq(Nat) /\ accepted' = Append(accepted, data_seq)
         /\ accepted # <<>> => /\ Last(accepted) \in Nat
                                /\ Last(accepted) < data_seq
                                /\ NewlyMissing = data_seq - Last(accepted) - 1
         /\ accepted = <<>> => NewlyMissing = 0
  <1>1. data_seq \in Nat /\ i \in DOMAIN rx_mbufs /\ pc = "packet" /\ data_seq >= expected
    BY PacketInHand DEF Accept, InBurst
  <1>2. accepted \in Seq(Nat) /\ next_data_seq \in Nat
    BY DEF Typed, TypeOK
  <1>3. ASSUME accepted # <<>> PROVE Last(accepted) \in Nat
    BY <1>2, <1>3, LastType
  <1>4. ASSUME accepted # <<>>
        PROVE  Last(accepted) < data_seq /\ NewlyMissing = data_seq - Last(accepted) - 1
    <2>1. expected = next_data_seq /\ Last(accepted) + 1 = next_data_seq
      BY <1>1, <1>4 DEF Expecting, expected
    <2>2. NewlyMissing = data_seq - next_data_seq /\ data_seq >= next_data_seq
      BY <1>1, <2>1 DEF NewlyMissing
    <2>3. Last(accepted) \in Nat
      BY <1>3, <1>4
    <2>4. data_seq \in Nat /\ next_data_seq = Last(accepted) + 1
      BY <1>1, <2>1
    <2>5. Last(accepted) < data_seq
      BY <2>2, <2>3, <2>4
    <2>6. NewlyMissing = data_seq - (Last(accepted) + 1)
      BY <2>2, <2>4
    <2> QED
      BY <2>3, <2>4, <2>5, <2>6
  <1>5. ASSUME accepted = <<>> PROVE NewlyMissing = 0
    BY <1>1, <1>5 DEF Expecting, expected, NewlyMissing
  <1>6. accepted' = Append(accepted, data_seq)
    BY DEF Accept
  <1> QED
    BY <1>1, <1>2, <1>3, <1>4, <1>5, <1>6

\* Expecting is kept by every step.
LEMMA ExpectingStep == Typed /\ Expecting /\ [Next]_vars => Expecting'
  <1> SUFFICES ASSUME Typed, Expecting, [Next]_vars PROVE Expecting'
    OBVIOUS
  <1>1. ASSUME UNCHANGED <<data_seq_established, next_data_seq, accepted>>,
               \/ (pc # "write" /\ pc' # "write")
               \/ UNCHANGED <<pc, rx_mbufs, i>>
        PROVE  Expecting'
    BY <1>1 DEF Expecting, Last, data_seq
  <1>2. ASSUME \/ Send \/ ForeignArrives \/ Signal \/ UNCHANGED vars
               \/ \E s \in 0..MaxSent-1 : Arrive(s) \/ Missed(s)
        PROVE  Expecting'
    BY <1>1, <1>2 DEF Send, ForeignArrives, Signal, Arrive, Missed, loopVars, vars
  <1>3. ASSUME Stop \/ RxBurst \/ FreeBurst \/ Invalid \/ Stale PROVE Expecting'
    BY <1>1, <1>3 DEF Stop, RxBurst, FreeBurst, Invalid, Stale, Reject, InBurst
  <1>4. CASE WriteFrame
    BY <1>1, <1>4 DEF WriteFrame
  <1>5. CASE Accept
    <2> DEFINE longer == Append(accepted, data_seq)
    <2>0. accepted' = longer /\ accepted \in Seq(Nat) /\ data_seq \in Nat
      BY <1>5, AcceptStep
    <2>1. /\ longer # <<>> /\ Last(longer) = data_seq
          /\ \A j \in DOMAIN longer :
               longer[j] = data_seq \/ (j \in DOMAIN accepted /\ longer[j] = accepted[j])
      BY <2>0, AppendLast
    <2>2. \A j \in DOMAIN accepted : accepted[j] < data_seq
      <3> TAKE j \in DOMAIN accepted
      <3>1. accepted \in Seq(Nat) /\ accepted[j] \in Nat /\ accepted # <<>>
        BY DEF Typed, TypeOK
      <3>2. accepted[j] <= Last(accepted)
        BY DEF Expecting
      <3> QED
        BY <1>5, <3>1, <3>2, AcceptStep
    <2>3. data_seq' = data_seq /\ data_seq \in Nat
      BY <1>5, AcceptStep DEF Accept, data_seq
    <2>4. pc' = "write" /\ data_seq_established' = TRUE
      BY <1>5 DEF Accept
    <2>5. \A j \in DOMAIN longer : longer[j] <= Last(longer)
      <3> TAKE j \in DOMAIN longer
      <3>1. CASE longer[j] = data_seq
        BY <2>0, <2>1, <3>1
      <3>2. CASE j \in DOMAIN accepted /\ longer[j] = accepted[j]
        <4>1. accepted[j] \in Nat /\ accepted[j] < data_seq
          BY <2>0, <2>2, <3>2
        <4> QED
          BY <2>0, <2>1, <3>2, <4>1
      <3> QED
        BY <2>1, <3>1, <3>2
    <2> HIDE DEF longer
    <2> QED
      BY <2>0, <2>1, <2>3, <2>4, <2>5 DEF Expecting
  <1>6. CASE Written
    <2>1. data_seq_established' = data_seq_established /\ accepted' = accepted
      BY <1>6 DEF Written
    <2>2. pc = "write" /\ pc' = "packet" /\ next_data_seq' = data_seq + 1
      BY <1>6 DEF Written
    <2> QED
      BY <2>1, <2>2 DEF Expecting, Last
  <1> QED
    BY <1>2, <1>3, <1>4, <1>5, <1>6 DEF Next, Loop
-----------------------------------------------------------------------------
(* The receiver makes the network a channel that only loses packets *)

OrderInv == Typed /\ OnlySent /\ Expecting

\* OrderInv holds initially.
LEMMA OrderInit == Init => OrderInv
  <1>1. ASSUME Init PROVE OnlySent
    BY <1>1 DEF Init, OnlySent
  <1>2. ASSUME Init PROVE Expecting
    BY <1>2 DEF Init, Expecting
  <1> QED
    BY <1>1, <1>2, TypedInit DEF OrderInv

\* OrderInv is kept by every step.
LEMMA OrderStep == OrderInv /\ [Next]_vars => OrderInv'
  BY TypedStep, OnlySentStep, ExpectingStep DEF OrderInv

\* Every step of the receiver is one of the lossy channel or none.
LEMMA ChannelStep == OrderInv /\ [Next]_vars => [Channel!Next]_(Channel!channelVars)
  <1> SUFFICES ASSUME OrderInv, [Next]_vars
               PROVE  [Channel!Next]_(Channel!channelVars)
    OBVIOUS
  <1> USE DEF Channel!Next, Channel!channelVars
  <1>1. CASE Send
    BY <1>1 DEF Send, loopVars, Channel!Send
  <1>2. CASE Accept
    <2>1. data_seq \in Nat /\ i \in DOMAIN rx_mbufs /\ accepted \in Seq(Nat)
      BY <1>2, AcceptStep DEF OrderInv
    <2>2. data_seq \in 0..sent-1
      BY <2>1 DEF OrderInv, OnlySent, Typed, TypeOK, data_seq
    <2>3. \A j \in 1..Len(accepted) : accepted[j] < data_seq
      <3> TAKE j \in 1..Len(accepted)
      <3>1. j \in DOMAIN accepted /\ accepted[j] \in Nat /\ accepted # <<>>
        BY <2>1
      <3>2. accepted[j] <= Last(accepted)
        BY <3>1 DEF OrderInv, Expecting
      <3> QED
        BY <1>2, <3>1, <3>2, AcceptStep DEF OrderInv
    <2>4. accepted' = Append(accepted, data_seq) /\ sent' = sent
      BY <1>2 DEF Accept, nicVars
    <2> QED
      BY <2>2, <2>3, <2>4 DEF Channel!Accept
  <1>3. ASSUME \/ ForeignArrives \/ Signal \/ UNCHANGED vars
               \/ \E s \in 0..MaxSent-1 : Arrive(s) \/ Missed(s)
               \/ Stop \/ RxBurst \/ Invalid \/ Stale \/ WriteFrame \/ Written \/ FreeBurst
        PROVE  UNCHANGED <<sent, accepted>>
    BY <1>3 DEF ForeignArrives, Signal, Arrive, Missed, Stop, RxBurst, Invalid, Stale, Reject,
                WriteFrame, Written, FreeBurst, nicVars, loopVars, vars
  <1> QED
    BY <1>1, <1>2, <1>3 DEF Next, Loop

\* Packets come out in the order of data_seq and none twice, whatever the network
\* loses, duplicates or reorders.
THEOREM Refinement == Spec => ImplementsChannel
  <1>1. Init => Channel!Init
    BY DEF Init, Channel!Init
  <1> QED
    BY <1>1, OrderInit, OrderStep, ChannelStep, PTL
    DEF Spec, ImplementsChannel, Channel!Spec
-----------------------------------------------------------------------------
(* The count of missing packets *)

Skipped(a) == (a[1]..Last(a)) \ ToSet(a)
Gaps(a) == {j \in 1..Len(a)-1 : a[j+1] # a[j] + 1}

\* How many numbers lie between two.
LEMMA Between ==
  ASSUME NEW l \in Nat, NEW s \in Nat, l < s
  PROVE  /\ IsFiniteSet((l+1)..(s-1))
         /\ Cardinality((l+1)..(s-1)) = s - l - 1
  <1> DEFINE p == l + 1
             q == s - 1
  <1>1. p \in Int /\ q \in Int /\ q - p + 1 = s - l - 1
        /\ (p > q => s - l - 1 = 0)
    OBVIOUS
  <1> HIDE DEF p, q
  <1>2. IsFiniteSet(p..q) /\ Cardinality(p..q) = IF p > q THEN 0 ELSE q - p + 1
    BY <1>1, FS_Interval
  <1>3. IsFiniteSet(p..q) /\ Cardinality(p..q) = s - l - 1
    BY <1>1, <1>2
  <1> QED
    BY <1>3 DEF p, q

\* One more packet adds the data sequences it skips to the missing ones, and at
\* most one gap.
LEMMA OneMore ==
  ASSUME NEW a \in Seq(Nat), a # <<>>, \A j \in DOMAIN a : a[j] <= Last(a),
         NEW s \in Nat, Last(a) < s
  PROVE  LET b == Append(a, s)
         IN  /\ Cardinality(Skipped(b)) = Cardinality(Skipped(a)) + (s - Last(a) - 1)
             /\ Cardinality(Gaps(b)) = Cardinality(Gaps(a))
                                       + (IF s - Last(a) - 1 > 0 THEN 1 ELSE 0)
  <1> DEFINE b == Append(a, s)
             l == Last(a)
             n == Len(a)
             new == (l+1)..(s-1)
  <1>1. /\ l \in Nat /\ a[1] \in Nat /\ a[1] <= l /\ Len(a) \in Nat \ {0}
        /\ DOMAIN a = 1..Len(a) /\ l = a[Len(a)]
    BY LastType DEF Last
  <1>2. /\ b \in Seq(Nat) /\ Len(b) = Len(a) + 1 /\ Last(b) = s
        /\ \A j \in 1..Len(a) : b[j] = a[j]
        /\ DOMAIN b = 1..Len(a)+1 /\ b[Len(a)+1] = s
    BY <1>1, AppendLast DEF Last
  <1>len. n \in Nat \ {0} /\ n = Len(a)
    BY <1>1
  <1> HIDE DEF b, l, n
  <1>3. ToSet(b) = ToSet(a) \cup {s}
    <2>1. ASSUME NEW x \in ToSet(b) PROVE x \in ToSet(a) \cup {s}
      <3>1. PICK j \in 1..(n+1) : x = b[j]
        BY <1>2, <1>len, <2>1 DEF ToSet
      <3>2. CASE j = n + 1
        BY <1>2, <1>len, <3>1, <3>2
      <3>3. CASE j # n + 1
        <4>1. j \in 1..n
          BY <1>len, <3>1, <3>3
        <4>2. j \in DOMAIN a /\ x = a[j]
          BY <1>1, <1>2, <1>len, <3>1, <4>1
        <4> QED
          BY <4>2 DEF ToSet
      <3> QED
        BY <3>2, <3>3
    <2>2. ASSUME NEW x \in ToSet(a) PROVE x \in ToSet(b)
      <3>1. PICK j \in 1..Len(a) : x = a[j]
        BY <1>1, <2>2 DEF ToSet
      <3>2. j \in DOMAIN b /\ x = b[j]
        BY <1>1, <1>2, <3>1
      <3> QED
        BY <3>2 DEF ToSet
    <2>3. s \in ToSet(b)
      <3>1. Len(a)+1 \in DOMAIN b
        BY <1>1, <1>2
      <3> QED
        BY <1>2, <3>1 DEF ToSet
    <2> QED
      BY <2>1, <2>2, <2>3
  <1>4. \A x \in ToSet(a) : x \in Nat /\ x <= l
    <2> TAKE x \in ToSet(a)
    <2>1. PICK j \in DOMAIN a : x = a[j]
      BY DEF ToSet
    <2> QED
      BY <2>1 DEF l
  <1>5. Skipped(b) = Skipped(a) \cup new /\ Skipped(a) \cap new = {}
    <2>1. Skipped(a) = (a[1]..l) \ ToSet(a)
      BY DEF Skipped, l
    <2>2. Skipped(b) = (a[1]..s) \ (ToSet(a) \cup {s})
      <3>1. b[1] = a[1]
        BY <1>1, <1>2
      <3> QED
        BY <1>2, <1>3, <3>1 DEF Skipped
    <2>3. l < s
      BY DEF l
    <2> QED
      BY <1>1, <1>4, <2>1, <2>2, <2>3
  <1>6. Cardinality(Skipped(b)) = Cardinality(Skipped(a)) + (s - l - 1)
    <2>1. IsFiniteSet(new) /\ Cardinality(new) = s - l - 1
      <3>1. l < s
        BY DEF l
      <3> QED
        BY <1>1, <3>1, Between
    <2>2. IsFiniteSet(Skipped(a))
      <3>1. IsFiniteSet(a[1]..l)
        <4>1. a[1] \in Int /\ l \in Int
          BY <1>1
        <4> QED
          BY <4>1, FS_Interval
      <3> QED
        BY <3>1, FS_Difference DEF Skipped, l
    <2>3. Cardinality(Skipped(a)) \in Nat
      BY <2>2, FS_CardinalityType
    <2>4. Cardinality(Skipped(b)) = Cardinality(Skipped(a)) + Cardinality(new) - Cardinality({})
      <3> HIDE DEF new
      <3>1. Cardinality(Skipped(a) \cup new)
              = Cardinality(Skipped(a)) + Cardinality(new) - Cardinality(Skipped(a) \cap new)
        BY <2>1, <2>2, FS_Union
      <3> QED
        BY <1>5, <3>1, Zenon
    <2> QED
      BY <1>1, <2>1, <2>3, <2>4, FS_EmptySet
  <1>7. Gaps(b) = Gaps(a) \cup (IF s = l + 1 THEN {} ELSE {n})
    <2>1. Gaps(b) = {j \in 1..n : b[j+1] # b[j] + 1}
      BY <1>2, <1>len DEF Gaps
    <2>2. Gaps(a) = {j \in 1..(n-1) : a[j+1] # a[j] + 1}
      BY <1>len DEF Gaps
    <2>3. 1..n = 1..(n-1) \cup {n}
      BY <1>len
    <2>4. ASSUME NEW j \in 1..(n-1) PROVE j # n /\ b[j+1] = a[j+1] /\ b[j] = a[j]
      <3>1. j \in 1..n /\ j + 1 \in 1..n /\ j # n
        BY <1>len
      <3> QED
        BY <1>2, <1>len, <3>1
    <2>5. b[n] = l /\ b[n+1] = s
      BY <1>1, <1>2, <1>len
    <2>6. {j \in 1..(n-1) : b[j+1] # b[j] + 1} = Gaps(a)
      BY <2>2, <2>4
    <2>7. {j \in {n} : b[j+1] # b[j] + 1} = IF s = l + 1 THEN {} ELSE {n}
      BY <2>5
    <2> QED
      BY <2>1, <2>3, <2>6, <2>7
  <1>8. Cardinality(Gaps(b)) = Cardinality(Gaps(a)) + (IF s - l - 1 > 0 THEN 1 ELSE 0)
    <2>1. IsFiniteSet(Gaps(a)) /\ n \notin Gaps(a)
      <3>1. IsFiniteSet(1..(n-1))
        BY <1>len, FS_Interval
      <3>2. Gaps(a) \in SUBSET (1..(n-1)) /\ n \notin 1..(n-1)
        BY <1>len DEF Gaps
      <3> QED
        BY <3>1, <3>2, FS_Subset
    <2>2. Cardinality(Gaps(a)) \in Nat
      BY <2>1, FS_CardinalityType
    <2>3. Cardinality(Gaps(a) \cup {n}) = Cardinality(Gaps(a)) + 1
      BY <2>1, FS_AddElement
    <2>4. l < s
      BY DEF l
    <2>l. l \in Nat
      BY <1>1
    <2>5. CASE s = l + 1
      <3>1. Gaps(b) = Gaps(a)
        BY <1>7, <2>5
      <3>2. ~(s - l - 1 > 0)
        BY <2>l, <2>5
      <3> QED
        BY <2>2, <3>1, <3>2
    <2>6. CASE s # l + 1
      <3>1. Gaps(b) = Gaps(a) \cup {n}
        BY <1>7, <2>6
      <3>2. s - l - 1 > 0
        BY <2>l, <2>4, <2>6
      <3> QED
        BY <2>3, <3>1, <3>2
    <2> QED
      BY <2>5, <2>6
  <1> QED
    BY <1>6, <1>8 DEF b, l

MissingInv ==
  /\ accepted = <<>> => data_packets_missing = 0 /\ data_gap_events = 0
  /\ MissingIsExact

\* MissingInv is kept by every step.
LEMMA MissingStep == OrderInv /\ MissingInv /\ [Next]_vars => MissingInv'
  <1> SUFFICES ASSUME OrderInv, MissingInv, [Next]_vars PROVE MissingInv'
    OBVIOUS
  <1>0. Typed /\ Expecting /\ data_packets_missing \in Nat /\ data_gap_events \in Nat
    BY DEF OrderInv, Typed, TypeOK
  <1>1. CASE Accept
    <2> DEFINE longer == Append(accepted, data_seq)
    <2>1. /\ data_seq \in Nat /\ accepted \in Seq(Nat) /\ accepted' = longer
          /\ data_packets_missing' = data_packets_missing + NewlyMissing
          /\ data_gap_events' = data_gap_events + (IF NewlyMissing > 0 THEN 1 ELSE 0)
      BY <1>0, <1>1, AcceptStep DEF Accept
    <2>2. longer # <<>>
      BY <2>1, AppendLast
    <2>3. CASE accepted # <<>>
      <3>1. /\ Last(accepted) < data_seq
            /\ NewlyMissing = data_seq - Last(accepted) - 1
        BY <1>0, <1>1, <2>3, AcceptStep
      <3>2. \A j \in DOMAIN accepted : accepted[j] <= Last(accepted)
        BY <1>0 DEF Expecting
      <3>3. /\ Cardinality(Skipped(longer)) = Cardinality(Skipped(accepted)) + NewlyMissing
            /\ Cardinality(Gaps(longer)) = Cardinality(Gaps(accepted))
                                           + (IF NewlyMissing > 0 THEN 1 ELSE 0)
        BY <2>1, <2>3, <3>1, <3>2, OneMore
      <3>4. /\ data_packets_missing = Cardinality(Skipped(accepted))
            /\ data_gap_events = Cardinality(Gaps(accepted))
        BY <2>3 DEF MissingInv, MissingIsExact, Skipped, Gaps
      <3>5. /\ data_packets_missing' = Cardinality(Skipped(longer))
            /\ data_gap_events' = Cardinality(Gaps(longer))
        BY <2>1, <3>3, <3>4
      <3> HIDE DEF longer
      <3> QED
        BY <2>1, <2>2, <3>5 DEF MissingInv, MissingIsExact, Skipped, Gaps
    <2>4. CASE accepted = <<>>
      <3>1. longer = <<data_seq>>
        BY <2>1, <2>4
      <3>2. Skipped(longer) = {} /\ Gaps(longer) = {}
        <4>1. Len(longer) = 1 /\ longer[1] = data_seq /\ Last(longer) = data_seq
              /\ DOMAIN longer = {1}
          BY <2>1, <3>1 DEF Last
        <4> QED
          BY <2>1, <4>1 DEF Skipped, Gaps, ToSet
      <3>3. data_packets_missing' = 0 /\ data_gap_events' = 0
        <4>1. NewlyMissing = 0
          BY <1>0, <1>1, <2>4, AcceptStep
        <4> QED
          BY <2>1, <2>4, <4>1 DEF MissingInv
      <3>4. Cardinality({}) = 0
        BY FS_EmptySet
      <3> HIDE DEF longer
      <3> QED
        BY <2>1, <2>2, <3>2, <3>3, <3>4 DEF MissingInv, MissingIsExact, Skipped, Gaps
    <2> QED
      BY <2>3, <2>4
  <1>2. ASSUME \/ Send \/ ForeignArrives \/ Signal \/ UNCHANGED vars
               \/ \E s \in 0..MaxSent-1 : Arrive(s) \/ Missed(s)
               \/ Stop \/ RxBurst \/ Invalid \/ Stale \/ WriteFrame \/ Written \/ FreeBurst
        PROVE  UNCHANGED <<accepted, data_packets_missing, data_gap_events>>
    BY <1>2 DEF Send, ForeignArrives, Signal, Arrive, Missed, Stop, RxBurst, Invalid, Stale,
                Reject, WriteFrame, Written, FreeBurst, loopVars, counters, vars
  <1>3. ASSUME UNCHANGED <<accepted, data_packets_missing, data_gap_events>>
        PROVE  MissingInv'
    BY <1>3 DEF MissingInv, MissingIsExact, Last, ToSet
  <1> QED
    BY <1>1, <1>2, <1>3 DEF Next, Loop

\* data_packets_missing and data_gap_events are exact between the first and the
\* last accepted packet.
THEOREM Missing == Spec => []MissingIsExact
  <1>1. Init => MissingInv
    BY DEF Init, MissingInv, MissingIsExact
  <1>2. MissingInv => MissingIsExact
    BY DEF MissingInv
  <1> QED
    BY <1>1, <1>2, OrderInit, OrderStep, MissingStep, PTL DEF Spec
-----------------------------------------------------------------------------
(* The output ring holds whole packets *)

\* The first n frames of packet s.
FramesOf(s, n) == [k \in 1..n |-> [data_seq |-> s, record |-> k - 1]]

\* All frames of the packets of a.
Complete(a) == [j \in DOMAIN a |-> FramesOf(a[j], record_count(a[j]))]

\* The same, with only the first n frames of the last packet while it is written.
PartsOf(a, writing, n) ==
  [j \in DOMAIN a |-> FramesOf(a[j], IF j = Len(a) /\ writing THEN n ELSE record_count(a[j]))]

\* What has been published of each accepted packet.
Parts == PartsOf(accepted, pc = "write", record)

Frame == [data_seq : Nat, record : Nat]

\* The frames of a packet, and one more of them.
LEMMA FramesOne ==
  ASSUME NEW s \in Nat, NEW n \in Nat
  PROVE  /\ FramesOf(s, n) \in Seq(Frame)
         /\ FramesOf(s, 0) = <<>>
         /\ FramesOf(s, n + 1) = Append(FramesOf(s, n), [data_seq |-> s, record |-> n])
  <1>1. FramesOf(s, n) \in Seq(Frame) /\ Len(FramesOf(s, n)) = n
    BY DEF FramesOf, Frame
  <1>2. FramesOf(s, 0) = <<>>
    BY DEF FramesOf
  <1>3. /\ FramesOf(s, n + 1) \in Seq(Frame) /\ Len(FramesOf(s, n + 1)) = n + 1
        /\ \A k \in 1..n : FramesOf(s, n + 1)[k] = FramesOf(s, n)[k]
        /\ FramesOf(s, n + 1)[n+1] = [data_seq |-> s, record |-> n]
    BY DEF FramesOf, Frame
  <1> QED
    BY <1>1, <1>2, <1>3

\* The frames of a sequence of packets.
LEMMA CompleteType ==
  ASSUME NEW a \in Seq(Nat)
  PROVE  Complete(a) \in Seq(Seq(Frame)) /\ Len(Complete(a)) = Len(a)
  <1>1. \A j \in 1..Len(a) : FramesOf(a[j], record_count(a[j])) \in Seq(Frame)
    <2> TAKE j \in 1..Len(a)
    <2>1. a[j] \in Nat
      OBVIOUS
    <2>2. record_count(a[j]) \in Nat
      BY <2>1, RecordCountType
    <2> QED
      BY <2>1, <2>2, FramesOne
  <1>2. Complete(a) = [j \in 1..Len(a) |-> FramesOf(a[j], record_count(a[j]))]
    BY DEF Complete
  <1> DEFINE S == Seq(Frame)
  <1> HIDE DEF S
  <1>3. Complete(a) \in [1..Len(a) -> S]
    BY <1>1, <1>2 DEF S
  <1>4. Len(a) \in Nat
    OBVIOUS
  <1>5. \A f \in [1..Len(a) -> S] : f \in Seq(S) /\ Len(f) = Len(a)
    BY <1>4
  <1> QED
    BY <1>3, <1>5 DEF S

\* While a packet is being written those before it are complete.
LEMMA PartsWriting ==
  ASSUME NEW a \in Seq(Nat), NEW s \in Nat, NEW n \in Nat
  PROVE  PartsOf(Append(a, s), TRUE, n) = Append(Complete(a), FramesOf(s, n))
  <1> DEFINE m == Len(a)
             all == Append(a, s)
             front == Complete(a)
             last == FramesOf(s, n)
             both == Append(front, last)
             part(j) == IF j = m + 1 THEN last ELSE FramesOf(a[j], record_count(a[j]))
  <1>1. m \in Nat /\ Len(all) = m + 1 /\ DOMAIN all = 1..m+1
        /\ all[m+1] = s /\ \A j \in 1..m : all[j] = a[j]
    OBVIOUS
  <1>2. front \in Seq(Seq(Frame)) /\ Len(front) = m /\ last \in Seq(Frame)
    BY CompleteType, FramesOne
  <1>3. \A j \in 1..m : front[j] = FramesOf(a[j], record_count(a[j]))
    BY DEF Complete
  <1>4. /\ both = [j \in 1..m+1 |-> both[j]]
        /\ both[m+1] = last
        /\ \A j \in 1..m : both[j] = front[j]
    <2> HIDE DEF front, last, m
    <2>1. /\ both \in Seq(Seq(Frame)) /\ Len(both) = m + 1
          /\ \A j \in 1..m : both[j] = front[j]
          /\ both[m+1] = last
      BY <1>2, AppendProperties
    <2> HIDE DEF both
    <2>2. DOMAIN both = 1..m+1 /\ both = [j \in DOMAIN both |-> both[j]]
      BY <1>1, <2>1
    <2> QED
      BY <2>1, <2>2
  <1>5. PartsOf(all, TRUE, n) = [j \in 1..m+1 |-> part(j)]
    <2> HIDE DEF all, m
    <2>1. \A j \in 1..m+1 :
            FramesOf(all[j], IF j = m + 1 /\ TRUE THEN n ELSE record_count(all[j])) = part(j)
      BY SMTT(60), <1>1
    <2> QED
      BY <1>1, <2>1 DEF PartsOf
  <1>6. \A j \in 1..m+1 : part(j) = both[j]
    <2> HIDE DEF front, last, both, m
    <2> TAKE j \in 1..m+1
    <2>1. j = m + 1 \/ (j # m + 1 /\ j \in 1..m)
      BY <1>1
    <2> QED
      BY <1>3, <1>4, <2>1
  <1> HIDE DEF part, both, all
  <1> QED
    BY <1>4, <1>5, <1>6 DEF all, both

WholeInv == OrderInv /\ PacketsAccounted /\ WholePackets

\* WholePackets is kept by every step.
LEMMA WholeStep == WholeInv /\ [Next]_vars => WholePackets'
  <1> SUFFICES ASSUME WholeInv, [Next]_vars PROVE WholePackets'
    OBVIOUS
  <1>0. /\ OrderInv /\ Typed /\ Expecting /\ TypeOK
        /\ published = FlattenSeq(Parts)
        /\ accepted \in Seq(Nat)
    BY DEF WholeInv, OrderInv, Typed, TypeOK, WholePackets, Parts, PartsOf, FramesOf, WrittenOf
  <1>a. WholePackets' <=> published' = FlattenSeq(Parts')
    BY DEF WholePackets, Parts, PartsOf, FramesOf, WrittenOf, record_count
  <1>1. ASSUME UNCHANGED <<accepted, published>>,
               UNCHANGED <<pc, record>> \/ (pc # "write" /\ pc' # "write")
        PROVE  WholePackets'
    BY <1>1, <1>0, <1>a DEF Parts, PartsOf, FramesOf, record_count
  <1>2. ASSUME \/ Send \/ ForeignArrives \/ Signal \/ UNCHANGED vars
               \/ \E s \in 0..MaxSent-1 : Arrive(s) \/ Missed(s)
        PROVE  WholePackets'
    BY <1>1, <1>2 DEF Send, ForeignArrives, Signal, Arrive, Missed, loopVars, vars
  <1>3. ASSUME Stop \/ RxBurst \/ FreeBurst \/ Invalid \/ Stale PROVE WholePackets'
    BY <1>1, <1>3 DEF Stop, RxBurst, FreeBurst, Invalid, Stale, Reject, InBurst
  <1>4. CASE Accept
    <2>1. /\ data_seq \in Nat /\ accepted' = Append(accepted, data_seq)
          /\ pc # "write" /\ pc' = "write" /\ record' = 0 /\ published' = published
      BY <1>0, <1>4, AcceptStep DEF Accept, InBurst
    <2>2. Parts = Complete(accepted) /\ Complete(accepted) \in Seq(Seq(Frame))
      BY <1>0, <2>1, CompleteType DEF Parts, PartsOf, Complete
    <2>3. Parts' = Append(Complete(accepted), FramesOf(data_seq, 0))
      <3>1. Parts' = PartsOf(Append(accepted, data_seq), TRUE, 0)
        BY <2>1 DEF Parts, PartsOf, FramesOf, record_count
      <3>2. accepted \in Seq(Nat) /\ data_seq \in Nat /\ 0 \in Nat
        BY <1>0, <2>1
      <3>3. PartsOf(Append(accepted, data_seq), TRUE, 0)
              = Append(Complete(accepted), FramesOf(data_seq, 0))
        BY <3>2, PartsWriting, Zenon
      <3> QED
        BY <3>1, <3>3, Zenon
    <2>4. FramesOf(data_seq, 0) = <<>> /\ <<>> \in Seq(Frame)
      BY <2>1, FramesOne
    <2>5. FlattenSeq(Parts) \in Seq(Frame)
      BY <2>2, FlattenType
    <2>6. FlattenSeq(Parts') = FlattenSeq(Parts) \o <<>>
      BY <2>2, <2>3, <2>4, FlattenAppend
    <2> QED
      BY <1>0, <1>a, <2>1, <2>5, <2>6
  <1>5. ASSUME pc = "write"
        PROVE  \E a \in Seq(Nat) : accepted = Append(a, data_seq) /\ data_seq \in Nat
    <2>1. Len(accepted) = data_packets_accepted + 1 /\ data_packets_accepted \in Nat
      BY <1>0, <1>5 DEF WholeInv, PacketsAccounted, TypeOK
    <2>2. accepted # <<>>
      BY <1>0, <2>1
    <2>3. Last(accepted) = data_seq
      BY <1>0, <1>5, <2>2 DEF Expecting
    <2>4. \E b \in Seq(Nat) : \E s \in Nat : accepted = Append(b, s)
      BY <1>0, <2>2, SequenceEmptyOrAppend
    <2> PICK b \in Seq(Nat), s \in Nat : accepted = Append(b, s)
      BY <2>4
    <2>5. Last(Append(b, s)) = s
      BY AppendLast
    <2>6. accepted = Append(b, data_seq) /\ data_seq \in Nat
      BY <2>3, <2>5
    <2> QED
      BY <2>6
  <1>6. CASE WriteFrame
    <2>1. /\ pc = "write" /\ pc' = "write" /\ accepted' = accepted
          /\ record \in Nat /\ record' = record + 1
          /\ published' = Append(published, [data_seq |-> data_seq, record |-> record])
      BY <1>0, <1>6 DEF WriteFrame, TypeOK
    <2> PICK a \in Seq(Nat) : accepted = Append(a, data_seq) /\ data_seq \in Nat
      BY <1>5, <2>1
    <2> PICK s \in Nat : s = data_seq
      OBVIOUS
    <2> DEFINE done == Complete(a)
               old == FramesOf(s, record)
               new == [data_seq |-> s, record |-> record]
    <2>2. Parts = Append(done, old)
      <3>1. Parts = PartsOf(Append(a, s), TRUE, record)
        BY <2>1 DEF Parts
      <3> QED
        BY <2>1, <3>1, PartsWriting
    <2>3. Parts' = Append(done, FramesOf(s, record + 1))
      <3>1. Parts' = PartsOf(Append(a, s), TRUE, record + 1)
        BY <2>1 DEF Parts, PartsOf, FramesOf, record_count
      <3>2. record + 1 \in Nat
        BY <2>1
      <3> QED
        BY <3>1, <3>2, PartsWriting
    <2>4. /\ done \in Seq(Seq(Frame)) /\ old \in Seq(Frame) /\ new \in Frame
          /\ FramesOf(s, record + 1) = Append(old, new)
      BY <2>1, CompleteType, FramesOne DEF Frame
    <2>5. published' = Append(published, new)
      BY <2>1
    <2> HIDE DEF done, old, new
    <2>6. Append(old, new) \in Seq(Frame)
      BY <2>4
    <2>7. /\ FlattenSeq(Parts) = FlattenSeq(done) \o old
          /\ FlattenSeq(Parts') = FlattenSeq(done) \o Append(old, new)
          /\ FlattenSeq(done) \in Seq(Frame)
      BY <2>2, <2>3, <2>4, <2>6, FlattenAppend, FlattenType
    <2>8. FlattenSeq(done) \o Append(old, new) = Append(FlattenSeq(done) \o old, new)
      BY SMTT(60), <2>4, <2>7
    <2> QED
      BY <1>0, <1>a, <2>5, <2>7, <2>8
  <1>7. CASE Written
    <2>1. /\ pc = "write" /\ pc' # "write" /\ UNCHANGED <<accepted, published>>
          /\ record = record_count(data_seq)
      BY <1>7 DEF Written
    <2> PICK a \in Seq(Nat) : accepted = Append(a, data_seq) /\ data_seq \in Nat
      BY <1>5, <2>1
    <2>2. /\ accepted[Len(accepted)] = data_seq
          /\ Len(accepted) \in Nat /\ DOMAIN accepted = 1..Len(accepted)
      OBVIOUS
    <2>3. Parts' = Parts
      BY <2>1, <2>2 DEF Parts, PartsOf, record_count
    <2> QED
      BY <1>0, <1>a, <2>1, <2>3
  <1> QED
    BY <1>2, <1>3, <1>4, <1>6, <1>7 DEF Next, Loop

\* The output ring gets all frames of the accepted packets, in their order, and
\* nothing else.
THEOREM Whole == Spec => []WholePackets
  <1>1. Init => WholePackets
    BY DEF Init, WholePackets, FlattenSeq
  <1>2. Init => PacketsAccounted
    BY DEF Init, PacketsAccounted
  <1>3. WholeInv /\ [Next]_vars => WholeInv'
    BY OrderStep, AccountingStep, WholeStep DEF WholeInv, OrderInv
  <1>4. Init => WholeInv
    BY <1>1, <1>2, OrderInit DEF WholeInv
  <1>5. WholeInv => WholePackets
    BY DEF WholeInv
  <1> QED
    BY <1>3, <1>4, <1>5, PTL DEF Spec
==============================================================================
