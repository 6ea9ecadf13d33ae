--------------------------- MODULE PipelineProofs ---------------------------
(***************************************************************************)
(* Proofs about Pipeline, for every source ring, packet size and number of *)
(* restarts, and for both networks.                                        *)
(***************************************************************************)
EXTENDS Pipeline, SequenceTheorems, FiniteSetTheorems, TLAPS

USE PipelineAssumption
-----------------------------------------------------------------------------
(* Packets leave the network one at a time; what stays keeps its order.     *)

\* What RemoveAt leaves of a sequence, in its order.
LEMMA Removed ==
  ASSUME NEW S, NEW s \in Seq(S), NEW i \in DOMAIN s
  PROVE  /\ RemoveAt(s, i) \in Seq(S)
         /\ Len(RemoveAt(s, i)) = Len(s) - 1
         /\ \A j \in 1..Len(s)-1 :
              RemoveAt(s, i)[j] = s[IF j < i THEN j ELSE j + 1]
  <1> DEFINE a == SubSeq(s, 1, i-1)
             b == SubSeq(s, i+1, Len(s))
  <1>1. Len(s) \in Nat /\ DOMAIN s = 1..Len(s) /\ \A j \in 1..Len(s) : s[j] \in S
    BY LenProperties
  <1>2. /\ a \in Seq(S) /\ Len(a) = i - 1
        /\ \A j \in 1..i-1 : a[j] = s[j]
    <2>1. \A j \in 1..i-1 : s[j] \in S
      BY <1>1
    <2>2. i - 1 \in Int /\ 1 \in Int /\ 1 <= i
      BY <1>1
    <2> QED
      BY <2>1, <2>2, SubSeqProperties
  <1>3. /\ b \in Seq(S) /\ Len(b) = Len(s) - i
        /\ \A j \in 1..Len(s)-i : b[j] = s[i+j]
    <2>1. \A j \in i+1..Len(s) : s[j] \in S
      BY <1>1
    <2>2. i + 1 \in Int /\ Len(s) \in Int /\ i <= Len(s)
      BY <1>1
    <2>3. /\ b \in Seq(S)
          /\ Len(b) = IF i + 1 <= Len(s) THEN Len(s) - (i + 1) + 1 ELSE 0
          /\ \A j \in 1..Len(s)-(i+1)+1 : b[j] = s[(i+1)+j-1]
      BY <2>1, <2>2, SubSeqProperties
    <2> QED
      BY <2>2, <2>3, <1>1
  <1>4. /\ a \o b \in Seq(S)
        /\ Len(a \o b) = Len(a) + Len(b)
        /\ \A j \in 1..Len(a)+Len(b) :
             (a \o b)[j] = IF j <= Len(a) THEN a[j] ELSE b[j - Len(a)]
    BY <1>2, <1>3, ConcatProperties
  <1>5. RemoveAt(s, i) = a \o b
    BY DEF RemoveAt
  <1> HIDE DEF a, b
  <1>6. ASSUME NEW j \in 1..Len(s)-1
        PROVE  (a \o b)[j] = s[IF j < i THEN j ELSE j + 1]
    <2>1. CASE j < i
      BY <1>1, <1>2, <1>3, <1>4, <2>1
    <2>2. CASE ~(j < i)
      <3>1. j - (i - 1) \in 1..Len(s)-i /\ i + (j - (i - 1)) = j + 1
        BY <1>1, <2>2
      <3>2. (a \o b)[j] = b[j - (i - 1)]
        <4>1. j \in 1..Len(a)+Len(b) /\ ~(j <= Len(a)) /\ j - Len(a) = j - (i - 1)
          BY <1>1, <1>2, <1>3, <2>2
        <4> QED
          BY <1>4, <4>1
      <3>3. b[j - (i - 1)] = s[j + 1]
        BY <1>3, <3>1
      <3> QED
        BY <2>2, <3>2, <3>3
    <2> QED
      BY <2>1, <2>2
  <1>7. Len(a) + Len(b) = Len(s) - 1
    BY <1>1, <1>2, <1>3
  <1> QED
    BY <1>4, <1>5, <1>6, <1>7

\* A packet that arrives leaves the others; the first one leaves in order.
LEMMA NetworkAfterArrival ==
  ASSUME network \in Seq(Packets), NEW i \in Nat, Arrives(i)
  PROVE  /\ network' \in Seq(Packets)
         /\ network[i] \in Packets
         /\ \A j \in DOMAIN network' : \E k \in DOMAIN network : network'[j] = network[k]
         /\ ~reordering => /\ i = 1
                           /\ Len(network') = Len(network) - 1
                           /\ \A j \in DOMAIN network' : network'[j] = network[j+1]
  <1>1. i \in DOMAIN network /\ DOMAIN network = 1..Len(network) /\ Len(network) \in Nat
    BY LenProperties DEF Arrives
  <1>2. network[i] \in Packets
    BY <1>1
  <1>3. CASE reordering /\ network' = network
    BY <1>1, <1>2, <1>3 DEF Arrives
  <1>4. CASE reordering /\ network' = RemoveAt(network, i)
    <2>1. /\ network' \in Seq(Packets)
          /\ Len(network') = Len(network) - 1
          /\ \A j \in 1..Len(network)-1 :
               network'[j] = network[IF j < i THEN j ELSE j + 1]
      BY <1>1, <1>4, Removed
    <2>2. DOMAIN network' = 1..Len(network)-1
      BY <2>1, LenProperties
    <2>3. \A j \in 1..Len(network)-1 : (IF j < i THEN j ELSE j + 1) \in DOMAIN network
      BY <1>1
    <2> QED
      BY <1>2, <1>4, <2>1, <2>2, <2>3
  <1>5. CASE ~reordering /\ i = 1 /\ network' = Tail(network)
    <2>1. network # <<>>
      BY <1>1, <1>5
    <2>2. /\ network' \in Seq(Packets)
          /\ Len(network') = Len(network) - 1
          /\ \A j \in 1..Len(network') : network'[j] = network[j+1]
      BY <1>5, <2>1, HeadTailProperties
    <2>3. DOMAIN network' = 1..Len(network)-1
      BY <2>2, LenProperties
    <2>4. \A j \in 1..Len(network)-1 : j + 1 \in DOMAIN network
      BY <1>1
    <2> QED
      BY <1>2, <1>5, <2>2, <2>3, <2>4
  <1> QED
    BY <1>3, <1>4, <1>5 DEF Arrives
-----------------------------------------------------------------------------
(* Type correctness.                                                        *)

\* The members of a packet are numbers and its frames are not none.
LEMMA PacketType ==
  ASSUME NEW p \in Packets
  PROVE  /\ p.run \in Nat /\ p.data_seq \in Nat /\ p.first \in Nat /\ p.last \in Nat
         /\ p.first <= p.last
  BY DEF Packets

\* The frames of a packet are its range of numbers, in order.
LEMMA FramesOf ==
  ASSUME NEW p \in Packets
  PROVE  /\ Frames(p) \in Seq(Nat)
         /\ Len(Frames(p)) = p.last - p.first + 1
         /\ \A k \in 1..(p.last - p.first + 1) : Frames(p)[k] = p.first + k - 1
  <1>1. p.last - p.first + 1 \in Nat
    BY PacketType
  <1>2. \A k \in 1..(p.last - p.first + 1) : p.first + k - 1 \in Nat
    BY PacketType
  <1> QED
    BY <1>1, <1>2 DEF Frames

\* What the sender packs lies behind everything it has read.
LEMMA NewPacket ==
  ASSUME TypeOK, NEW p \in Batches, Packetize(p)
  PROVE  /\ p \in Packets
         /\ p.run = run /\ p.data_seq = next_data_seq
         /\ read_index <= p.first /\ p.last < MaxFrames
         /\ read_index' = p.last + 1 /\ next_data_seq' = next_data_seq + 1
         /\ read_index' \in 0..MaxFrames /\ next_data_seq' \in Nat
         /\ UNCHANGED <<reordering, run, receiverVars>>
  <1>1. read_index \in Nat /\ MaxFrames \in Nat /\ run \in Nat /\ next_data_seq \in Nat
    BY DEF TypeOK
  <1>2. PICK f \in read_index..MaxFrames-1, l \in read_index..MaxFrames-1 :
          p = [run |-> run, data_seq |-> next_data_seq, first |-> f, last |-> l]
    BY DEF Batches, NextPackets
  <1>3. p.last - p.first \in 0..MaxBatch-1
    BY DEF Batches
  <1>4. p \in Packets
    BY <1>1, <1>2, <1>3 DEF Packets
  <1> QED
    BY <1>1, <1>2, <1>4 DEF Packetize

\* Adding to one counter leaves the others alone.
LEMMA Bumped ==
  ASSUME NEW f \in [Counters -> Nat], NEW c \in Counters, NEW n \in Nat
  PROVE  /\ [f EXCEPT ![c] = f[c] + n] \in [Counters -> Nat]
         /\ [f EXCEPT ![c] = f[c] + n][c] = f[c] + n
         /\ \A d \in Counters : d # c => [f EXCEPT ![c] = f[c] + n][d] = f[d]
  OBVIOUS

\* What Accept does, for the packet it takes.
LEMMA AcceptedPacket ==
  ASSUME TypeOK, Accept
  PROVE  \E i \in DOMAIN network :
           LET packet == network[i] IN
           /\ Arrives(i) /\ packet \in Packets
           /\ expected # None => expected <= packet.data_seq
           /\ Gap(packet) \in Nat
           /\ expected' = packet.data_seq + 1
           /\ output' = output \o Frames(packet)
           /\ accepted' = Append(accepted, packet)
           /\ counters'.data_packets_missing
                = counters.data_packets_missing + Gap(packet)
           /\ counters'.stale_data_packets = counters.stale_data_packets
           /\ counters' \in [Counters -> Nat]
           /\ UNCHANGED <<reordering, senderVars, gone>>
  <1>1. PICK i \in DOMAIN network :
          /\ Arrives(i) /\ ~IsStale(network[i])
          /\ Expect(network[i])
          /\ output' = output \o Frames(network[i])
          /\ accepted' = Append(accepted, network[i])
          /\ counters' = [counters EXCEPT
               !.data_gap_events = IF Gap(network[i]) > 0 THEN @ + 1 ELSE @,
               !.data_packets_missing = @ + Gap(network[i]),
               !.frames_published = @ + Len(Frames(network[i]))]
          /\ UNCHANGED <<reordering, senderVars, gone>>
    BY DEF Accept
  <1> DEFINE p == network[i]
  <1>2. p \in Packets
    BY <1>1 DEF TypeOK
  <1>3. p.data_seq \in Nat /\ Len(Frames(p)) \in Nat
    BY <1>2, PacketType, FramesOf
  <1>4. expected \in Nat \cup {None}
    BY DEF TypeOK
  <1>5. expected # None => expected <= p.data_seq
    BY <1>1, <1>3, <1>4 DEF IsStale, None
  <1>6. Gap(p) \in Nat
    BY <1>3, <1>4, <1>5 DEF Gap, None
  <1>7. counters \in [Counters -> Nat]
    BY DEF TypeOK
  <1> HIDE DEF p
  <1>8. /\ counters'.data_packets_missing = counters.data_packets_missing + Gap(p)
        /\ counters'.stale_data_packets = counters.stale_data_packets
        /\ counters' \in [Counters -> Nat]
    <2>1. counters' = [counters EXCEPT
               !.data_gap_events = IF Gap(p) > 0 THEN @ + 1 ELSE @,
               !.data_packets_missing = @ + Gap(p),
               !.frames_published = @ + Len(Frames(p))]
      BY <1>1 DEF p
    <2> DEFINE x == IF Gap(p) > 0 THEN 1 ELSE 0
               g == Gap(p)
               n == Len(Frames(p))
               e == "data_gap_events"
               m == "data_packets_missing"
               f == "frames_published"
               a == [counters EXCEPT ![e] = counters[e] + x]
               b == [a EXCEPT ![m] = a[m] + g]
               c == [b EXCEPT ![f] = b[f] + n]
    <2>2. x \in Nat /\ g \in Nat /\ n \in Nat
      BY <1>3, <1>6 DEF p
    <2>3. /\ e \in Counters /\ m \in Counters /\ f \in Counters
          /\ "stale_data_packets" \in Counters /\ "stale_data_packets" \notin {e, m, f}
          /\ e # m /\ e # f /\ m # f
      BY DEF Counters
    <2>4. counters' = c
      <3>1. (IF Gap(p) > 0 THEN counters[e] + 1 ELSE counters[e]) = counters[e] + x
        BY <1>7, <2>3
      <3> QED
        BY <2>1, <3>1
    <2> HIDE DEF x, g, n, e, m, f
    <2>5. a \in [Counters -> Nat] /\ \A d \in Counters : d # e => a[d] = counters[d]
      BY <1>7, <2>2, <2>3, Bumped
    <2> HIDE DEF a
    <2>6. /\ b \in [Counters -> Nat] /\ b[m] = a[m] + g
          /\ \A d \in Counters : d # m => b[d] = a[d]
      BY <2>2, <2>3, <2>5, Bumped
    <2> HIDE DEF b
    <2>7. /\ c \in [Counters -> Nat]
          /\ \A d \in Counters : d # f => c[d] = b[d]
      BY <2>2, <2>3, <2>6, Bumped
    <2> HIDE DEF c
    <2>8. /\ counters'[m] = counters[m] + g
          /\ counters'["stale_data_packets"] = counters["stale_data_packets"]
      BY <2>3, <2>4, <2>5, <2>6, <2>7
    <2> QED
      BY <2>4, <2>7, <2>8 DEF g, m
  <1> QED
    BY <1>1, <1>2, <1>5, <1>6, <1>8 DEF p, Expect

\* The initial states are type correct.
LEMMA TypeInit == Init => TypeOK
  BY DEF Init, TypeOK, Zero, None

\* Every step keeps the types.
LEMMA TypeNext == TypeOK /\ [Next]_vars => TypeOK'
  <1> SUFFICES ASSUME TypeOK, [Next]_vars PROVE TypeOK'
    OBVIOUS
  <1> USE DEF senderVars, receiverVars
  <1>1. CASE Enqueued
    <2>1. PICK p \in Batches : Packetize(p) /\ network' = Append(network, p)
      BY <1>1 DEF Enqueued
    <2>2. UNCHANGED gone
      BY <1>1 DEF Enqueued
    <2>3. network' \in Seq(Packets)
      BY <2>1, NewPacket, AppendProperties DEF TypeOK
    <2> QED
      BY <2>1, <2>2, <2>3, NewPacket DEF TypeOK
  <1>2. CASE Unsent
    <2>1. PICK p \in Batches : Packetize(p)
      BY <1>2 DEF Unsent
    <2>2. UNCHANGED network /\ gone' = gone \cup {next_data_seq}
      BY <1>2 DEF Unsent
    <2> QED
      BY <2>1, <2>2, NewPacket DEF TypeOK
  <1>3. CASE RestartSender
    BY <1>3 DEF RestartSender, TypeOK
  <1>4. CASE Lose
    <2>1. PICK i \in DOMAIN network :
            /\ network' = RemoveAt(network, i)
            /\ gone' = IF network[i].run = run THEN gone \cup {network[i].data_seq} ELSE gone
            /\ UNCHANGED <<reordering, senderVars, receiverVars>>
      BY <1>4 DEF Lose
    <2>2. network[i].data_seq \in Nat
      BY PacketType DEF TypeOK
    <2>3. network' \in Seq(Packets)
      BY <2>1, Removed DEF TypeOK
    <2> QED
      BY <2>1, <2>2, <2>3 DEF TypeOK
  <1>5. CASE Stale
    <2>1. PICK i \in DOMAIN network : Arrives(i)
      BY <1>5 DEF Stale
    <2>2. network' \in Seq(Packets)
      BY <2>1, NetworkAfterArrival, LenProperties DEF TypeOK
    <2>3. counters' \in [Counters -> Nat]
      BY <1>5, Bumped DEF Stale, TypeOK, Counters
    <2> QED
      BY <1>5, <2>2, <2>3 DEF Stale, TypeOK
  <1>6. CASE Accept
    <2>1. PICK i \in DOMAIN network :
           LET packet == network[i] IN
           /\ Arrives(i) /\ packet \in Packets
           /\ expected' = packet.data_seq + 1
           /\ output' = output \o Frames(packet)
           /\ accepted' = Append(accepted, packet)
           /\ counters' \in [Counters -> Nat]
           /\ UNCHANGED <<reordering, senderVars, gone>>
      BY <1>6, AcceptedPacket
    <2>2. network' \in Seq(Packets)
      BY SMTT(60), <2>1, NetworkAfterArrival, LenProperties DEF TypeOK
    <2>3. accepted' \in Seq(Packets)
      BY <2>1, AppendProperties DEF TypeOK
    <2>4. output' \in Seq(Nat)
      BY <2>1, FramesOf, ConcatProperties DEF TypeOK
    <2>5. expected' \in Nat
      BY <2>1, PacketType
    <2> QED
      BY <2>1, <2>2, <2>3, <2>4, <2>5 DEF TypeOK
  <1>7. CASE RestartReceiver
    BY <1>7 DEF RestartReceiver, TypeOK, Zero
  <1>8. CASE UNCHANGED vars
    BY <1>8 DEF vars, TypeOK
  <1> QED
    BY <1>1, <1>2, <1>3, <1>4, <1>5, <1>6, <1>7, <1>8 DEF Next

\* Type correctness, for any bounds.
THEOREM TypeCorrect == Spec => []TypeOK
  BY TypeInit, TypeNext, PTL DEF Spec
-----------------------------------------------------------------------------
(* The packets under way and those accepted: each was sent, and a later one  *)
(* holds later frames.                                                      *)

Seen == {network[i] : i \in DOMAIN network} \cup {accepted[i] : i \in DOMAIN accepted}

Later(p, q) == p.run < q.run \/ (p.run = q.run /\ p.data_seq < q.data_seq)

WasSent(p) ==
  /\ p \in Packets /\ p.last < read_index /\ p.run <= run
  /\ p.run = run => p.data_seq < next_data_seq

SeenInv ==
  /\ \A p \in Seen : WasSent(p)
  /\ \A p, q \in Seen : Later(p, q) => p.last < q.first

\* SeenInv holds initially.
LEMMA SeenInit == Init => SeenInv
  BY DEF Init, SeenInv, Seen

\* Losing and delivering packets adds none.
LEMMA SeenShrinks ==
  ASSUME SeenInv, Seen' \subseteq Seen, UNCHANGED senderVars
  PROVE  SeenInv'
  BY DEF SeenInv, WasSent, Later, senderVars

\* A packet that is being sent comes after all of them.
LEMMA SeenGrows ==
  ASSUME TypeOK, SeenInv, NEW p \in Batches, Packetize(p), Seen' \subseteq Seen \cup {p}
  PROVE  SeenInv'
  <1>1. /\ p \in Packets /\ p.run = run /\ p.data_seq = next_data_seq
        /\ read_index <= p.first /\ read_index' = p.last + 1
        /\ next_data_seq' = next_data_seq + 1 /\ run' = run
    BY NewPacket DEF receiverVars
  <1>2. run \in Nat /\ next_data_seq \in Nat /\ read_index \in Nat
    BY DEF TypeOK
  <1>3. /\ p.run \in Nat /\ p.data_seq \in Nat /\ p.first \in Nat /\ p.last \in Nat
        /\ p.first <= p.last
    BY <1>1, PacketType
  <1>4. ASSUME NEW q \in Seen
        PROVE  /\ q \in Packets /\ q.last < p.first /\ WasSent(q)'
               /\ ~Later(p, q)
    <2>1. /\ q.run \in Nat /\ q.data_seq \in Nat /\ q.first \in Nat /\ q.last \in Nat
          /\ WasSent(q)
      BY PacketType DEF SeenInv, WasSent
    <2> QED
      BY <1>1, <1>2, <1>3, <2>1 DEF WasSent, Later
  <1>5. WasSent(p)'
    BY <1>1, <1>2, <1>3 DEF WasSent
  <1>6. ~Later(p, p)
    BY <1>3 DEF Later
  <1>7. ASSUME NEW q \in Seen', NEW r \in Seen', Later(q, r)
        PROVE  q.last < r.first
    <2>1. CASE q = p
      BY <1>4, <1>6, <1>7, <2>1
    <2>2. CASE q # p /\ r = p
      BY <1>4, <2>2
    <2>3. CASE q # p /\ r # p
      BY <1>7, <2>3 DEF SeenInv
    <2> QED
      BY <2>1, <2>2, <2>3
  <1>8. \A q \in Seen' : WasSent(q)'
    BY <1>4, <1>5
  <1> QED
    BY <1>7, <1>8 DEF SeenInv, Later

\* SeenInv is kept by every step.
LEMMA SeenNext == TypeOK /\ SeenInv /\ [Next]_vars => SeenInv'
  <1> SUFFICES ASSUME TypeOK, SeenInv, [Next]_vars PROVE SeenInv'
    OBVIOUS
  <1>1. CASE Enqueued
    <2>1. PICK p \in Batches : Packetize(p) /\ network' = Append(network, p)
      BY <1>1 DEF Enqueued
    <2>2. p \in Packets /\ accepted' = accepted
      BY <2>1, NewPacket DEF receiverVars
    <2>3. \A j \in DOMAIN network' : network'[j] = p \/ \E k \in DOMAIN network : network'[j] = network[k]
      BY <2>1, <2>2, AppendProperties, LenProperties DEF TypeOK
    <2>4. Seen' \subseteq Seen \cup {p}
      BY <2>2, <2>3 DEF Seen
    <2> QED
      BY <2>1, <2>4, SeenGrows
  <1>2. CASE Unsent
    <2>1. PICK p \in Batches : Packetize(p)
      BY <1>2 DEF Unsent
    <2>2. network' = network /\ accepted' = accepted
      BY <1>2, <2>1, NewPacket DEF Unsent, receiverVars
    <2>3. Seen' \subseteq Seen \cup {p}
      BY <2>2 DEF Seen
    <2> QED
      BY <2>1, <2>3, SeenGrows
  <1>3. CASE RestartSender
    <2>1. /\ run' = run + 1 /\ read_index' \in read_index..MaxFrames
          /\ network' = network /\ accepted' = accepted
      BY <1>3 DEF RestartSender, receiverVars
    <2>2. run \in Nat /\ read_index \in Nat /\ MaxFrames \in Nat
      BY DEF TypeOK
    <2>3. ASSUME NEW q \in Seen PROVE WasSent(q)'
      <3>1. q.run \in Nat /\ q.last \in Nat /\ WasSent(q)
        BY PacketType DEF SeenInv, WasSent
      <3> QED
        BY <2>1, <2>2, <3>1 DEF WasSent
    <2>4. Seen' = Seen
      BY <2>1 DEF Seen
    <2> QED
      BY <2>3, <2>4 DEF SeenInv, Later
  <1>4. CASE Lose
    <2>1. PICK i \in DOMAIN network :
            /\ network' = RemoveAt(network, i)
            /\ UNCHANGED <<reordering, senderVars, receiverVars>>
      BY <1>4 DEF Lose
    <2>2. \A j \in DOMAIN network' : \E k \in DOMAIN network : network'[j] = network[k]
      <3>1. /\ network' \in Seq(Packets) /\ Len(network') = Len(network) - 1
            /\ \A j \in 1..Len(network)-1 :
                 network'[j] = network[IF j < i THEN j ELSE j + 1]
        BY <2>1, Removed DEF TypeOK
      <3>2. DOMAIN network' = 1..Len(network)-1 /\ DOMAIN network = 1..Len(network)
            /\ Len(network) \in Nat
        BY <3>1, LenProperties DEF TypeOK
      <3>3. \A j \in 1..Len(network)-1 : (IF j < i THEN j ELSE j + 1) \in DOMAIN network
        BY <3>2
      <3> QED
        BY <3>1, <3>2, <3>3
    <2>3. Seen' \subseteq Seen
      BY <2>1, <2>2 DEF Seen, receiverVars
    <2> QED
      BY <2>1, <2>3, SeenShrinks
  <1>5. CASE Stale
    <2>1. PICK i \in DOMAIN network : Arrives(i)
      BY <1>5 DEF Stale
    <2>2. \A j \in DOMAIN network' : \E k \in DOMAIN network : network'[j] = network[k]
      BY <2>1, NetworkAfterArrival, LenProperties DEF TypeOK
    <2>3. accepted' = accepted /\ UNCHANGED senderVars
      BY <1>5 DEF Stale
    <2>4. Seen' \subseteq Seen
      BY <2>2, <2>3 DEF Seen
    <2> QED
      BY <2>3, <2>4, SeenShrinks
  <1>6. CASE Accept
    <2>1. PICK i \in DOMAIN network :
            /\ Arrives(i) /\ network[i] \in Packets
            /\ accepted' = Append(accepted, network[i])
            /\ UNCHANGED senderVars
      BY <1>6, AcceptedPacket
    <2>2. \A j \in DOMAIN network' : \E k \in DOMAIN network : network'[j] = network[k]
      BY <2>1, NetworkAfterArrival, LenProperties DEF TypeOK
    <2>3. \A j \in DOMAIN accepted' : accepted'[j] = network[i] \/ \E k \in DOMAIN accepted : accepted'[j] = accepted[k]
      BY <2>1, AppendProperties, LenProperties DEF TypeOK
    <2>4. Seen' \subseteq Seen
      BY <2>2, <2>3 DEF Seen
    <2> QED
      BY <2>1, <2>4, SeenShrinks
  <1>7. CASE RestartReceiver
    <2>1. network' = network /\ accepted' = <<>> /\ UNCHANGED senderVars
      BY <1>7 DEF RestartReceiver
    <2>2. Seen' \subseteq Seen
      BY <2>1 DEF Seen
    <2> QED
      BY <2>1, <2>2, SeenShrinks
  <1>8. CASE UNCHANGED vars
    <2>1. Seen' \subseteq Seen /\ UNCHANGED senderVars
      BY <1>8 DEF vars, Seen, receiverVars
    <2> QED
      BY <2>1, SeenShrinks
  <1> QED
    BY <1>1, <1>2, <1>3, <1>4, <1>5, <1>6, <1>7, <1>8 DEF Next
-----------------------------------------------------------------------------
(* The numbers accepted: one growing sequence, whoever sent them.           *)

Expecting ==
  /\ expected = None <=> accepted = <<>>
  /\ accepted = <<>> => counters.data_packets_missing = 0
  /\ accepted # <<>> => expected = Last(accepted).data_seq + 1

SequenceInv == Expecting /\ OneSequence

\* What an accepted packet is to the last one before it.
LEMMA AfterLast ==
  ASSUME TypeOK, NEW p \in Packets, accepted' = Append(accepted, p)
  PROVE  /\ Len(accepted') = Len(accepted) + 1 /\ DOMAIN accepted' = 1..Len(accepted)+1
         /\ Len(accepted) \in Nat /\ DOMAIN accepted = 1..Len(accepted)
         /\ accepted' # <<>> /\ Last(accepted') = p
         /\ accepted'[Len(accepted) + 1] = p
         /\ \A j \in 1..Len(accepted) : accepted'[j] = accepted[j] /\ accepted[j] \in Packets
         /\ accepted = <<>> <=> Len(accepted) = 0
         /\ accepted = <<>> => accepted'[1] = p
         /\ accepted # <<>> => /\ Last(accepted) = accepted[Len(accepted)]
                               /\ Last(accepted) \in Packets /\ 1 \in 1..Len(accepted)
                               /\ accepted'[1] = accepted[1]
  <1>1. accepted \in Seq(Packets)
    BY DEF TypeOK
  <1>2. Len(accepted) \in Nat /\ DOMAIN accepted = 1..Len(accepted)
        /\ accepted \in [1..Len(accepted) -> Packets]
    BY <1>1, LenProperties
  <1>3. /\ accepted' \in Seq(Packets) /\ accepted' # <<>>
        /\ Len(accepted') = Len(accepted) + 1
        /\ \A j \in 1..Len(accepted) : accepted'[j] = accepted[j]
        /\ accepted'[Len(accepted) + 1] = p
    BY <1>1, AppendProperties
  <1>4. accepted = <<>> <=> Len(accepted) = 0
    BY <1>1, EmptySeq
  <1>5. DOMAIN accepted' = 1..Len(accepted)+1
    BY <1>3, LenProperties
  <1>6. accepted # <<>> => Len(accepted) \in 1..Len(accepted) /\ 1 \in 1..Len(accepted)
    BY <1>2, <1>4
  <1> QED
    BY <1>2, <1>3, <1>4, <1>5, <1>6 DEF Last

\* SequenceInv holds initially.
LEMMA SequenceInit == Init => SequenceInv
  BY DEF Init, SequenceInv, Expecting, OneSequence, Zero, Counters

\* SequenceInv is kept by the step that accepts a packet.
LEMMA SequenceAccept ==
  ASSUME TypeOK, SequenceInv, Accept
  PROVE  SequenceInv'
  <1>1. PICK i \in DOMAIN network :
          LET packet == network[i] IN
          /\ packet \in Packets
          /\ expected # None => expected <= packet.data_seq
          /\ expected' = packet.data_seq + 1
          /\ accepted' = Append(accepted, packet)
          /\ counters'.data_packets_missing = counters.data_packets_missing + Gap(packet)
    BY AcceptedPacket
  <1> DEFINE p == network[i]
  <1> HIDE DEF p
  <1>2. /\ p \in Packets
        /\ expected # None => expected <= p.data_seq
        /\ expected' = p.data_seq + 1
        /\ accepted' = Append(accepted, p)
        /\ counters'.data_packets_missing = counters.data_packets_missing + Gap(p)
    BY <1>1 DEF p
  <1>3. p.data_seq \in Nat
    BY <1>2, PacketType
  <1>4. Expecting'
    BY <1>2, <1>3, AfterLast DEF Expecting, None
  <1>5. ASSUME NEW j \in 1..Len(accepted')-1
        PROVE  accepted'[j].data_seq < accepted'[j+1].data_seq
    <2>1. CASE j = Len(accepted)
      <3>1. accepted # <<>> /\ j + 1 = Len(accepted) + 1 /\ j \in 1..Len(accepted)
        BY <1>2, <1>5, <2>1, AfterLast
      <3>2. accepted'[j] = Last(accepted) /\ accepted'[j+1] = p
        BY <1>2, <2>1, <3>1, AfterLast
      <3>3. Last(accepted).data_seq \in Nat /\ expected = Last(accepted).data_seq + 1
            /\ expected # None
        BY <1>2, <3>1, AfterLast, PacketType DEF SequenceInv, Expecting
      <3> QED
        BY <1>2, <1>3, <3>2, <3>3
    <2>2. CASE j # Len(accepted)
      <3>1. j \in 1..Len(accepted)-1 /\ j + 1 \in 1..Len(accepted) /\ j \in 1..Len(accepted)
        BY <1>2, <1>5, <2>2, AfterLast
      <3>2. accepted'[j] = accepted[j] /\ accepted'[j+1] = accepted[j+1]
        BY <1>2, <3>1, AfterLast
      <3> QED
        BY <3>1, <3>2 DEF SequenceInv, OneSequence
    <2> QED
      BY <2>1, <2>2
  <1>6. counters'.data_packets_missing + Len(accepted')
          = Last(accepted').data_seq - accepted'[1].data_seq + 1
    <2>1. counters.data_packets_missing \in Nat
      BY DEF TypeOK, Counters
    <2>2. CASE accepted = <<>>
      <3>1. Gap(p) = 0 /\ counters.data_packets_missing = 0
        BY <2>2 DEF Gap, SequenceInv, Expecting
      <3>2. Len(accepted') = 1 /\ Last(accepted') = p /\ accepted'[1] = p
        BY <1>2, <2>2, AfterLast
      <3> QED
        BY <1>2, <1>3, <3>1, <3>2
    <2>3. CASE accepted # <<>>
      <3>1. expected # None /\ expected = Last(accepted).data_seq + 1
        BY <2>3 DEF SequenceInv, Expecting
      <3>2. Gap(p) = p.data_seq - expected
        BY <3>1 DEF Gap
      <3>3. counters.data_packets_missing + Len(accepted)
              = Last(accepted).data_seq - accepted[1].data_seq + 1
        BY <2>3 DEF SequenceInv, OneSequence
      <3>4. /\ Len(accepted') = Len(accepted) + 1 /\ Len(accepted) \in Nat
            /\ Last(accepted') = p /\ accepted'[1] = accepted[1]
            /\ Last(accepted) \in Packets /\ accepted[1] \in Packets
        BY <1>2, <2>3, AfterLast
      <3>5. Last(accepted).data_seq \in Nat /\ accepted[1].data_seq \in Nat
        BY <3>4, PacketType
      <3>6. counters'.data_packets_missing
              = counters.data_packets_missing + (p.data_seq - expected)
        BY <1>2, <3>2
      <3> DEFINE m == counters.data_packets_missing
                 n == Len(accepted)
                 l == Last(accepted).data_seq
                 f == accepted[1].data_seq
                 d == p.data_seq
      <3>7. m \in Nat /\ n \in Nat /\ l \in Nat /\ f \in Nat /\ d \in Nat
        BY <1>3, <2>1, <3>4, <3>5
      <3>8. m + n = l - f + 1 /\ expected = l + 1
        BY <3>1, <3>3
      <3>9. /\ counters'.data_packets_missing = m + (d - expected)
            /\ Len(accepted') = n + 1 /\ Last(accepted').data_seq = d
            /\ accepted'[1].data_seq = f
        BY <3>4, <3>6
      <3> HIDE DEF m, n, l, f, d
      <3>10. (m + (d - (l + 1))) + (n + 1) = d - f + 1
        BY <3>7, <3>8
      <3> QED
        BY <3>8, <3>9, <3>10
    <2> QED
      BY <2>2, <2>3
  <1> QED
    BY <1>4, <1>5, <1>6 DEF SequenceInv, OneSequence

\* SequenceInv is kept by every step.
LEMMA SequenceNext == TypeOK /\ SequenceInv /\ [Next]_vars => SequenceInv'
  <1> SUFFICES ASSUME TypeOK, SequenceInv, [Next]_vars PROVE SequenceInv'
    OBVIOUS
  <1>1. CASE Accept
    BY <1>1, SequenceAccept
  <1>2. CASE UNCHANGED receiverVars
    BY <1>2 DEF receiverVars, SequenceInv, Expecting, OneSequence
  <1>3. CASE Stale
    <2>1. counters'.data_packets_missing = counters.data_packets_missing
      BY <1>3, Bumped DEF Stale, TypeOK, Counters
    <2> QED
      BY <1>3, <2>1 DEF Stale, SequenceInv, Expecting, OneSequence
  <1>4. CASE RestartReceiver
    BY <1>4 DEF RestartReceiver, SequenceInv, Expecting, OneSequence, Zero, Counters
  <1>5. Enqueued \/ Unsent => UNCHANGED receiverVars
    BY NewPacket DEF Enqueued, Unsent, receiverVars
  <1>6. RestartSender \/ Lose \/ UNCHANGED vars => UNCHANGED receiverVars
    BY DEF RestartSender, Lose, vars
  <1> QED
    BY <1>1, <1>2, <1>3, <1>4, <1>5, <1>6 DEF Next

\* OneSequence, for both networks and any number of restarts.
THEOREM Sequence == Spec => []OneSequence
  <1>1. Init => TypeOK /\ SequenceInv
    BY TypeInit, SequenceInit
  <1>2. TypeOK /\ SequenceInv /\ [Next]_vars => (TypeOK /\ SequenceInv)'
    BY TypeNext, SequenceNext
  <1>3. TypeOK /\ SequenceInv => OneSequence
    BY DEF SequenceInv
  <1> QED
    BY <1>1, <1>2, <1>3, PTL DEF Spec
-----------------------------------------------------------------------------
(* On a network that keeps the order, what was accepted and what is under   *)
(* way line up in the order of sending.                                     *)

LineUp ==
  ~reordering =>
    /\ \A i, j \in DOMAIN network : i < j => Later(network[i], network[j])
    /\ \A a \in DOMAIN accepted, i \in DOMAIN network : Later(accepted[a], network[i])
    /\ \A a, b \in DOMAIN accepted : a < b => Later(accepted[a], accepted[b])

\* LineUp holds initially.
LEMMA LineUpInit == Init => LineUp
  BY DEF Init, LineUp

\* A packet just packed is later than every one still to be seen.
LEMMA NewIsLater ==
  ASSUME TypeOK, SeenInv, NEW p \in Batches, Packetize(p), NEW q \in Seen
  PROVE  Later(q, p)
  <1>1. WasSent(q) /\ q.run \in Nat /\ q.data_seq \in Nat
    BY PacketType DEF SeenInv, WasSent
  <1>2. p.run = run /\ p.data_seq = next_data_seq /\ run \in Nat /\ next_data_seq \in Nat
    BY NewPacket DEF TypeOK
  <1> QED
    BY <1>1, <1>2 DEF WasSent, Later

\* LineUp is kept by every step.
LEMMA LineUpNext == TypeOK /\ SeenInv /\ LineUp /\ [Next]_vars => LineUp'
  <1> SUFFICES ASSUME TypeOK, SeenInv, LineUp, [Next]_vars, ~reordering'
               PROVE  LineUp'
    BY DEF LineUp
  <1>0. network \in Seq(Packets) /\ Len(network) \in Nat /\ DOMAIN network = 1..Len(network)
    BY LenProperties DEF TypeOK
  <1>1. CASE Enqueued
    <2>1. PICK p \in Batches : Packetize(p) /\ network' = Append(network, p)
      BY <1>1 DEF Enqueued
    <2>2. p \in Packets /\ accepted' = accepted /\ reordering' = reordering
      BY <2>1, NewPacket DEF receiverVars
    <2>3. /\ DOMAIN network' = 1..Len(network)+1 /\ network'[Len(network)+1] = p
          /\ \A j \in 1..Len(network) : network'[j] = network[j]
      BY <1>0, <2>1, <2>2, AppendProperties, LenProperties
    <2>4. /\ \A j \in DOMAIN network : Later(network[j], p)
          /\ \A a \in DOMAIN accepted : Later(accepted[a], p)
      BY <2>1, NewIsLater DEF Seen
    <2>5. ASSUME NEW i \in DOMAIN network', NEW j \in DOMAIN network', i < j
          PROVE  Later(network'[i], network'[j])
      <3>1. i \in DOMAIN network /\ (j \in DOMAIN network \/ j = Len(network) + 1)
        BY <1>0, <2>3, <2>5
      <3> QED
        BY <1>0, <2>2, <2>3, <2>4, <2>5, <3>1 DEF LineUp
    <2>6. ASSUME NEW a \in DOMAIN accepted', NEW i \in DOMAIN network'
          PROVE  Later(accepted'[a], network'[i])
      <3>1. i \in DOMAIN network \/ i = Len(network) + 1
        BY <1>0, <2>3
      <3> QED
        BY <1>0, <2>2, <2>3, <2>4, <3>1 DEF LineUp
    <2> QED
      BY <2>2, <2>5, <2>6 DEF LineUp, Later
  <1>2. CASE UNCHANGED <<reordering, network, accepted>>
    BY <1>2 DEF LineUp, Later
  <1>3. CASE Lose
    <2>1. PICK i \in DOMAIN network :
            network' = RemoveAt(network, i) /\ accepted' = accepted /\ reordering' = reordering
      BY <1>3 DEF Lose, receiverVars
    <2> DEFINE at(j) == IF j < i THEN j ELSE j + 1
    <2>2. /\ DOMAIN network' = 1..Len(network)-1
          /\ \A j \in 1..Len(network)-1 : network'[j] = network[at(j)]
      BY <1>0, <2>1, Removed, LenProperties, SMTT(60)
    <2>3. /\ \A j \in 1..Len(network)-1 : at(j) \in DOMAIN network
          /\ \A j, k \in 1..Len(network)-1 : j < k => at(j) < at(k)
      BY <1>0
    <2> HIDE DEF at
    <2> ~reordering
      BY <2>1
    <2>4. ASSUME NEW j \in DOMAIN network', NEW k \in DOMAIN network', j < k
          PROVE  Later(network'[j], network'[k])
      BY <2>2, <2>3, <2>4 DEF LineUp
    <2>5. ASSUME NEW a \in DOMAIN accepted', NEW j \in DOMAIN network'
          PROVE  Later(accepted'[a], network'[j])
      BY <2>1, <2>2, <2>3 DEF LineUp
    <2>6. \A a, b \in DOMAIN accepted' : a < b => Later(accepted'[a], accepted'[b])
      BY <2>1 DEF LineUp
    <2> QED
      BY <2>4, <2>5, <2>6 DEF LineUp, Later
  <1>4. CASE Stale
    <2>1. PICK i \in DOMAIN network : Arrives(i)
      BY <1>4 DEF Stale
    <2>2. accepted' = accepted /\ reordering' = reordering
      BY <1>4 DEF Stale
    <2> ~reordering
      BY <2>2
    <2>3. /\ DOMAIN network' = 1..Len(network)-1
          /\ \A j \in DOMAIN network' : network'[j] = network[j+1]
      <3>1. i \in Nat /\ Arrives(i)
        BY <1>0, <2>1
      <3>2. /\ network' \in Seq(Packets)
            /\ ~reordering => /\ Len(network') = Len(network) - 1
                              /\ \A j \in DOMAIN network' : network'[j] = network[j+1]
        BY <1>0, <3>1, NetworkAfterArrival
      <3> QED
        BY <3>2, LenProperties
    <2>4. \A j \in 1..Len(network)-1 : j + 1 \in DOMAIN network
      BY <1>0
    <2>5. \A j, k \in 1..Len(network)-1 : j < k => j + 1 < k + 1
      BY <1>0
    <2> QED
      BY <2>2, <2>3, <2>4, <2>5 DEF LineUp, Later
  <1>5. CASE Accept
    <2>1. PICK i \in DOMAIN network :
            /\ Arrives(i) /\ network[i] \in Packets
            /\ accepted' = Append(accepted, network[i])
            /\ reordering' = reordering
      BY <1>5, AcceptedPacket
    <2> ~reordering
      BY <2>1
    <2>2. /\ i = 1 /\ DOMAIN network' = 1..Len(network)-1
          /\ \A j \in DOMAIN network' : network'[j] = network[j+1]
      <3>1. i \in Nat /\ Arrives(i)
        BY <1>0, <2>1
      <3>2. /\ network' \in Seq(Packets)
            /\ ~reordering => /\ i = 1 /\ Len(network') = Len(network) - 1
                              /\ \A j \in DOMAIN network' : network'[j] = network[j+1]
        BY <1>0, <3>1, NetworkAfterArrival
      <3> QED
        BY <3>2, LenProperties
    <2>3. \A j \in 1..Len(network)-1 : j + 1 \in DOMAIN network /\ 1 < j + 1
      BY <1>0
    <2>4. \A j, k \in 1..Len(network)-1 : j < k => j + 1 < k + 1
      BY <1>0
    <2>5. /\ DOMAIN accepted' = 1..Len(accepted)+1 /\ DOMAIN accepted = 1..Len(accepted)
          /\ Len(accepted) \in Nat /\ accepted'[Len(accepted)+1] = network[1]
          /\ \A a \in 1..Len(accepted) : accepted'[a] = accepted[a]
      BY <2>1, <2>2, AfterLast
    <2>6. \A j, k \in DOMAIN network' : j < k => Later(network'[j], network'[k])
      BY <2>1, <2>2, <2>3, <2>4 DEF LineUp
    <2>7. ASSUME NEW a \in DOMAIN accepted', NEW j \in DOMAIN network'
          PROVE  Later(accepted'[a], network'[j])
      <3>1. a \in DOMAIN accepted \/ a = Len(accepted) + 1
        BY <2>5
      <3> QED
        BY <2>1, <2>2, <2>3, <2>5, <3>1 DEF LineUp
    <2>8. ASSUME NEW a \in DOMAIN accepted', NEW b \in DOMAIN accepted', a < b
          PROVE  Later(accepted'[a], accepted'[b])
      <3>1. a \in DOMAIN accepted /\ (b \in DOMAIN accepted \/ b = Len(accepted) + 1)
        BY <2>5, <2>8
      <3> QED
        BY <2>1, <2>2, <2>5, <2>8, <3>1 DEF LineUp
    <2> QED
      BY <2>6, <2>7, <2>8 DEF LineUp, Later
  <1>6. CASE RestartReceiver
    BY <1>6 DEF RestartReceiver, LineUp, Later
  <1>7. Unsent => UNCHANGED <<reordering, network, accepted>>
    BY NewPacket DEF Unsent, receiverVars
  <1>8. RestartSender \/ UNCHANGED vars => UNCHANGED <<reordering, network, accepted>>
    BY DEF RestartSender, vars, receiverVars
  <1> QED
    BY <1>1, <1>2, <1>3, <1>4, <1>5, <1>6, <1>7, <1>8 DEF Next
-----------------------------------------------------------------------------
(* What comes out, and what is stale.                                       *)

Ends ==
  /\ accepted = <<>> => output = <<>>
  /\ accepted # <<>> => output # <<>> /\ Last(output) = Last(accepted).last

OutputInv == Ends /\ OutputInOrder

\* The frames of a packet behind frames that all come before it.
LEMMA OrderedConcat ==
  ASSUME NEW s \in Seq(Nat), \A i \in 1..Len(s)-1 : s[i] < s[i+1],
         NEW p \in Packets, s # <<>> => Last(s) < p.first
  PROVE  /\ s \o Frames(p) # <<>> /\ Last(s \o Frames(p)) = p.last
         /\ \A i \in 1..Len(s \o Frames(p))-1 :
              (s \o Frames(p))[i] < (s \o Frames(p))[i+1]
  <1> DEFINE t == Frames(p)
             n == p.last - p.first + 1
             o == s \o t
  <1>1. p.first \in Nat /\ p.last \in Nat /\ n \in Nat \ {0}
    BY PacketType
  <1>2. t \in Seq(Nat) /\ Len(t) = n /\ \A k \in 1..n : t[k] = p.first + k - 1
    BY FramesOf
  <1>3. Len(s) \in Nat /\ (s = <<>> <=> Len(s) = 0) /\ \A i \in 1..Len(s) : s[i] \in Nat
    BY LenProperties, EmptySeq
  <1> HIDE DEF t, n
  <1>4. /\ o \in Seq(Nat) /\ Len(o) = Len(s) + n
        /\ \A i \in 1..Len(s)+n : o[i] = IF i <= Len(s) THEN s[i] ELSE t[i - Len(s)]
    BY <1>2, ConcatProperties
  <1> HIDE DEF o
  <1>5. Last(o) = p.last
    <2>1. /\ Len(s) + n \in 1..Len(s)+n /\ ~(Len(s) + n <= Len(s)) /\ n \in 1..n
          /\ (Len(s) + n) - Len(s) = n
      BY <1>1, <1>3
    <2>2. Last(o) = t[n]
      BY <1>4, <2>1 DEF Last
    <2>3. p.first + n - 1 = p.last
      BY <1>1 DEF n
    <2> QED
      BY <1>2, <2>1, <2>2, <2>3
  <1>6. o # <<>>
    BY <1>1, <1>3, <1>4
  <1>7. ASSUME NEW i \in 1..Len(o)-1
        PROVE  o[i] < o[i+1]
    <2>1. i \in Nat /\ i \in 1..Len(s)+n /\ i + 1 \in 1..Len(s)+n
      BY <1>1, <1>3, <1>4, <1>7
    <2>2. CASE i < Len(s)
      <3>1. i \in 1..Len(s)-1 /\ i <= Len(s) /\ i + 1 <= Len(s)
        BY <1>3, <2>1, <2>2
      <3>2. o[i] = s[i] /\ o[i+1] = s[i+1]
        BY <1>4, <2>1, <3>1
      <3> QED
        BY <3>1, <3>2
    <2>3. CASE i = Len(s)
      <3>1. i <= Len(s) /\ ~(i + 1 <= Len(s)) /\ (i + 1) - Len(s) = 1 /\ s # <<>>
            /\ 1 \in 1..n
        BY <1>1, <1>3, <2>1, <2>3
      <3>2. o[i] = Last(s) /\ o[i+1] = t[1]
        BY <1>4, <2>1, <2>3, <3>1 DEF Last
      <3>3. t[1] = p.first
        BY <1>1, <1>2, <3>1
      <3> QED
        BY <3>1, <3>2, <3>3
    <2>4. CASE i > Len(s)
      <3>1. /\ ~(i <= Len(s)) /\ ~(i + 1 <= Len(s))
            /\ i - Len(s) \in 1..n /\ (i + 1) - Len(s) \in 1..n
        BY <1>1, <1>3, <2>1, <2>4
      <3>2. o[i] = t[i - Len(s)] /\ o[i+1] = t[(i + 1) - Len(s)]
        BY <1>4, <2>1, <3>1
      <3>3. t[i - Len(s)] = p.first + (i - Len(s)) - 1
            /\ t[(i + 1) - Len(s)] = p.first + ((i + 1) - Len(s)) - 1
        BY <1>2, <3>1
      <3> QED
        BY <1>1, <1>3, <2>1, <3>2, <3>3
    <2> QED
      BY <1>3, <2>1, <2>2, <2>3, <2>4
  <1> QED
    BY <1>5, <1>6, <1>7 DEF o, t

\* OutputInv holds initially.
LEMMA OutputInit == Init => OutputInv
  BY DEF Init, OutputInv, Ends, OutputInOrder

\* OutputInv is kept by the step that accepts a packet.
LEMMA OutputAccept ==
  ASSUME TypeOK, SeenInv, SequenceInv, LineUp, OutputInv, Accept
  PROVE  OutputInv'
  <1>1. PICK i \in DOMAIN network :
          LET packet == network[i] IN
          /\ Arrives(i) /\ packet \in Packets
          /\ expected # None => expected <= packet.data_seq
          /\ output' = output \o Frames(packet)
          /\ accepted' = Append(accepted, packet)
          /\ reordering' = reordering
    BY AcceptedPacket
  <1> DEFINE p == network[i]
  <1>2. p \in Seen /\ p \in Packets /\ p.data_seq \in Nat
    BY <1>1, PacketType DEF Seen
  <1>3. ~reordering => \A a \in DOMAIN accepted : Later(accepted[a], p)
    BY <1>1 DEF LineUp
  <1>4. output \in Seq(Nat) /\ output' = output \o Frames(p) /\ accepted' = Append(accepted, p)
    BY <1>1 DEF TypeOK
  <1>5. expected # None => expected <= p.data_seq
    BY <1>1
  <1> HIDE DEF p
  <1>6. ASSUME OneRun' \/ ~reordering PROVE OneRun \/ ~reordering
    <2>1. /\ DOMAIN accepted = 1..Len(accepted) /\ DOMAIN accepted' = 1..Len(accepted)+1
          /\ Len(accepted) \in Nat /\ \A j \in 1..Len(accepted) : accepted'[j] = accepted[j]
      BY <1>2, <1>4, AfterLast
    <2>2. OneRun' => OneRun
      <3>1. \A j \in DOMAIN accepted : j \in DOMAIN accepted' /\ accepted'[j] = accepted[j]
        BY <2>1
      <3> QED
        BY <3>1 DEF OneRun
    <2> QED
      BY <1>6, <2>2
  <1>7. ASSUME OneRun' \/ ~reordering, accepted # <<>>
        PROVE  Last(output) < p.first
    <2>1. /\ Len(accepted) \in DOMAIN accepted /\ Last(accepted) = accepted[Len(accepted)]
          /\ Last(accepted) \in Packets /\ Len(accepted) + 1 \in DOMAIN accepted'
          /\ Len(accepted) \in DOMAIN accepted'
          /\ accepted'[Len(accepted) + 1] = p /\ accepted'[Len(accepted)] = Last(accepted)
      BY <1>2, <1>4, <1>7, AfterLast
    <2>2. Last(accepted) \in Seen
      BY <2>1 DEF Seen
    <2>3. expected = Last(accepted).data_seq + 1 /\ expected # None
          /\ Last(accepted).data_seq \in Nat
      BY <1>7, <2>1, PacketType DEF SequenceInv, Expecting
    <2>4. Later(Last(accepted), p)
      <3>1. CASE ~reordering
        BY <1>3, <2>1, <3>1
      <3>2. CASE OneRun'
        <4>1. Last(accepted).run = p.run
          BY <2>1, <3>2 DEF OneRun
        <4> QED
          BY <1>2, <1>5, <2>3, <4>1 DEF Later
      <3> QED
        BY <1>7, <3>1, <3>2
    <2>5. Last(accepted).last < p.first
      BY <1>2, <2>2, <2>4 DEF SeenInv
    <2> QED
      BY <1>7, <2>5 DEF OutputInv, Ends
  <1>8. accepted = <<>> => output = <<>>
    BY DEF OutputInv, Ends
  <1>9. ASSUME OneRun' \/ ~reordering
        PROVE  \A j \in 1..Len(output')-1 : output'[j] < output'[j+1]
    <2>1. \A j \in 1..Len(output)-1 : output[j] < output[j+1]
      BY <1>6, <1>9 DEF OutputInv, OutputInOrder
    <2>2. output # <<>> => Last(output) < p.first
      BY <1>7, <1>8, <1>9
    <2> QED
      BY <1>2, <1>4, <2>1, <2>2, OrderedConcat
  <1>10. output' # <<>> /\ Last(output') = p.last
    <2> DEFINE n == p.last - p.first + 1
    <2>1. p.first \in Nat /\ p.last \in Nat /\ n \in Nat \ {0} /\ Len(output) \in Nat
      BY <1>2, <1>4, PacketType
    <2>2. /\ Frames(p) \in Seq(Nat) /\ Len(Frames(p)) = n
          /\ Frames(p)[n] = p.first + n - 1
      BY <1>2, <2>1, FramesOf
    <2>3. p.first + n - 1 = p.last
      BY <2>1
    <2> HIDE DEF n
    <2>4. /\ output' \in Seq(Nat) /\ Len(output') = Len(output) + n
          /\ \A j \in 1..Len(output)+n :
               output'[j] = IF j <= Len(output) THEN output[j] ELSE Frames(p)[j - Len(output)]
      BY <1>4, <2>2, ConcatProperties
    <2>5. Len(output) + n \in 1..Len(output)+n /\ ~(Len(output) + n <= Len(output))
          /\ (Len(output) + n) - Len(output) = n
      BY <2>1
    <2> QED
      BY <2>1, <2>2, <2>3, <2>4, <2>5 DEF Last
  <1>11. Ends'
    BY <1>2, <1>4, <1>10, AfterLast DEF Ends
  <1> QED
    BY <1>1, <1>9, <1>11 DEF OutputInv, OutputInOrder

\* OutputInv is kept by every step.
LEMMA OutputNext ==
  TypeOK /\ SeenInv /\ SequenceInv /\ LineUp /\ OutputInv /\ [Next]_vars => OutputInv'
  <1> SUFFICES ASSUME TypeOK, SeenInv, SequenceInv, LineUp, OutputInv, [Next]_vars
               PROVE  OutputInv'
    OBVIOUS
  <1>1. CASE Accept
    BY <1>1, OutputAccept
  <1>2. CASE UNCHANGED <<reordering, accepted, output>>
    BY <1>2 DEF OutputInv, Ends, OutputInOrder, OneRun
  <1>3. CASE RestartReceiver
    BY <1>3 DEF RestartReceiver, OutputInv, Ends, OutputInOrder
  <1>4. Enqueued \/ Unsent => UNCHANGED <<reordering, accepted, output>>
    BY NewPacket DEF Enqueued, Unsent, receiverVars
  <1>5. RestartSender \/ Lose \/ Stale \/ UNCHANGED vars
          => UNCHANGED <<reordering, accepted, output>>
    BY DEF RestartSender, Lose, Stale, vars, receiverVars
  <1> QED
    BY <1>1, <1>2, <1>3, <1>4, <1>5 DEF Next

\* StaleMeansRestart holds initially.
LEMMA StaleInit == Init => StaleMeansRestart
  BY DEF Init, StaleMeansRestart, Zero, Counters

\* A stale packet comes after the last one accepted, with a smaller number: it is
\* of a later run.
LEMMA StaleNext ==
  TypeOK /\ SeenInv /\ SequenceInv /\ LineUp /\ StaleMeansRestart /\ [Next]_vars
    => StaleMeansRestart'
  <1> SUFFICES ASSUME TypeOK, SeenInv, SequenceInv, LineUp, StaleMeansRestart, [Next]_vars,
                      ~reordering', counters'.stale_data_packets > 0
               PROVE  accepted' # <<>> /\ accepted'[1].run < run'
    BY DEF StaleMeansRestart
  <1>0. run \in Nat
    BY DEF TypeOK
  <1>1. CASE Stale
    <2>1. PICK i \in DOMAIN network : Arrives(i) /\ IsStale(network[i])
      BY <1>1 DEF Stale
    <2>2. accepted' = accepted /\ run' = run /\ reordering' = reordering
      BY <1>1 DEF Stale, senderVars
    <2> ~reordering
      BY <2>2
    <2> DEFINE p == network[i]
    <2>3. /\ p \in Seen /\ p \in Packets /\ WasSent(p)
          /\ \A a \in DOMAIN accepted : Later(accepted[a], p)
      BY <2>1 DEF Seen, SeenInv, LineUp, TypeOK
    <2>4. expected # None /\ p.data_seq < expected
      BY <2>1 DEF IsStale
    <2> HIDE DEF p
    <2>5. p.run \in Nat /\ p.data_seq \in Nat /\ p.run <= run
      BY <2>3, PacketType DEF WasSent
    <2>6. accepted # <<>> /\ expected = Last(accepted).data_seq + 1
      BY <2>4 DEF SequenceInv, Expecting
    <2>7. Len(accepted) \in Nat /\ DOMAIN accepted = 1..Len(accepted) /\ Len(accepted) # 0
          /\ accepted \in [1..Len(accepted) -> Packets]
      BY <2>6, LenProperties, EmptySeq DEF TypeOK
    <2>8. /\ 1 \in DOMAIN accepted /\ Len(accepted) \in DOMAIN accepted
          /\ Last(accepted) = accepted[Len(accepted)]
          /\ Last(accepted) \in Packets /\ accepted[1] \in Packets
      BY <2>7 DEF Last
    <2>9. /\ Last(accepted).run \in Nat /\ Last(accepted).data_seq \in Nat
          /\ accepted[1].run \in Nat
      BY <2>8, PacketType
    <2>10. Last(accepted).run < p.run
      BY <2>3, <2>4, <2>5, <2>6, <2>8, <2>9 DEF Later
    <2>11. accepted[1].run <= Last(accepted).run
      <3>1. CASE Len(accepted) = 1
        BY <2>8, <2>9, <3>1
      <3>2. CASE Len(accepted) # 1
        <4>1. 1 < Len(accepted)
          BY <2>7, <3>2
        <4>2. Later(accepted[1], Last(accepted))
          BY <2>8, <4>1 DEF LineUp
        <4> QED
          BY <2>9, <4>2 DEF Later
      <3> QED
        BY <3>1, <3>2
    <2> QED
      BY <1>0, <2>2, <2>5, <2>6, <2>9, <2>10, <2>11
  <1>2. CASE Accept
    <2>1. PICK i \in DOMAIN network :
            /\ network[i] \in Packets
            /\ accepted' = Append(accepted, network[i])
            /\ counters'.stale_data_packets = counters.stale_data_packets
            /\ reordering' = reordering /\ UNCHANGED senderVars
      BY <1>2, AcceptedPacket
    <2>2. accepted # <<>> /\ accepted[1].run < run
      BY <2>1 DEF StaleMeansRestart
    <2>3. accepted' # <<>> /\ accepted'[1] = accepted[1]
      BY <2>1, <2>2, AfterLast
    <2> QED
      BY <2>1, <2>2, <2>3 DEF senderVars
  <1>3. CASE RestartSender
    <2>1. run' = run + 1 /\ UNCHANGED receiverVars /\ reordering' = reordering
      BY <1>3 DEF RestartSender
    <2>2. accepted # <<>> /\ accepted[1].run < run /\ accepted' = accepted
      BY <2>1 DEF StaleMeansRestart, receiverVars
    <2>3. accepted[1] \in Packets
      BY <2>2, LenProperties, EmptySeq DEF TypeOK
    <2>4. accepted[1].run \in Nat
      BY <2>3, PacketType
    <2> QED
      BY <1>0, <2>1, <2>2, <2>4
  <1>4. CASE UNCHANGED <<reordering, run, counters, accepted>>
    BY <1>4 DEF StaleMeansRestart
  <1>5. CASE RestartReceiver
    BY <1>5 DEF RestartReceiver, Zero, Counters
  <1>6. Enqueued \/ Unsent => UNCHANGED <<reordering, run, counters, accepted>>
    BY NewPacket DEF Enqueued, Unsent, receiverVars
  <1>7. Lose \/ UNCHANGED vars => UNCHANGED <<reordering, run, counters, accepted>>
    BY DEF Lose, vars, senderVars, receiverVars
  <1> QED
    BY <1>1, <1>2, <1>3, <1>4, <1>5, <1>6, <1>7 DEF Next

IInv == TypeOK /\ SeenInv /\ SequenceInv /\ LineUp /\ OutputInv /\ StaleMeansRestart

\* The inductive invariant of the pipeline.
THEOREM Invariant == Spec => []IInv
  <1>1. Init => IInv
    BY TypeInit, SeenInit, SequenceInit, LineUpInit, OutputInit, StaleInit DEF IInv
  <1>2. IInv /\ [Next]_vars => IInv'
    BY TypeNext, SeenNext, SequenceNext, LineUpNext, OutputNext, StaleNext DEF IInv
  <1> QED
    BY <1>1, <1>2, PTL DEF Spec

\* OutputInOrder: a reader of the output ring sees source order, on any network
\* within a run of the sender, and across runs on a network that keeps order.
THEOREM Output == Spec => []OutputInOrder
  <1>1. IInv => OutputInOrder
    BY DEF IInv, OutputInv
  <1> QED
    BY <1>1, Invariant, PTL

\* StaleMeansRestart: without reordering only a restart of the sender makes packets
\* stale.
THEOREM StalePackets == Spec => []StaleMeansRestart
  <1>1. IInv => StaleMeansRestart
    BY DEF IInv
  <1> QED
    BY <1>1, Invariant, PTL
-----------------------------------------------------------------------------
(* What is missing.  On a network that keeps the order every number sent     *)
(* since a packet that is still seen is either gone or seen itself.          *)

\* Some packet of this run with this number is under way or accepted.
SeenNumber(s) == \E q \in Seen : q.run = run /\ q.data_seq = s

Covered ==
  /\ \A s \in gone : s < next_data_seq
  /\ ~reordering =>
       \A p \in Seen : p.run = run =>
         /\ p.data_seq \notin gone
         /\ \A s \in p.data_seq..next_data_seq-1 : s \in gone \/ SeenNumber(s)

\* Covered holds initially.
LEMMA CoveredInit == Init => Covered
  BY DEF Init, Covered, Seen

\* No two places of the line hold the same packet of this run.
LEMMA OnePlace ==
  ASSUME TypeOK, LineUp, ~reordering, NEW i \in DOMAIN network
  PROVE  /\ \A j \in DOMAIN network : j # i => ~(/\ network[j].run = network[i].run
                                                 /\ network[j].data_seq = network[i].data_seq)
         /\ \A a \in DOMAIN accepted : ~(/\ accepted[a].run = network[i].run
                                         /\ accepted[a].data_seq = network[i].data_seq)
  <1>1. network \in Seq(Packets) /\ accepted \in Seq(Packets)
    BY DEF TypeOK
  <1>2. \A p \in Packets : p.run \in Nat /\ p.data_seq \in Nat
    BY PacketType
  <1>3. /\ \A j \in DOMAIN network : network[j] \in Packets /\ j \in Nat
        /\ \A a \in DOMAIN accepted : accepted[a] \in Packets
    BY <1>1
  <1>4. \A p, q \in Packets : Later(p, q) =>
          ~(p.run = q.run /\ p.data_seq = q.data_seq)
    BY <1>2 DEF Later
  <1>5. ASSUME NEW j \in DOMAIN network, j # i
        PROVE  Later(network[j], network[i]) \/ Later(network[i], network[j])
    BY <1>3, <1>5 DEF LineUp
  <1> QED
    BY <1>3, <1>4, <1>5 DEF LineUp

\* Covered is kept by every step.
LEMMA CoveredNext ==
  TypeOK /\ SeenInv /\ SequenceInv /\ LineUp /\ Covered /\ [Next]_vars => Covered'
  <1> SUFFICES ASSUME TypeOK, SeenInv, SequenceInv, LineUp, Covered, [Next]_vars
               PROVE  Covered'
    OBVIOUS
  <1>0. /\ network \in Seq(Packets) /\ Len(network) \in Nat /\ DOMAIN network = 1..Len(network)
        /\ accepted \in Seq(Packets)
        /\ run \in Nat /\ next_data_seq \in Nat /\ gone \in SUBSET Nat
    BY LenProperties DEF TypeOK
  <1>a. \A q \in Seen : q \in Packets /\ WasSent(q) /\ q.run \in Nat /\ q.data_seq \in Nat
    BY PacketType DEF SeenInv, WasSent
  <1>1. CASE Enqueued
    <2>1. PICK p \in Batches : Packetize(p) /\ network' = Append(network, p)
      BY <1>1 DEF Enqueued
    <2>2. /\ p \in Packets /\ accepted' = accepted /\ reordering' = reordering
          /\ p.run = run /\ p.data_seq = next_data_seq /\ run' = run
          /\ next_data_seq' = next_data_seq + 1 /\ gone' = gone
      BY <1>1, <2>1, NewPacket DEF receiverVars, Enqueued
    <2>3. /\ DOMAIN network' = 1..Len(network)+1 /\ network'[Len(network)+1] = p
          /\ \A j \in 1..Len(network) : network'[j] = network[j]
      BY <1>0, <2>1, <2>2, AppendProperties, LenProperties
    <2>4. Seen' = Seen \cup {p}
      <3>1. \A j \in DOMAIN network' :
              network'[j] = p \/ (j \in DOMAIN network /\ network'[j] = network[j])
        BY <1>0, <2>3
      <3>2. p \in Seen' /\ \A j \in DOMAIN network : j \in DOMAIN network' /\ network'[j] = network[j]
        BY <1>0, <2>3 DEF Seen
      <3> QED
        BY <2>2, <3>1, <3>2 DEF Seen
    <2>5. next_data_seq \notin gone
      BY <1>0 DEF Covered
    <2>6. ASSUME NEW s \in Nat, s \in gone \/ SeenNumber(s)
          PROVE  s \in gone' \/ SeenNumber(s)'
      BY <2>2, <2>4, <2>6 DEF SeenNumber
    <2> PICK d \in Nat : d = next_data_seq
      BY <1>0
    <2>7. SeenNumber(d)'
      BY <2>2, <2>4 DEF SeenNumber
    <2>8. ASSUME ~reordering', NEW q \in Seen', q.run = run'
          PROVE  /\ q.data_seq \notin gone'
                 /\ \A s \in q.data_seq..next_data_seq'-1 : s \in gone' \/ SeenNumber(s)'
      <3>1. CASE q = p
        <4>1. q.data_seq..next_data_seq'-1 = {d}
          BY <2>2, <3>1
        <4>2. q.data_seq \notin gone'
          BY <2>2, <2>5, <3>1
        <4> QED
          BY <2>7, <4>1, <4>2
      <3>2. CASE q \in Seen
        <4>1. /\ q.data_seq \notin gone /\ q.data_seq \in Nat
              /\ \A s \in q.data_seq..next_data_seq-1 : s \in gone \/ SeenNumber(s)
          BY <1>a, <2>2, <2>8, <3>2 DEF Covered
        <4>2. ASSUME NEW s \in q.data_seq..next_data_seq'-1
              PROVE  s \in gone' \/ SeenNumber(s)'
          <5>1. s = d \/ s \in q.data_seq..next_data_seq-1
            BY <2>2, <4>1
          <5>2. s \in Nat
            BY <4>1
          <5>3. CASE s = d
            BY <2>7, <5>3
          <5>4. CASE s \in q.data_seq..next_data_seq-1
            BY <2>6, <4>1, <5>2, <5>4
          <5> QED
            BY <5>1, <5>3, <5>4
        <4> QED
          BY <2>2, <4>1, <4>2
      <3> QED
        BY <2>4, <3>1, <3>2
    <2>9. \A s \in gone' : s < next_data_seq'
      BY <1>0, <2>2 DEF Covered
    <2> QED
      BY <2>8, <2>9 DEF Covered
  <1>2. CASE Unsent
    <2>1. PICK p \in Batches : Packetize(p)
      BY <1>2 DEF Unsent
    <2>2. /\ accepted' = accepted /\ reordering' = reordering /\ network' = network
          /\ run' = run /\ gone' = gone \cup {next_data_seq}
          /\ next_data_seq' = next_data_seq + 1
      BY <1>2, <2>1, NewPacket DEF receiverVars, Unsent
    <2>3. Seen' = Seen /\ \A s : SeenNumber(s)' <=> SeenNumber(s)
      BY <2>2 DEF Seen, SeenNumber
    <2>4. ASSUME ~reordering', NEW q \in Seen', q.run = run'
          PROVE  /\ q.data_seq \notin gone'
                 /\ \A s \in q.data_seq..next_data_seq'-1 : s \in gone' \/ SeenNumber(s)'
      <3>1. /\ q.data_seq \notin gone /\ q.data_seq \in Nat /\ q.data_seq < next_data_seq
            /\ \A s \in q.data_seq..next_data_seq-1 : s \in gone \/ SeenNumber(s)
        BY <1>a, <2>2, <2>3, <2>4 DEF Covered, WasSent
      <3>2. \A s \in q.data_seq..next_data_seq'-1 :
              s = next_data_seq \/ s \in q.data_seq..next_data_seq-1
        BY <1>0, <2>2, <3>1
      <3> QED
        BY <1>0, <2>2, <2>3, <3>1, <3>2
    <2>5. \A s \in gone' : s < next_data_seq'
      BY <1>0, <2>2 DEF Covered
    <2> QED
      BY <2>4, <2>5 DEF Covered
  <1>3. CASE RestartSender
    <2>1. /\ run' = run + 1 /\ gone' = {} /\ next_data_seq' = 0
          /\ UNCHANGED <<network, accepted>>
      BY <1>3 DEF RestartSender, receiverVars
    <2>2. \A q \in Seen' : q.run # run'
      BY <1>0, <1>a, <2>1 DEF Seen, WasSent
    <2> QED
      BY <2>1, <2>2 DEF Covered
  <1>4. CASE Lose
    <2>1. PICK i \in DOMAIN network :
            /\ network' = RemoveAt(network, i)
            /\ gone' = IF network[i].run = run THEN gone \cup {network[i].data_seq} ELSE gone
            /\ accepted' = accepted /\ reordering' = reordering
            /\ run' = run /\ next_data_seq' = next_data_seq
      BY <1>4 DEF Lose, receiverVars, senderVars
    <2> DEFINE at(j) == IF j < i THEN j ELSE j + 1
    <2>2. /\ DOMAIN network' = 1..Len(network)-1
          /\ \A j \in 1..Len(network)-1 : network'[j] = network[at(j)]
      <3>1. network \in Seq(Packets) /\ i \in DOMAIN network /\ network' = RemoveAt(network, i)
        BY <1>0, <2>1
      <3>2. /\ network' \in Seq(Packets) /\ Len(network') = Len(network) - 1
            /\ \A j \in 1..Len(network)-1 : network'[j] = network[at(j)]
        BY <3>1, Removed
      <3>3. DOMAIN network' = 1..Len(network')
        BY <3>2, LenProperties
      <3> QED
        BY <3>2, <3>3
    <2>3. /\ \A j \in 1..Len(network)-1 : at(j) \in DOMAIN network /\ at(j) # i
          /\ \A k \in DOMAIN network : k # i => \E j \in 1..Len(network)-1 : at(j) = k
      <3>1. \A j \in 1..Len(network)-1 : at(j) \in DOMAIN network /\ at(j) # i
        BY <1>0
      <3>2. ASSUME NEW k \in DOMAIN network, k # i
            PROVE  \E j \in 1..Len(network)-1 : at(j) = k
        <4>1. CASE k < i
          BY <1>0, <4>1
        <4>2. CASE ~(k < i)
          <5>1. k - 1 \in 1..Len(network)-1 /\ at(k-1) = k
            BY <1>0, <3>2, <4>2
          <5> QED
            BY <5>1
        <4> QED
          BY <4>1, <4>2
      <3> QED
        BY <3>1, <3>2
    <2> HIDE DEF at
    <2> DEFINE p == network[i]
    <2>4. Seen' \subseteq Seen /\ Seen \subseteq Seen' \cup {p}
      <3>1. \A j \in DOMAIN network' : \E k \in DOMAIN network : network'[j] = network[k]
        BY <2>2, <2>3
      <3>2. \A k \in DOMAIN network : k # i => \E j \in DOMAIN network' : network'[j] = network[k]
        BY <2>2, <2>3
      <3> QED
        BY <2>1, <3>1, <3>2 DEF Seen
    <2>5. p \in Seen /\ p.data_seq \in Nat /\ (p.run = run => p.data_seq < next_data_seq)
      <3>1. p \in Seen
        BY DEF Seen
      <3> QED
        BY <1>a, <3>1 DEF WasSent
    <2>6. ASSUME ~reordering, NEW q \in Seen', q.run = p.run
          PROVE  q.data_seq # p.data_seq
      <3>1. /\ \A j \in DOMAIN network : j # i => ~(/\ network[j].run = p.run
                                                 /\ network[j].data_seq = p.data_seq)
            /\ \A a \in DOMAIN accepted : ~(/\ accepted[a].run = p.run
                                         /\ accepted[a].data_seq = p.data_seq)
        BY <2>6, OnePlace
      <3>2. \/ \E j \in DOMAIN network' : q = network'[j]
            \/ \E a \in DOMAIN accepted : q = accepted[a]
        BY <2>1, <2>6 DEF Seen
      <3>3. ASSUME NEW j \in DOMAIN network', q = network'[j]
            PROVE  q.data_seq # p.data_seq
        <4>1. at(j) \in DOMAIN network /\ at(j) # i /\ q = network[at(j)]
          BY <2>2, <2>3, <3>3
        <4> QED
          BY <2>6, <3>1, <4>1
      <3>4. ASSUME NEW a \in DOMAIN accepted, q = accepted[a]
            PROVE  q.data_seq # p.data_seq
        BY <2>6, <3>1, <3>4
      <3> QED
        BY <3>2, <3>3, <3>4
    <2> HIDE DEF p
    <2>7. gone' = IF p.run = run THEN gone \cup {p.data_seq} ELSE gone
      BY <2>1 DEF p
    <2>8. ASSUME NEW s, s \in gone \/ SeenNumber(s)
          PROVE  s \in gone' \/ SeenNumber(s)'
      BY <2>1, <2>4, <2>7, <2>8 DEF SeenNumber
    <2>9. ASSUME ~reordering', NEW q \in Seen', q.run = run'
          PROVE  /\ q.data_seq \notin gone'
                 /\ \A s \in q.data_seq..next_data_seq'-1 : s \in gone' \/ SeenNumber(s)'
      <3>1. /\ q.data_seq \notin gone
            /\ \A s \in q.data_seq..next_data_seq-1 : s \in gone \/ SeenNumber(s)
        BY <2>1, <2>4, <2>9 DEF Covered
      <3>2. q.data_seq \notin gone'
        BY <2>1, <2>6, <2>7, <2>9, <3>1
      <3> QED
        BY <2>1, <2>8, <3>1, <3>2
    <2>10. \A s \in gone' : s < next_data_seq'
      BY <2>1, <2>5, <2>7 DEF Covered
    <2> QED
      BY <2>9, <2>10 DEF Covered
  <1>b. ASSUME UNCHANGED <<run, next_data_seq, gone, reordering>>,
               ~reordering => /\ Seen' \subseteq Seen
                              /\ \A p \in Seen, q \in Seen' :
                                   p \in Seen' \/ p.run # run \/ q.run # run
                                     \/ p.data_seq < q.data_seq
        PROVE  Covered'
    <2>1. ASSUME ~reordering', NEW q \in Seen', q.run = run'
          PROVE  /\ q.data_seq \notin gone'
                 /\ \A s \in q.data_seq..next_data_seq'-1 : s \in gone' \/ SeenNumber(s)'
      <3>1. /\ q.data_seq \notin gone /\ q \in Seen /\ q.run = run
            /\ \A s \in q.data_seq..next_data_seq-1 : s \in gone \/ SeenNumber(s)
        BY <1>b, <2>1 DEF Covered
      <3>2. ASSUME NEW s \in q.data_seq..next_data_seq-1, SeenNumber(s)
            PROVE  SeenNumber(s)'
        <4> PICK p \in Seen : p.run = run /\ p.data_seq = s
          BY <3>2 DEF SeenNumber
        <4>1. ~(p.data_seq < q.data_seq)
          BY <1>0, <1>a, <3>1
        <4>2. p \in Seen'
          BY <1>b, <2>1, <3>1, <4>1
        <4> QED
          BY <1>b, <4>2 DEF SeenNumber
      <3> QED
        BY <1>b, <3>1, <3>2
    <2> QED
      BY <1>b, <2>1 DEF Covered
  <1>5. CASE Stale
    <2>1. PICK i \in DOMAIN network : Arrives(i) /\ IsStale(network[i])
      BY <1>5 DEF Stale
    <2>2. /\ accepted' = accepted /\ expected' = expected
          /\ UNCHANGED <<run, next_data_seq, gone, reordering>>
      BY <1>5 DEF Stale, senderVars
    <2>3. ASSUME ~reordering
          PROVE  /\ Seen' \subseteq Seen
                 /\ \A p \in Seen, q \in Seen' :
                      p \in Seen' \/ p.run # run \/ q.run # run \/ p.data_seq < q.data_seq
      <3>1. /\ i = 1 /\ DOMAIN network' = 1..Len(network)-1
            /\ \A j \in DOMAIN network' : network'[j] = network[j+1]
        <4>1. i \in Nat /\ Arrives(i)
          BY <1>0, <2>1
        <4>2. /\ network' \in Seq(Packets)
              /\ i = 1 /\ Len(network') = Len(network) - 1
              /\ \A j \in DOMAIN network' : network'[j] = network[j+1]
          BY <1>0, <2>3, <4>1, NetworkAfterArrival
        <4> QED
          BY <4>2, LenProperties
      <3> DEFINE o == network[1]
      <3>2. /\ \A j \in 1..Len(network)-1 : j + 1 \in DOMAIN network /\ 1 < j + 1
            /\ \A k \in DOMAIN network : k # 1 => k - 1 \in 1..Len(network)-1 /\ (k - 1) + 1 = k
            /\ 1 \in DOMAIN network
        BY <1>0, <2>1
      <3>3. /\ Seen' \subseteq Seen /\ Seen \subseteq Seen' \cup {o}
        <4>1. \A j \in DOMAIN network' : \E k \in DOMAIN network : network'[j] = network[k]
          BY <3>1, <3>2
        <4>2. \A k \in DOMAIN network : k # 1 => \E j \in DOMAIN network' : network'[j] = network[k]
          BY <3>1, <3>2
        <4> QED
          BY <2>2, <4>1, <4>2 DEF Seen
      <3>4. o \in Seen /\ o.run \in Nat /\ o.data_seq \in Nat
        <4>1. o \in Seen
          BY <3>2 DEF Seen
        <4> QED
          BY <1>a, <4>1
      <3>5. accepted # <<>> /\ expected = Last(accepted).data_seq + 1 /\ o.data_seq < expected
        BY <2>1, <3>1 DEF IsStale, SequenceInv, Expecting
      <3>6. ASSUME o.run = run, NEW q \in Seen', q.run = run
            PROVE  o.data_seq < q.data_seq
        <4>1. CASE \E j \in DOMAIN network' : q = network'[j]
          <5>1. PICK k \in DOMAIN network : 1 < k /\ q = network[k]
            BY <3>1, <3>2, <4>1
          <5>2. Later(o, q)
            BY <2>3, <3>2, <5>1 DEF LineUp
          <5> QED
            BY <1>0, <3>6, <5>2 DEF Later
        <4>2. CASE \E a \in DOMAIN accepted : q = accepted[a]
          <5> PICK a \in DOMAIN accepted : q = accepted[a]
            BY <4>2
          <5>1. /\ Len(accepted) \in DOMAIN accepted /\ a \in 1..Len(accepted)
                /\ Last(accepted) = accepted[Len(accepted)] /\ Len(accepted) \in Nat
            BY <1>0, <3>5, LenProperties, EmptySeq DEF Last
          <5>2. Last(accepted) \in Seen /\ q \in Seen
            BY <5>1 DEF Seen
          <5>3. /\ Last(accepted).run \in Nat /\ Last(accepted).data_seq \in Nat
                /\ Last(accepted).run <= run
            BY <1>a, <5>2 DEF WasSent
          <5>4. Last(accepted) = q \/ Later(q, Last(accepted))
            BY <2>3, <5>1 DEF LineUp
          <5>5. Last(accepted).run = run
            BY <1>0, <3>6, <5>3, <5>4 DEF Later
          <5>6. Later(Last(accepted), o)
            BY <2>3, <3>2, <5>1 DEF LineUp
          <5> QED
            BY <1>0, <3>4, <3>5, <3>6, <5>3, <5>5, <5>6 DEF Later
        <4> QED
          BY <2>2, <3>6, <4>1, <4>2 DEF Seen
      <3> HIDE DEF o
      <3> QED
        BY <3>3, <3>6
    <2> QED
      BY <1>b, <2>2, <2>3
  <1>6. CASE Accept
    <2>1. PICK i \in DOMAIN network :
            /\ Arrives(i) /\ network[i] \in Packets
            /\ accepted' = Append(accepted, network[i])
            /\ UNCHANGED <<run, next_data_seq, gone, reordering>>
      BY <1>6, AcceptedPacket DEF senderVars
    <2>2. ASSUME ~reordering PROVE Seen' = Seen
      <3>1. /\ i = 1 /\ DOMAIN network' = 1..Len(network)-1
            /\ \A j \in DOMAIN network' : network'[j] = network[j+1]
        <4>1. i \in Nat /\ Arrives(i)
          BY <1>0, <2>1
        <4>2. /\ network' \in Seq(Packets)
              /\ i = 1 /\ Len(network') = Len(network) - 1
              /\ \A j \in DOMAIN network' : network'[j] = network[j+1]
          BY <1>0, <2>2, <4>1, NetworkAfterArrival
        <4> QED
          BY <4>2, LenProperties
      <3>2. /\ \A j \in 1..Len(network)-1 : j + 1 \in DOMAIN network
            /\ \A k \in DOMAIN network : k # 1 => k - 1 \in 1..Len(network)-1 /\ (k - 1) + 1 = k
            /\ 1 \in DOMAIN network
        BY <1>0, <2>1
      <3>3. /\ \A j \in DOMAIN network' : \E k \in DOMAIN network : network'[j] = network[k]
            /\ \A k \in DOMAIN network : k # 1 => \E j \in DOMAIN network' : network'[j] = network[k]
        BY <3>1, <3>2
      <3>4. /\ \A a \in DOMAIN accepted : a \in DOMAIN accepted' /\ accepted'[a] = accepted[a]
            /\ \E a \in DOMAIN accepted' : accepted'[a] = network[1]
            /\ \A a \in DOMAIN accepted' :
                 accepted'[a] = network[1] \/ (a \in DOMAIN accepted /\ accepted'[a] = accepted[a])
        BY <1>0, <2>1, <3>1, AppendProperties, LenProperties
      <3> QED
        BY <3>2, <3>3, <3>4 DEF Seen
    <2> QED
      BY <1>b, <2>1, <2>2
  <1>7. CASE RestartReceiver
    <2>1. UNCHANGED <<run, next_data_seq, gone, reordering, network>> /\ accepted' = <<>>
      BY <1>7 DEF RestartReceiver, senderVars
    <2>2. ASSUME ~reordering, NEW p \in Seen, NEW q \in Seen', p.run = run, q.run = run
          PROVE  p \in Seen' \/ p.data_seq < q.data_seq
      <3>1. PICK j \in DOMAIN network : q = network[j]
        BY <2>1, <2>2 DEF Seen
      <3>2. CASE \E k \in DOMAIN network : p = network[k]
        BY <2>1, <3>2 DEF Seen
      <3>3. CASE \E a \in DOMAIN accepted : p = accepted[a]
        <4>1. Later(p, q)
          BY <2>2, <3>1, <3>3 DEF LineUp
        <4> QED
          BY <1>0, <2>2, <4>1 DEF Later
      <3> QED
        BY <2>2, <3>2, <3>3 DEF Seen
    <2>3. Seen' \subseteq Seen
      BY <2>1 DEF Seen
    <2> QED
      BY <1>b, <2>1, <2>2, <2>3
  <1>8. CASE UNCHANGED vars
    BY <1>8 DEF vars, senderVars, receiverVars, Covered, Seen, SeenNumber
  <1> QED
    BY <1>1, <1>2, <1>3, <1>4, <1>5, <1>6, <1>7, <1>8 DEF Next

\* The numbers gone since the first accepted packet are those not accepted.
LEMMA GoneIsSkipped ==
  ASSUME TypeOK, SeenInv, LineUp, Covered,
         ~reordering, accepted # <<>>, OneRun, accepted[1].run = run
  PROVE  gone \cap (accepted[1].data_seq)..(Last(accepted).data_seq)
           = ((accepted[1].data_seq)..(Last(accepted).data_seq))
               \ {accepted[a].data_seq : a \in DOMAIN accepted}
  <1> DEFINE f == accepted[1].data_seq
             l == Last(accepted).data_seq
  <1>1. /\ accepted \in Seq(Packets) /\ Len(accepted) \in Nat
        /\ DOMAIN accepted = 1..Len(accepted) /\ Len(accepted) # 0
    BY LenProperties, EmptySeq DEF TypeOK
  <1>2. /\ 1 \in DOMAIN accepted /\ Len(accepted) \in DOMAIN accepted
        /\ Last(accepted) = accepted[Len(accepted)]
    BY <1>1 DEF Last
  <1>3. \A a \in DOMAIN accepted : accepted[a] \in Seen /\ accepted[a].run = run
    BY <1>2 DEF OneRun, Seen
  <1>4. \A q \in Seen : WasSent(q) /\ q.run \in Nat /\ q.data_seq \in Nat
    BY PacketType DEF SeenInv, WasSent
  <1>5. f \in Nat /\ l \in Nat /\ l < next_data_seq /\ next_data_seq \in Nat
    BY <1>2, <1>3, <1>4 DEF WasSent, TypeOK
  <1>6. \A a \in DOMAIN accepted : accepted[a].data_seq \notin gone
    BY <1>3 DEF Covered
  <1>7. ASSUME NEW s \in f..l, s \notin {accepted[a].data_seq : a \in DOMAIN accepted}
        PROVE  s \in gone
    <2>1. s \in f..next_data_seq-1
      BY <1>5
    <2>2. s \in gone \/ SeenNumber(s)
      BY <1>2, <1>3, <2>1 DEF Covered
    <2>3. ASSUME SeenNumber(s) PROVE FALSE
      <3> PICK q \in Seen : q.run = run /\ q.data_seq = s
        BY <2>3 DEF SeenNumber
      <3>1. PICK i \in DOMAIN network : q = network[i]
        BY <1>7 DEF Seen
      <3>2. Later(Last(accepted), q)
        BY <1>2, <3>1 DEF LineUp
      <3>3. Last(accepted).run = run /\ run \in Nat
        BY <1>2, <1>3, <1>4
      <3> QED
        BY <1>5, <3>2, <3>3 DEF Later
    <2> QED
      BY <2>2, <2>3
  <1> HIDE DEF f, l
  <1>8. gone \cap (f..l) = (f..l) \ {accepted[a].data_seq : a \in DOMAIN accepted}
    BY <1>6, <1>7
  <1> QED
    BY <1>8 DEF f, l

\* Each accepted packet of one run has a number of its own.
LEMMA AcceptedNumbers ==
  ASSUME TypeOK, SeenInv, LineUp, ~reordering, accepted # <<>>, OneRun
  PROVE  LET A == {accepted[a].data_seq : a \in DOMAIN accepted} IN
           /\ Cardinality(A) = Len(accepted)
           /\ A \subseteq (accepted[1].data_seq)..(Last(accepted).data_seq)
  <1> DEFINE A == {accepted[a].data_seq : a \in DOMAIN accepted}
             n == Len(accepted)
             g == [a \in 1..n |-> accepted[a].data_seq]
  <1>1. /\ accepted \in Seq(Packets) /\ n \in Nat /\ DOMAIN accepted = 1..n /\ n # 0
    BY LenProperties, EmptySeq DEF TypeOK
  <1>2. 1 \in 1..n /\ n \in 1..n /\ Last(accepted) = accepted[n]
    BY <1>1 DEF Last
  <1>3. \A a \in 1..n : accepted[a].run \in Nat /\ accepted[a].data_seq \in Nat
    BY <1>1, PacketType
  <1>4. \A a, b \in 1..n : a < b => accepted[a].data_seq < accepted[b].data_seq
    BY <1>1, <1>3 DEF LineUp, Later, OneRun
  <1>5. \A a, b \in 1..n : a # b => g[a] # g[b]
    <2> TAKE a \in 1..n, b \in 1..n
    <2>1. a < b \/ b < a \/ a = b
      BY <1>1
    <2> QED
      BY <1>3, <1>4, <2>1
  <1>6. g \in Surjection(1..n, A)
    BY <1>1 DEF Surjection
  <1>7. g \in Injection(1..n, A)
    BY <1>5, <1>6 DEF Surjection, Injection, IsInjective
  <1>8. IsFiniteSet(1..n) /\ Cardinality(1..n) = n
    BY <1>1, FS_Interval
  <1>9. Cardinality(A) = n
    <2> HIDE DEF A, g
    <2> QED
      BY <1>6, <1>7, <1>8, FS_Surjection
  <1>10. ASSUME NEW a \in 1..n
         PROVE  accepted[a].data_seq \in (accepted[1].data_seq)..(accepted[n].data_seq)
    <2>1. (a = 1 \/ 1 < a) /\ (a = n \/ a < n)
      <3> HIDE DEF n
      <3> QED
        BY <1>1
    <2> QED
      BY <1>2, <1>3, <1>4, <2>1
  <1>11. A \subseteq (accepted[1].data_seq)..(accepted[n].data_seq)
    BY <1>1, <1>10
  <1> QED
    BY <1>2, <1>9, <1>11

\* The packets not sent or lost are those counted missing.
LEMMA MissingStep ==
  TypeOK /\ SeenInv /\ SequenceInv /\ LineUp /\ Covered => MissingIsUnsentOrLost
  <1> SUFFICES ASSUME TypeOK, SeenInv, SequenceInv, LineUp, Covered,
                      ~reordering, accepted # <<>>, OneRun, accepted[1].run = run
               PROVE  counters.data_packets_missing =
                        Cardinality(gone \cap (accepted[1].data_seq)..(Last(accepted).data_seq))
    BY DEF MissingIsUnsentOrLost
  <1> DEFINE f == accepted[1].data_seq
             l == Last(accepted).data_seq
             A == {accepted[a].data_seq : a \in DOMAIN accepted}
             m == counters.data_packets_missing
             n == Len(accepted)
  <1>1. gone \cap (f..l) = (f..l) \ A
    BY GoneIsSkipped
  <1>2. Cardinality(A) = n /\ A \subseteq f..l
    BY AcceptedNumbers
  <1>3. m + n = l - f + 1
    BY DEF SequenceInv, OneSequence
  <1>4. m \in Nat
    BY DEF TypeOK, Counters
  <1>5. n \in Nat /\ n # 0 /\ f \in Nat /\ l \in Nat
    <2>1. accepted \in Seq(Packets)
      BY DEF TypeOK
    <2>2. /\ Len(accepted) \in Nat /\ Len(accepted) # 0
          /\ accepted[1] \in Packets /\ accepted[Len(accepted)] \in Packets
      BY <2>1, LenProperties, EmptySeq
    <2> QED
      BY <2>2, PacketType DEF Last
  <1> HIDE DEF f, l, A, m, n
  <1>6. IsFiniteSet(f..l) /\ Cardinality(f..l) = l - f + 1
    BY <1>3, <1>4, <1>5, FS_Interval
  <1>7. Cardinality((f..l) \ A) = Cardinality(f..l) - Cardinality((f..l) \cap A)
    BY <1>6, FS_Difference
  <1>8. (f..l) \cap A = A
    BY <1>2
  <1>9. Cardinality((f..l) \ A) = m
    <2>1. Cardinality((f..l) \ A) = (l - f + 1) - n
      BY <1>2, <1>6, <1>7, <1>8
    <2> QED
      BY <1>3, <1>4, <1>5, <2>1
  <1> QED
    BY <1>1, <1>9 DEF f, l, m

\* MissingIsUnsentOrLost: on a network that keeps the order, what a receiver counts
\* missing of a run is what the sender could not send or the network lost.
THEOREM MissingPackets == Spec => []MissingIsUnsentOrLost
  <1>1. Init => Covered
    BY CoveredInit
  <1>2. IInv /\ Covered /\ [Next]_vars => Covered'
    BY CoveredNext DEF IInv
  <1>3. IInv /\ Covered => MissingIsUnsentOrLost
    BY MissingStep DEF IInv
  <1> QED
    BY <1>1, <1>2, <1>3, Invariant, PTL DEF Spec
=============================================================================
