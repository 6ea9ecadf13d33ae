---------------------------- MODULE SenderProofs ----------------------------
(***************************************************************************)
(* Proofs about Sender, for every ring size, table of frame sizes, payload *)
(* capacity, pool and TX ring.                                             *)
(***************************************************************************)
EXTENDS Sender, FiniteSetTheorems, TLAPS

\* Which of the two frame holders of run_sender is in use, by pc.
HandInv ==
  /\ pc \in {"attach", "top", "read", "done"} => packet = <<>>
  /\ pc \in {"alloc", "failed"} => Len(packet) = 1
  /\ pc \in {"batch", "next", "send"} => Len(packet) >= 1
  /\ pc \notin {"top", "send"} => carry_frame = <<>>
  /\ carry_frame = <<>> \/ Len(carry_frame) = 1

\* Nothing was read before the reader is attached.
FreshStart ==
  pc = "attach" => /\ read_index = 0 /\ start = 0
                   /\ counters.frames_read = 0 /\ counters.lapped_frames_skipped = 0
-----------------------------------------------------------------------------
(* Types *)

\* The counters, one by one.
LEMMA CounterTypes ==
  ASSUME TypeOK
  PROVE  /\ counters.frames_read \in Nat
         /\ counters.invalid_frames \in Nat
         /\ counters.lapped_frames_skipped \in Nat
         /\ counters.source_frames_missing \in Nat
         /\ counters.offered \in Nat
         /\ counters.mbuf_alloc_failures \in Nat
         /\ counters.packetized \in Nat
         /\ counters.unsent \in Nat
  BY DEF TypeOK, Zero

\* Counters stay natural numbers.
LEMMA BumpType ==
  ASSUME TypeOK, NEW c \in DOMAIN Zero, NEW n \in Nat
  PROVE  /\ Bump(c, n) \in [DOMAIN Zero -> Nat]
         /\ Bump(c, n)[c] = counters[c] + n
         /\ \A d \in DOMAIN Zero : d # c => Bump(c, n)[d] = counters[d]
  BY DEF TypeOK, Bump

\* What the three counters of packets do.
LEMMA AllocBump ==
  ASSUME TypeOK, counters' = Bump("mbuf_alloc_failures", 1)
  PROVE  /\ counters'.mbuf_alloc_failures = counters.mbuf_alloc_failures + 1
         /\ counters'.frames_read = counters.frames_read
         /\ counters'.invalid_frames = counters.invalid_frames
         /\ counters'.lapped_frames_skipped = counters.lapped_frames_skipped
         /\ counters'.source_frames_missing = counters.source_frames_missing
         /\ counters'.offered = counters.offered
         /\ counters'.packetized = counters.packetized
         /\ counters'.unsent = counters.unsent
  BY DEF TypeOK, Bump, Zero

\* TxEnqueued changes one counter only.
LEMMA PacketizedBump ==
  ASSUME TypeOK, counters' = Bump("packetized", Len(packet))
  PROVE  /\ counters'.packetized = counters.packetized + Len(packet)
         /\ counters'.frames_read = counters.frames_read
         /\ counters'.invalid_frames = counters.invalid_frames
         /\ counters'.lapped_frames_skipped = counters.lapped_frames_skipped
         /\ counters'.source_frames_missing = counters.source_frames_missing
         /\ counters'.offered = counters.offered
         /\ counters'.mbuf_alloc_failures = counters.mbuf_alloc_failures
         /\ counters'.unsent = counters.unsent
  BY DEF TypeOK, Bump, Zero

\* TxUnsent changes two counters.
LEMMA UnsentBump ==
  ASSUME TypeOK, TxUnsent
  PROVE  /\ counters'.packetized = counters.packetized + Len(packet)
         /\ counters'.unsent = counters.unsent + 1
         /\ counters'.frames_read = counters.frames_read
         /\ counters'.invalid_frames = counters.invalid_frames
         /\ counters'.lapped_frames_skipped = counters.lapped_frames_skipped
         /\ counters'.source_frames_missing = counters.source_frames_missing
         /\ counters'.offered = counters.offered
         /\ counters'.mbuf_alloc_failures = counters.mbuf_alloc_failures
  BY DEF TypeOK, TxUnsent, Zero

\* Several counters at once.
LEMMA TwoBumps ==
  ASSUME NEW D, NEW f \in [D -> Nat], NEW a \in D, NEW b \in D,
         NEW m \in Nat, NEW n \in Nat
  PROVE  [f EXCEPT ![a] = @ + m, ![b] = @ + n] \in [D -> Nat]
  <1> DEFINE g == [f EXCEPT ![a] = @ + m]
  <1>1. g \in [D -> Nat]
    OBVIOUS
  <1> HIDE DEF g
  <1>2. [g EXCEPT ![b] = @ + n] \in [D -> Nat]
    BY <1>1
  <1> QED
    BY <1>2 DEF g

\* A frame has a length.
LEMMA SizeType == ASSUME NEW n \in Nat PROVE Size(n) \in Nat
  <1>1. (n + 1) % 3 \in 0..2
    OBVIOUS
  <1> QED
    BY <1>1, SenderAssumption DEF Size

\* Frame numbers a read may return.
LEMMA HoldersType ==
  ASSUME TypeOK, NEW n \in Holders(published, read_index)
  PROVE  n \in Nat
  BY DEF TypeOK, Holders

\* A validated view is a view of the frame at read_index.
LEMMA ViewType ==
  ASSUME TypeOK, NEW frame \in ValidViews
  PROVE  /\ frame \in Views
         /\ frame.index = read_index
         /\ frame.seq_id = read_index + 1 \/ frame.seq_id = read_index + Slots + 1
  <1>1. PICK n \in Holders(published, read_index), id \in Holders(published, read_index) :
          frame = [index |-> read_index, size |-> Size(n), seq_id |-> id + 1]
    BY DEF ValidViews
  <1>2. n \in Nat /\ id \in Nat /\ Size(n) \in Nat
    BY HoldersType, SizeType
  <1>3. id = read_index \/ id = read_index + Slots
    BY DEF Holders
  <1> QED
    BY <1>1, <1>2, <1>3, SlotsAssumption DEF Views, TypeOK

\* Where a lapped reader goes on.
LEMMA ResumeType ==
  ASSUME TypeOK, IsLapped(published, read_index), NEW i \in ResumePoints(published)
  PROVE  i \in Nat /\ i - read_index \in Nat
  BY SlotsAssumption DEF TypeOK, IsLapped, ResumePoints

\* A frame adds a natural number to the missing ones.
LEMMA MissingType ==
  ASSUME TypeOK, NEW frame \in Views
  PROVE  NewlyMissing(frame) \in Nat /\ NextPrevValid(frame) \in Nat
  BY DEF TypeOK, Views, NewlyMissing, NextPrevValid

\* What try_read() leaves of the types.
LEMMA ReadOkType ==
  ASSUME TypeOK, NEW frame \in ValidViews, TryReadOk(frame)
  PROVE  /\ read_index' \in Nat /\ prev_valid' \in Nat
         /\ buffer' \in SUBSET Nat /\ taken' \in SUBSET Nat /\ torn' \in BOOLEAN
         /\ counters' \in [DOMAIN Zero -> Nat]
         /\ frame \in Views
         /\ counters'.frames_read = counters.frames_read + 1
         /\ counters'.offered = counters.offered + 1
         /\ counters'.invalid_frames = counters.invalid_frames
         /\ counters'.lapped_frames_skipped = counters.lapped_frames_skipped
         /\ counters'.mbuf_alloc_failures = counters.mbuf_alloc_failures
         /\ counters'.packetized = counters.packetized
         /\ counters'.unsent = counters.unsent
         /\ counters'.source_frames_missing
              = counters.source_frames_missing + NewlyMissing(frame)
  <1>1. frame \in Views
    BY ViewType
  <1>2. NewlyMissing(frame) \in Nat /\ NextPrevValid(frame) \in Nat
    BY <1>1, MissingType
  <1>3. torn' \in BOOLEAN
    BY DEF TryReadOk
  <1>4. /\ read_index' \in Nat /\ prev_valid' \in Nat
        /\ buffer' \in SUBSET Nat /\ taken' \in SUBSET Nat
    BY <1>2 DEF TryReadOk, TypeOK
  <1>5. /\ counters' = [counters EXCEPT !.frames_read = @ + 1, !.offered = @ + 1,
                          !.source_frames_missing = @ + NewlyMissing(frame)]
        /\ counters \in [DOMAIN Zero -> Nat]
    BY DEF TryReadOk, TypeOK
  <1>6. counters' \in [DOMAIN Zero -> Nat]
    <2> DEFINE c == [counters EXCEPT !.frames_read = @ + 1, !.offered = @ + 1]
    <2>1. /\ "frames_read" \in DOMAIN Zero /\ "offered" \in DOMAIN Zero
          /\ "source_frames_missing" \in DOMAIN Zero
      BY DEF Zero
    <2>2. c \in [DOMAIN Zero -> Nat]
      BY <1>5, <2>1, TwoBumps
    <2>3. counters' = [c EXCEPT !.source_frames_missing = @ + NewlyMissing(frame)]
      BY <1>5
    <2> HIDE DEF c
    <2> QED
      BY <1>2, <2>1, <2>2, <2>3
  <1>7. /\ counters'.frames_read = counters.frames_read + 1
        /\ counters'.offered = counters.offered + 1
        /\ counters'.source_frames_missing
             = counters.source_frames_missing + NewlyMissing(frame)
    BY <1>5 DEF Zero
  <1>8. /\ counters'.invalid_frames = counters.invalid_frames
        /\ counters'.lapped_frames_skipped = counters.lapped_frames_skipped
        /\ counters'.mbuf_alloc_failures = counters.mbuf_alloc_failures
        /\ counters'.packetized = counters.packetized
        /\ counters'.unsent = counters.unsent
    BY <1>5 DEF Zero
  <1> QED
    BY <1>1, <1>3, <1>4, <1>6, <1>7, <1>8

\* The outcomes of try_read() without a frame.
LEMMA ReadNoneType ==
  ASSUME TypeOK, TryReadEmpty \/ TryReadLapped \/ TryReadInvalid
  PROVE  /\ read_index' \in Nat /\ prev_valid' = prev_valid /\ taken' = taken
         /\ buffer' \in SUBSET Nat /\ torn' \in BOOLEAN
         /\ counters' \in [DOMAIN Zero -> Nat]
         /\ read_index' - read_index =
              counters'.frames_read - counters.frames_read
              + counters'.lapped_frames_skipped - counters.lapped_frames_skipped
         /\ read_index <= read_index'
         /\ counters'.frames_read - counters'.invalid_frames
              = counters.frames_read - counters.invalid_frames
         /\ counters'.source_frames_missing = counters.source_frames_missing
         /\ counters'.offered = counters.offered
         /\ counters'.mbuf_alloc_failures = counters.mbuf_alloc_failures
         /\ counters'.packetized = counters.packetized
         /\ counters'.unsent = counters.unsent
         /\ torn => torn'
  <1>1. CASE TryReadEmpty
    <2>1. UNCHANGED <<read_index, prev_valid, buffer, taken, torn, counters>>
      BY <1>1 DEF TryReadEmpty, readerVars
    <2>2. read_index \in Nat /\ buffer \in SUBSET Nat /\ torn \in BOOLEAN
      BY DEF TypeOK
    <2>3. counters \in [DOMAIN Zero -> Nat]
      BY DEF TypeOK
    <2> QED
      BY <2>1, <2>2, <2>3, CounterTypes
  <1>2. CASE TryReadLapped
    <2>1. PICK i \in ResumePoints(published) :
            read_index' = i /\ counters' = Bump("lapped_frames_skipped", i - read_index)
      BY <1>2 DEF TryReadLapped
    <2>2. i \in Nat /\ i - read_index \in Nat
      BY <1>2, ResumeType DEF TryReadLapped
    <2>3. /\ counters' \in [DOMAIN Zero -> Nat]
          /\ counters'.lapped_frames_skipped = counters.lapped_frames_skipped + (i - read_index)
          /\ \A c \in DOMAIN Zero : c # "lapped_frames_skipped" => counters'[c] = counters[c]
      <3>1. "lapped_frames_skipped" \in DOMAIN Zero
        BY DEF Zero
      <3> QED
        BY <2>1, <2>2, <3>1, BumpType
    <2>4. buffer' \in SUBSET Nat /\ prev_valid' = prev_valid /\ taken' = taken /\ torn' = torn
      BY <1>2 DEF TryReadLapped, TypeOK
    <2>5. \A c \in {"frames_read", "invalid_frames", "lapped_frames_skipped"} :
            c \in DOMAIN Zero /\ counters[c] \in Nat /\ counters'[c] \in Nat
      BY <2>3 DEF Zero, TypeOK
    <2>6. counters'.frames_read = counters.frames_read
          /\ counters'.invalid_frames = counters.invalid_frames
      BY <2>3 DEF Zero
    <2>7. read_index \in Nat /\ read_index' = i
      BY <2>1 DEF TypeOK
    <2>8. /\ counters'.source_frames_missing = counters.source_frames_missing
          /\ counters'.offered = counters.offered
          /\ counters'.mbuf_alloc_failures = counters.mbuf_alloc_failures
          /\ counters'.packetized = counters.packetized
          /\ counters'.unsent = counters.unsent
      BY <2>3 DEF Zero
    <2>9. read_index' - read_index =
            counters'.frames_read - counters.frames_read
            + counters'.lapped_frames_skipped - counters.lapped_frames_skipped
      BY <2>2, <2>3, <2>5, <2>6, <2>7
    <2>10. /\ counters.frames_read \in Nat /\ counters.invalid_frames \in Nat
           /\ read_index' \in Nat /\ read_index <= read_index'
      BY <2>2, <2>5, <2>7
    <2>11. counters'.frames_read - counters'.invalid_frames
             = counters.frames_read - counters.invalid_frames
      BY <2>6
    <2>12. counters' \in [DOMAIN Zero -> Nat]
      BY <2>3
    <2>13. torn' \in BOOLEAN /\ (torn => torn')
      BY <2>4 DEF TypeOK
    <2> QED
      BY <2>4, <2>8, <2>9, <2>10, <2>11, <2>12, <2>13
  <1>3. CASE TryReadInvalid
    <2>1. /\ counters' = [counters EXCEPT !.frames_read = @ + 1, !.invalid_frames = @ + 1]
          /\ counters \in [DOMAIN Zero -> Nat]
          /\ read_index \in Nat /\ read_index' = read_index + 1
      BY <1>3 DEF TryReadInvalid, TypeOK
    <2>2. counters' \in [DOMAIN Zero -> Nat]
      <3>1. "frames_read" \in DOMAIN Zero /\ "invalid_frames" \in DOMAIN Zero
        BY DEF Zero
      <3> QED
        BY <2>1, <3>1, TwoBumps
    <2>3. /\ counters'.frames_read = counters.frames_read + 1
          /\ counters'.invalid_frames = counters.invalid_frames + 1
          /\ counters'.lapped_frames_skipped = counters.lapped_frames_skipped
          /\ counters.frames_read \in Nat /\ counters.invalid_frames \in Nat
          /\ counters.lapped_frames_skipped \in Nat
      BY <2>1 DEF Zero
    <2>4. /\ counters'.source_frames_missing = counters.source_frames_missing
          /\ counters'.offered = counters.offered
          /\ counters'.mbuf_alloc_failures = counters.mbuf_alloc_failures
          /\ counters'.packetized = counters.packetized
          /\ counters'.unsent = counters.unsent
      BY <2>1 DEF Zero
    <2>5. buffer' \in SUBSET Nat /\ prev_valid' = prev_valid /\ taken' = taken /\ torn'
      BY <1>3 DEF TryReadInvalid, TypeOK
    <2>6. torn' \in BOOLEAN
      BY <1>3 DEF TryReadInvalid
    <2> QED
      BY <2>1, <2>2, <2>3, <2>4, <2>5, <2>6
  <1> QED
    BY <1>1, <1>2, <1>3

\* The type invariant holds initially.
LEMMA TypeInit == Init => TypeOK
  <1> SUFFICES ASSUME Init PROVE TypeOK
    OBVIOUS
  <1>1. buffer \in SUBSET Nat /\ taken \in SUBSET Nat /\ torn \in BOOLEAN
        /\ stop_requested \in BOOLEAN
    BY DEF Init
  <1>2. counters \in [DOMAIN Zero -> Nat]
    BY DEF Init, Zero
  <1>3. /\ carry_frame \in Seq(Views) /\ packet \in Seq(Views)
        /\ wire \in Seq([data_seq : Nat, frames : Seq(Views)])
    BY DEF Init
  <1> QED
    BY <1>1, <1>2, <1>3, SenderAssumption DEF Init, TypeOK

\* The type invariant is kept by every step.
LEMMA TypeStep == TypeOK /\ [Next]_vars => TypeOK'
  <1> SUFFICES ASSUME TypeOK, [Next]_vars PROVE TypeOK'
    OBVIOUS
  <1> USE DEF TypeOK
  <1>1. CASE Publish
    BY <1>1 DEF Publish, readerVars, mbufVars
  <1>2. CASE Signal
    BY <1>2 DEF Signal, readerVars, mbufVars
  <1>3. CASE TxDone
    BY <1>3 DEF TxDone, readerVars, mbufVars
  <1>4. CASE Attach
    <2>1. read_index' \in Nat /\ start' \in Nat
      BY <1>4 DEF Attach, LiveEdges
    <2> QED
      BY <1>4, <2>1 DEF Attach, mbufVars
  <1>5. CASE Stop
    BY <1>5 DEF Stop, readerVars, mbufVars
  <1>6. CASE TakeCarry
    BY <1>6 DEF TakeCarry, readerVars, mbufVars
  <1>7. CASE GoOn
    BY <1>7 DEF GoOn, readerVars, mbufVars
  <1>8. CASE ReadNothing
    <2>1. TryReadEmpty \/ TryReadLapped \/ TryReadInvalid
      BY <1>8 DEF ReadNothing
    <2> QED
      BY <1>8, <2>1, ReadNoneType DEF ReadNothing, mbufVars
  <1>9. CASE ReadFirst
    <2>1. PICK frame \in ValidViews : TryReadOk(frame) /\ packet' = <<frame>>
      BY <1>9 DEF ReadFirst
    <2> HIDE DEF TypeOK
    <2>2. packet' \in Seq(Views)
      BY <2>1, ViewType
    <2> QED
      BY <1>9, <2>1, <2>2, ReadOkType DEF ReadFirst, mbufVars, TypeOK
  <1>10. CASE AllocFail
    <2>1. counters' \in [DOMAIN Zero -> Nat]
      BY <1>10, BumpType DEF AllocFail, Zero
    <2> QED
      BY <1>10, <2>1 DEF AllocFail, readerVars, mbufVars
  <1>11. CASE ReserveFail
    BY <1>11 DEF ReserveFail, readerVars, mbufVars
  <1>12. CASE BuildFirst
    BY <1>12 DEF BuildFirst, readerVars, mbufVars
  <1>13. CASE BatchStop
    BY <1>13 DEF BatchStop, readerVars, mbufVars
  <1>14. CASE BatchGoOn
    BY <1>14 DEF BatchGoOn, readerVars, mbufVars
  <1>15. CASE NextNothing
    <2>1. TryReadEmpty \/ TryReadLapped \/ TryReadInvalid
      BY <1>15 DEF NextNothing
    <2> QED
      BY <1>15, <2>1, ReadNoneType DEF NextNothing, mbufVars
  <1>16. CASE NextCarried
    <2>1. PICK frame \in ValidViews : TryReadOk(frame) /\ carry_frame' = <<frame>>
      BY <1>16 DEF NextCarried
    <2> HIDE DEF TypeOK
    <2>2. carry_frame' \in Seq(Views)
      BY <2>1, ViewType
    <2> QED
      BY <1>16, <2>1, <2>2, ReadOkType DEF NextCarried, mbufVars, TypeOK
  <1>17. CASE NextAppended
    <2>1. PICK frame \in ValidViews : TryReadOk(frame) /\ packet' = Append(packet, frame)
      BY <1>17 DEF NextAppended
    <2> HIDE DEF TypeOK
    <2>2. packet' \in Seq(Views)
      BY <2>1, ViewType DEF TypeOK
    <2> QED
      BY <1>17, <2>1, <2>2, ReadOkType DEF NextAppended, mbufVars, TypeOK
  <1>18. CASE TxEnqueued
    <2>1. counters' \in [DOMAIN Zero -> Nat]
      BY <1>18, BumpType, SMTT(60) DEF TxEnqueued, Zero
    <2>2. wire' \in Seq([data_seq : Nat, frames : Seq(Views)])
      BY <1>18 DEF TxEnqueued
    <2> QED
      BY <1>18, <2>1, <2>2 DEF TxEnqueued, Finish, readerVars, mbufVars
  <1>19. CASE TxUnsent
    <2>1. counters' \in [DOMAIN Zero -> Nat]
      <3> DEFINE n == Len(packet)
      <3>1. n \in Nat /\ counters \in [DOMAIN Zero -> Nat]
        OBVIOUS
      <3>2. counters' = [counters EXCEPT !["packetized"] = @ + n, !["unsent"] = @ + 1]
        BY <1>19 DEF TxUnsent
      <3> HIDE DEF n, TypeOK
      <3>3. "packetized" \in DOMAIN Zero /\ "unsent" \in DOMAIN Zero
        BY DEF Zero
      <3> QED
        BY <3>1, <3>2, <3>3, TwoBumps
    <2> QED
      BY <1>19, <2>1, SMTT(60) DEF TxUnsent, Finish, readerVars, mbufVars
  <1>20. CASE UNCHANGED vars
    BY <1>20 DEF vars, readerVars, mbufVars
  <1> QED
    BY <1>1, <1>2, <1>3, <1>4, <1>5, <1>6, <1>7, <1>8, <1>9, <1>10, <1>11,
       <1>12, <1>13, <1>14, <1>15, <1>16, <1>17, <1>18, <1>19, <1>20 DEF Next,
       Loop

\* Type correctness, for every value of the constants.
THEOREM TypeCorrect == Spec => []TypeOK
  BY TypeInit, TypeStep, PTL DEF Spec
-----------------------------------------------------------------------------
(* Frames in hand *)

\* HandInv holds initially.
LEMMA HandInit == Init => HandInv
  BY DEF Init, HandInv

\* HandInv is kept by every step.
LEMMA HandStep == TypeOK /\ HandInv /\ [Next]_vars => HandInv'
  <1> SUFFICES ASSUME TypeOK, HandInv, [Next]_vars PROVE HandInv'
    OBVIOUS
  <1> USE DEF TypeOK, HandInv
  <1>1. CASE Publish
    BY <1>1 DEF Publish
  <1>2. CASE Signal
    BY <1>2 DEF Signal
  <1>3. CASE TxDone
    BY <1>3 DEF TxDone
  <1>4. CASE Attach
    BY <1>4 DEF Attach
  <1>5. CASE Stop
    BY <1>5 DEF Stop
  <1>6. CASE TakeCarry
    BY <1>6 DEF TakeCarry
  <1>7. CASE GoOn
    BY <1>7 DEF GoOn
  <1>8. CASE ReadNothing
    BY <1>8 DEF ReadNothing
  <1>9. CASE ReadFirst
    BY <1>9 DEF ReadFirst
  <1>10. CASE AllocFail
    BY <1>10 DEF AllocFail
  <1>11. CASE ReserveFail
    BY <1>11 DEF ReserveFail
  <1>12. CASE BuildFirst
    <2>1. /\ pc = "alloc" /\ pc' \in {"batch", "send"}
          /\ packet' = packet /\ carry_frame' = carry_frame
      BY <1>12 DEF BuildFirst
    <2>2. Len(packet') = 1 /\ carry_frame' = <<>>
      BY <2>1
    <2> QED
      BY <2>1, <2>2
  <1>13. CASE BatchStop
    BY <1>13 DEF BatchStop
  <1>14. CASE BatchGoOn
    BY <1>14 DEF BatchGoOn
  <1>15. CASE NextNothing
    BY <1>15 DEF NextNothing
  <1>16. CASE NextCarried
    BY <1>16 DEF NextCarried
  <1>17. CASE NextAppended
    <2>1. PICK frame \in ValidViews : TryReadOk(frame) /\ packet' = Append(packet, frame)
      BY <1>17 DEF NextAppended
    <2>2. Len(packet') = Len(packet) + 1 /\ Len(packet) \in Nat
      BY <2>1
    <2> QED
      BY <1>17, <2>2 DEF NextAppended
  <1>18. CASE TxEnqueued
    BY <1>18 DEF TxEnqueued, Finish
  <1>19. CASE TxUnsent
    BY <1>19 DEF TxUnsent, Finish
  <1>20. CASE UNCHANGED vars
    BY <1>20 DEF vars, readerVars, mbufVars
  <1> QED
    BY <1>1, <1>2, <1>3, <1>4, <1>5, <1>6, <1>7, <1>8, <1>9, <1>10, <1>11,
       <1>12, <1>13, <1>14, <1>15, <1>16, <1>17, <1>18, <1>19, <1>20 DEF Next,
       Loop

\* A frame is in the packet or carried as run_sender's place in the loop says.
THEOREM Hands == Spec => []HandInv
  BY TypeCorrect, HandInit, HandStep, PTL DEF Spec
-----------------------------------------------------------------------------
(* Mbufs *)

\* MbufsConserved holds initially.
LEMMA MbufInit == Init => MbufsConserved
  <1> SUFFICES ASSUME Init PROVE MbufsConserved
    OBVIOUS
  <1>1. counters.mbuf_alloc_failures = 0
    BY DEF Init, Zero
  <1> QED
    BY <1>1, SenderAssumption DEF Init, MbufsConserved, HoldsMbuf

\* MbufsConserved is kept by every step.
LEMMA MbufStep == TypeOK /\ MbufsConserved /\ [Next]_vars => MbufsConserved'
  <1> SUFFICES ASSUME TypeOK, MbufsConserved, [Next]_vars PROVE MbufsConserved'
    OBVIOUS
  <1> USE DEF TypeOK, MbufsConserved, HoldsMbuf
  <1>1. CASE Publish
    BY <1>1 DEF Publish, readerVars, mbufVars
  <1>2. CASE Signal
    BY <1>2 DEF Signal, readerVars, mbufVars
  <1>3. CASE TxDone
    <2>1. UNCHANGED <<pc, counters>> /\ nic > 0 /\ nic' = nic - 1 /\ free' = free + 1
      BY <1>3 DEF TxDone
    <2>2. free' + nic' = free + nic /\ nic' <= TxDesc
      BY <2>1, SenderAssumption
    <2> QED
      BY <2>1, <2>2
  <1>4. CASE Attach
    BY <1>4 DEF Attach, readerVars, mbufVars
  <1>5. CASE Stop
    BY <1>5 DEF Stop, readerVars, mbufVars
  <1>6. CASE TakeCarry
    BY <1>6 DEF TakeCarry, readerVars, mbufVars
  <1>7. CASE GoOn
    BY <1>7 DEF GoOn, readerVars, mbufVars
  <1>8. CASE ReadNothing
    <2>1. counters'.mbuf_alloc_failures = counters.mbuf_alloc_failures
      BY <1>8, ReadNoneType DEF ReadNothing
    <2> QED
      BY <1>8, <2>1 DEF ReadNothing, mbufVars
  <1>9. CASE ReadFirst
    <2>1. counters'.mbuf_alloc_failures = counters.mbuf_alloc_failures
      BY <1>9, ReadOkType DEF ReadFirst
    <2> QED
      BY <1>9, <2>1 DEF ReadFirst, mbufVars
  <1>10. CASE AllocFail
    <2>1. nic = TxMbufs /\ nic <= TxDesc
      BY <1>10, SenderAssumption DEF AllocFail
    <2> QED
      BY <1>10, <2>1, SenderAssumption DEF AllocFail, mbufVars
  <1>11. CASE ReserveFail
    BY <1>11 DEF ReserveFail, readerVars, mbufVars
  <1>12. CASE BuildFirst
    BY <1>12 DEF BuildFirst, readerVars, mbufVars
  <1>13. CASE BatchStop
    BY <1>13 DEF BatchStop, readerVars, mbufVars
  <1>14. CASE BatchGoOn
    BY <1>14 DEF BatchGoOn, readerVars, mbufVars
  <1>15. CASE NextNothing
    <2>1. counters'.mbuf_alloc_failures = counters.mbuf_alloc_failures
      BY <1>15, ReadNoneType DEF NextNothing
    <2> QED
      BY <1>15, <2>1 DEF NextNothing, mbufVars
  <1>16. CASE NextCarried
    <2>1. counters'.mbuf_alloc_failures = counters.mbuf_alloc_failures
      BY <1>16, ReadOkType DEF NextCarried
    <2> QED
      BY <1>16, <2>1 DEF NextCarried, mbufVars
  <1>17. CASE NextAppended
    <2>1. counters'.mbuf_alloc_failures = counters.mbuf_alloc_failures
      BY <1>17, ReadOkType DEF NextAppended
    <2> QED
      BY <1>17, <2>1 DEF NextAppended, mbufVars
  <1>18. CASE TxEnqueued
    <2>1. counters'.mbuf_alloc_failures = counters.mbuf_alloc_failures
      BY <1>18, PacketizedBump DEF TxEnqueued
    <2>2. pc = "send" /\ pc' = "top" /\ nic < TxDesc /\ nic' = nic + 1 /\ free' = free
      BY <1>18 DEF TxEnqueued, Finish
    <2> QED
      BY <2>1, <2>2, SenderAssumption
  <1>19. CASE TxUnsent
    <2>1. counters'.mbuf_alloc_failures = counters.mbuf_alloc_failures
      BY <1>19, UnsentBump
    <2> QED
      BY <1>19, <2>1 DEF TxUnsent, Finish
  <1>20. CASE UNCHANGED vars
    BY <1>20 DEF vars, readerVars, mbufVars
  <1> QED
    BY <1>1, <1>2, <1>3, <1>4, <1>5, <1>6, <1>7, <1>8, <1>9, <1>10, <1>11,
       <1>12, <1>13, <1>14, <1>15, <1>16, <1>17, <1>18, <1>19, <1>20 DEF Next,
       Loop

\* No mbuf is lost or freed twice, and a pool larger than the TX ring never runs
\* dry (run_sender, dpdk_tx_port.cpp).
THEOREM Mbufs == Spec => []MbufsConserved
  BY TypeCorrect, MbufInit, MbufStep, PTL DEF Spec
-----------------------------------------------------------------------------
(* Accounting *)

AccountInv == FreshStart /\ EveryFrameAccounted

\* AccountInv holds initially.
LEMMA AccountInit == Init => AccountInv
  BY DEF Init, AccountInv, FreshStart, EveryFrameAccounted, Zero

\* Sequences of views have a length.
LEMMA LenType == ASSUME NEW s \in Seq(Views) PROVE Len(s) \in Nat
  OBVIOUS

\* AccountInv is kept by every step.
LEMMA AccountStep == TypeOK /\ HandInv /\ AccountInv /\ [Next]_vars => AccountInv'
  <1> SUFFICES ASSUME TypeOK, HandInv, AccountInv, [Next]_vars PROVE AccountInv'
    OBVIOUS
  <1>a. read_index = start + counters.frames_read + counters.lapped_frames_skipped
    BY DEF AccountInv, EveryFrameAccounted
  <1>b. counters.frames_read = counters.invalid_frames + counters.offered
    BY DEF AccountInv, EveryFrameAccounted
  <1>c. counters.offered = counters.packetized + counters.mbuf_alloc_failures
                           + Len(packet) + Len(carry_frame)
    BY DEF AccountInv, EveryFrameAccounted
  <1>d. /\ Len(packet) \in Nat /\ Len(carry_frame) \in Nat
        /\ Len(packet') \in Nat /\ Len(carry_frame') \in Nat
    <2>1. TypeOK'
      BY TypeStep
    <2>2. /\ packet \in Seq(Views) /\ carry_frame \in Seq(Views)
          /\ packet' \in Seq(Views) /\ carry_frame' \in Seq(Views)
      BY <2>1 DEF TypeOK
    <2> QED
      BY <2>2, LenType
  <1>e. read_index \in Nat /\ start \in Nat
    BY DEF TypeOK
  <1>f. /\ counters.offered \in Nat /\ counters.packetized \in Nat
        /\ counters.mbuf_alloc_failures \in Nat
    BY CounterTypes
  <1>g. counters.frames_read \in Nat /\ counters.lapped_frames_skipped \in Nat
    BY CounterTypes
  <1>1. CASE Publish
    BY <1>1 DEF Publish, readerVars, AccountInv, FreshStart, EveryFrameAccounted
  <1>2. CASE Signal
    BY <1>2 DEF Signal, readerVars, AccountInv, FreshStart, EveryFrameAccounted
  <1>3. CASE TxDone
    BY <1>3 DEF TxDone, readerVars, AccountInv, FreshStart, EveryFrameAccounted
  <1>4. CASE Attach
    <2>1. /\ pc' # "attach" /\ read_index' \in Nat /\ start' = read_index'
          /\ counters' = counters /\ packet' = packet /\ carry_frame' = carry_frame
      BY <1>4 DEF Attach, LiveEdges
    <2>2. counters'.frames_read = 0 /\ counters'.lapped_frames_skipped = 0
      BY <1>4 DEF Attach, AccountInv, FreshStart
    <2>a. read_index' = start' + counters'.frames_read + counters'.lapped_frames_skipped
      <3>1. \A n \in Nat : n + 0 + 0 = n
        OBVIOUS
      <3>2. start' + 0 + 0 = read_index'
        BY <2>1, <3>1
      <3> QED
        BY <2>2, <3>2
    <2>b. counters'.frames_read = counters'.invalid_frames + counters'.offered
      BY <2>1, <1>b, CounterTypes
    <2>c. counters'.offered = counters'.packetized + counters'.mbuf_alloc_failures
                              + Len(packet') + Len(carry_frame')
      BY <2>1, <1>c, <1>d, <1>f
    <2> QED
      BY <2>1, <2>a, <2>b, <2>c DEF AccountInv, FreshStart, EveryFrameAccounted
  <1>5. CASE Stop
    BY <1>5 DEF Stop, readerVars, AccountInv, FreshStart, EveryFrameAccounted
  <1>6. CASE TakeCarry
    <2>1. pc' # "attach" /\ start' = start /\ read_index' = read_index /\ counters' = counters
      BY <1>6 DEF TakeCarry, readerVars
    <2>2. Len(packet') + Len(carry_frame') = Len(packet) + Len(carry_frame)
      BY <1>6 DEF TakeCarry, HandInv
    <2>a. read_index' = start' + counters'.frames_read + counters'.lapped_frames_skipped
      BY <2>1, <1>a, <1>e, <1>g
    <2>b. counters'.frames_read = counters'.invalid_frames + counters'.offered
      BY <2>1, <1>b, CounterTypes
    <2>c. counters'.offered = counters'.packetized + counters'.mbuf_alloc_failures
                              + Len(packet') + Len(carry_frame')
      BY <2>1, <2>2, <1>c, <1>d, <1>f
    <2> QED
      BY <2>1, <2>a, <2>b, <2>c DEF AccountInv, FreshStart, EveryFrameAccounted
  <1>7. CASE GoOn
    BY <1>7 DEF GoOn, readerVars, AccountInv, FreshStart, EveryFrameAccounted
  <1>8. CASE ReadNothing
    <2>1. pc' # "attach" /\ start' = start /\ packet' = packet /\ carry_frame' = carry_frame
      BY <1>8 DEF ReadNothing
    <2>2. TryReadEmpty \/ TryReadLapped \/ TryReadInvalid
      BY <1>8 DEF ReadNothing
    <2>3. /\ counters'.offered = counters.offered
          /\ counters'.packetized = counters.packetized
          /\ counters'.mbuf_alloc_failures = counters.mbuf_alloc_failures
      BY <2>2, ReadNoneType
    <2>4. /\ read_index' - read_index =
               counters'.frames_read - counters.frames_read
               + counters'.lapped_frames_skipped - counters.lapped_frames_skipped
          /\ read_index' \in Nat
      BY <2>2, ReadNoneType
    <2>5. counters'.frames_read - counters'.invalid_frames
            = counters.frames_read - counters.invalid_frames
      BY <2>2, ReadNoneType
    <2>6. /\ counters'.frames_read \in Nat /\ counters'.invalid_frames \in Nat
          /\ counters'.lapped_frames_skipped \in Nat
      BY <2>2, ReadNoneType DEF Zero
    <2>a. read_index' = start' + counters'.frames_read + counters'.lapped_frames_skipped
      BY <2>1, <2>4, <2>6, <1>a, <1>e, <1>g
    <2>b. counters'.frames_read = counters'.invalid_frames + counters'.offered
      BY <2>3, <2>5, <2>6, <1>b, CounterTypes
    <2>c. counters'.offered = counters'.packetized + counters'.mbuf_alloc_failures
                              + Len(packet') + Len(carry_frame')
      BY <2>1, <2>3, <1>c, <1>d, <1>f
    <2> QED
      BY <2>1, <2>a, <2>b, <2>c DEF AccountInv, FreshStart, EveryFrameAccounted
  <1>9. CASE ReadFirst
    <2>1. PICK frame \in ValidViews : TryReadOk(frame) /\ packet' = <<frame>> /\ pc' # "attach"
      BY <1>9 DEF ReadFirst
    <2>2. read_index' = read_index + 1 /\ start' = start
      BY <1>9, <2>1 DEF ReadFirst, TryReadOk
    <2>3. /\ counters'.frames_read = counters.frames_read + 1
          /\ counters'.offered = counters.offered + 1
          /\ counters'.invalid_frames = counters.invalid_frames
          /\ counters'.lapped_frames_skipped = counters.lapped_frames_skipped
          /\ counters'.packetized = counters.packetized
          /\ counters'.mbuf_alloc_failures = counters.mbuf_alloc_failures
      BY <2>1, ReadOkType
    <2>4. Len(packet') + Len(carry_frame') = Len(packet) + Len(carry_frame) + 1
      BY <1>9, <2>1, <1>d DEF ReadFirst, HandInv, TypeOK
    <2>5. Len(packet') \in Nat /\ Len(carry_frame') \in Nat
      BY <1>d
    <2>a. read_index' = start' + counters'.frames_read + counters'.lapped_frames_skipped
      BY <2>2, <2>3, <1>a, <1>e, <1>g
    <2>b. counters'.frames_read = counters'.invalid_frames + counters'.offered
      BY <2>3, <1>b, CounterTypes
    <2>c. counters'.offered = counters'.packetized + counters'.mbuf_alloc_failures
                              + Len(packet') + Len(carry_frame')
      BY <2>3, <2>4, <2>5, <1>c, <1>d, <1>f, SMTT(30)
    <2> QED
      BY <2>1, <2>a, <2>b, <2>c DEF AccountInv, FreshStart, EveryFrameAccounted
  <1>10. CASE AllocFail
    <2>1. pc' # "attach" /\ UNCHANGED <<carry_frame, start, read_index>>
      BY <1>10 DEF AllocFail, readerVars
    <2>2. Len(packet) = 1 /\ Len(packet') = 0
      BY <1>10 DEF AllocFail, HandInv
    <2>3. /\ counters'.mbuf_alloc_failures = counters.mbuf_alloc_failures + 1
          /\ counters'.frames_read = counters.frames_read
          /\ counters'.offered = counters.offered
          /\ counters'.invalid_frames = counters.invalid_frames
          /\ counters'.lapped_frames_skipped = counters.lapped_frames_skipped
          /\ counters'.packetized = counters.packetized
      BY <1>10, AllocBump DEF AllocFail
    <2>a. read_index' = start' + counters'.frames_read + counters'.lapped_frames_skipped
      BY <2>1, <2>3, <1>a, <1>e, <1>g
    <2>b. counters'.frames_read = counters'.invalid_frames + counters'.offered
      BY <2>3, <1>b, CounterTypes
    <2>c. counters'.offered = counters'.packetized + counters'.mbuf_alloc_failures
                              + Len(packet') + Len(carry_frame')
      BY <2>1, <2>2, <2>3, <1>c, <1>d, <1>f
    <2> QED
      BY <2>1, <2>a, <2>b, <2>c DEF AccountInv, FreshStart, EveryFrameAccounted
  <1>11. CASE ReserveFail
    BY <1>11 DEF ReserveFail, readerVars, AccountInv, FreshStart, EveryFrameAccounted
  <1>12. CASE BuildFirst
    BY <1>12 DEF BuildFirst, readerVars, AccountInv, FreshStart, EveryFrameAccounted
  <1>13. CASE BatchStop
    BY <1>13 DEF BatchStop, readerVars, AccountInv, FreshStart, EveryFrameAccounted
  <1>14. CASE BatchGoOn
    BY <1>14 DEF BatchGoOn, readerVars, AccountInv, FreshStart, EveryFrameAccounted
  <1>15. CASE NextNothing
    <2>1. pc' # "attach" /\ start' = start /\ packet' = packet /\ carry_frame' = carry_frame
      BY <1>15 DEF NextNothing
    <2>2. TryReadEmpty \/ TryReadLapped \/ TryReadInvalid
      BY <1>15 DEF NextNothing
    <2>3. /\ counters'.offered = counters.offered
          /\ counters'.packetized = counters.packetized
          /\ counters'.mbuf_alloc_failures = counters.mbuf_alloc_failures
      BY <2>2, ReadNoneType
    <2>4. /\ read_index' - read_index =
               counters'.frames_read - counters.frames_read
               + counters'.lapped_frames_skipped - counters.lapped_frames_skipped
          /\ read_index' \in Nat
      BY <2>2, ReadNoneType
    <2>5. counters'.frames_read - counters'.invalid_frames
            = counters.frames_read - counters.invalid_frames
      BY <2>2, ReadNoneType
    <2>6. /\ counters'.frames_read \in Nat /\ counters'.invalid_frames \in Nat
          /\ counters'.lapped_frames_skipped \in Nat
      BY <2>2, ReadNoneType DEF Zero
    <2>a. read_index' = start' + counters'.frames_read + counters'.lapped_frames_skipped
      BY <2>1, <2>4, <2>6, <1>a, <1>e, <1>g
    <2>b. counters'.frames_read = counters'.invalid_frames + counters'.offered
      BY <2>3, <2>5, <2>6, <1>b, CounterTypes
    <2>c. counters'.offered = counters'.packetized + counters'.mbuf_alloc_failures
                              + Len(packet') + Len(carry_frame')
      BY <2>1, <2>3, <1>c, <1>d, <1>f
    <2> QED
      BY <2>1, <2>a, <2>b, <2>c DEF AccountInv, FreshStart, EveryFrameAccounted
  <1>16. CASE NextCarried
    <2>1. PICK frame \in ValidViews : TryReadOk(frame) /\ carry_frame' = <<frame>> /\ pc' # "attach"
      BY <1>16 DEF NextCarried
    <2>2. read_index' = read_index + 1 /\ start' = start
      BY <1>16, <2>1 DEF NextCarried, TryReadOk
    <2>3. /\ counters'.frames_read = counters.frames_read + 1
          /\ counters'.offered = counters.offered + 1
          /\ counters'.invalid_frames = counters.invalid_frames
          /\ counters'.lapped_frames_skipped = counters.lapped_frames_skipped
          /\ counters'.packetized = counters.packetized
          /\ counters'.mbuf_alloc_failures = counters.mbuf_alloc_failures
      BY <2>1, ReadOkType
    <2>4. Len(packet') + Len(carry_frame') = Len(packet) + Len(carry_frame) + 1
      BY <1>16, <2>1, <1>d DEF NextCarried, HandInv, TypeOK
    <2>5. Len(packet') \in Nat /\ Len(carry_frame') \in Nat
      BY <1>d
    <2>a. read_index' = start' + counters'.frames_read + counters'.lapped_frames_skipped
      BY <2>2, <2>3, <1>a, <1>e, <1>g
    <2>b. counters'.frames_read = counters'.invalid_frames + counters'.offered
      BY <2>3, <1>b, CounterTypes
    <2>c. counters'.offered = counters'.packetized + counters'.mbuf_alloc_failures
                              + Len(packet') + Len(carry_frame')
      BY <2>3, <2>4, <2>5, <1>c, <1>d, <1>f, SMTT(30)
    <2> QED
      BY <2>1, <2>a, <2>b, <2>c DEF AccountInv, FreshStart, EveryFrameAccounted
  <1>17. CASE NextAppended
    <2>1. PICK frame \in ValidViews : TryReadOk(frame) /\ packet' = Append(packet, frame) /\ pc' # "attach"
      BY <1>17 DEF NextAppended
    <2>2. read_index' = read_index + 1 /\ start' = start
      BY <1>17, <2>1 DEF NextAppended, TryReadOk
    <2>3. /\ counters'.frames_read = counters.frames_read + 1
          /\ counters'.offered = counters.offered + 1
          /\ counters'.invalid_frames = counters.invalid_frames
          /\ counters'.lapped_frames_skipped = counters.lapped_frames_skipped
          /\ counters'.packetized = counters.packetized
          /\ counters'.mbuf_alloc_failures = counters.mbuf_alloc_failures
      BY <2>1, ReadOkType
    <2>4. Len(packet') + Len(carry_frame') = Len(packet) + Len(carry_frame) + 1
      BY <1>17, <2>1, <1>d DEF NextAppended, HandInv, TypeOK
    <2>5. Len(packet') \in Nat /\ Len(carry_frame') \in Nat
      BY <1>d
    <2>a. read_index' = start' + counters'.frames_read + counters'.lapped_frames_skipped
      BY <2>2, <2>3, <1>a, <1>e, <1>g
    <2>b. counters'.frames_read = counters'.invalid_frames + counters'.offered
      BY <2>3, <1>b, CounterTypes
    <2>c. counters'.offered = counters'.packetized + counters'.mbuf_alloc_failures
                              + Len(packet') + Len(carry_frame')
      BY <2>3, <2>4, <2>5, <1>c, <1>d, <1>f, SMTT(30)
    <2> QED
      BY <2>1, <2>a, <2>b, <2>c DEF AccountInv, FreshStart, EveryFrameAccounted
  <1>18. CASE TxEnqueued
    <2>1. pc' # "attach" /\ UNCHANGED <<carry_frame, start, read_index>>
      BY <1>18 DEF TxEnqueued, Finish, readerVars
    <2>2. Len(packet') = 0
      BY <1>18 DEF TxEnqueued, Finish
    <2>3. /\ counters'.packetized = counters.packetized + Len(packet)
          /\ counters'.frames_read = counters.frames_read
          /\ counters'.offered = counters.offered
          /\ counters'.invalid_frames = counters.invalid_frames
          /\ counters'.lapped_frames_skipped = counters.lapped_frames_skipped
          /\ counters'.mbuf_alloc_failures = counters.mbuf_alloc_failures
      BY <1>18, PacketizedBump DEF TxEnqueued
    <2>a. read_index' = start' + counters'.frames_read + counters'.lapped_frames_skipped
      BY <2>1, <2>3, <1>a, <1>e, <1>g
    <2>b. counters'.frames_read = counters'.invalid_frames + counters'.offered
      BY <2>3, <1>b, CounterTypes
    <2>c. counters'.offered = counters'.packetized + counters'.mbuf_alloc_failures
                              + Len(packet') + Len(carry_frame')
      BY <2>1, <2>2, <2>3, <1>c, <1>d, <1>f
    <2> QED
      BY <2>1, <2>a, <2>b, <2>c DEF AccountInv, FreshStart, EveryFrameAccounted
  <1>19. CASE TxUnsent
    <2>1. pc' # "attach" /\ UNCHANGED <<carry_frame, start, read_index>>
      BY <1>19 DEF TxUnsent, Finish, readerVars
    <2>2. Len(packet') = 0
      BY <1>19 DEF TxUnsent, Finish
    <2>3. /\ counters'.packetized = counters.packetized + Len(packet)
          /\ counters'.frames_read = counters.frames_read
          /\ counters'.offered = counters.offered
          /\ counters'.invalid_frames = counters.invalid_frames
          /\ counters'.lapped_frames_skipped = counters.lapped_frames_skipped
          /\ counters'.mbuf_alloc_failures = counters.mbuf_alloc_failures
      BY <1>19, UnsentBump DEF TxUnsent
    <2>a. read_index' = start' + counters'.frames_read + counters'.lapped_frames_skipped
      BY <2>1, <2>3, <1>a, <1>e, <1>g
    <2>b. counters'.frames_read = counters'.invalid_frames + counters'.offered
      BY <2>3, <1>b, CounterTypes
    <2>c. counters'.offered = counters'.packetized + counters'.mbuf_alloc_failures
                              + Len(packet') + Len(carry_frame')
      BY <2>1, <2>2, <2>3, <1>c, <1>d, <1>f
    <2> QED
      BY <2>1, <2>a, <2>b, <2>c DEF AccountInv, FreshStart, EveryFrameAccounted
  <1>20. CASE UNCHANGED vars
    BY <1>20 DEF vars, readerVars, mbufVars, AccountInv, FreshStart, EveryFrameAccounted
  <1> QED
    BY <1>1, <1>2, <1>3, <1>4, <1>5, <1>6, <1>7, <1>8, <1>9, <1>10, <1>11,
       <1>12, <1>13, <1>14, <1>15, <1>16, <1>17, <1>18, <1>19, <1>20 DEF Next,
       Loop

\* Every position the reader moved past and every frame it read is in exactly one
\* counter or in hand (SenderReaderCounters, SenderDataCounters).
THEOREM Accounting == Spec => []EveryFrameAccounted
  <1>1. AccountInv => EveryFrameAccounted
    BY DEF AccountInv
  <1> QED
    BY <1>1, TypeCorrect, Hands, AccountInit, AccountStep, PTL DEF Spec
-----------------------------------------------------------------------------
(* The wire *)

\* Only a packet that is finished changes the wire and its numbering.
Finishing == TxEnqueued \/ TxUnsent

\* Any other step leaves the wire, its numbering and the unsent packets alone.
LEMMA WireKept ==
  ASSUME TypeOK, [Next]_vars, ~Finishing
  PROVE  wire' = wire /\ next_data_seq' = next_data_seq
         /\ counters'.unsent = counters.unsent
  <1>1. wire' = wire /\ next_data_seq' = next_data_seq
    BY DEF Finishing, Next, Loop, Publish, Signal, TxDone, Attach, Stop, TakeCarry, GoOn,
           ReadNothing, ReadFirst, AllocFail, ReserveFail, BuildFirst, BatchStop, BatchGoOn,
           NextNothing, NextCarried, NextAppended, vars
  <1>2. CASE UNCHANGED counters
    BY <1>1, <1>2
  <1>3. CASE AllocFail
    BY <1>1, <1>3, AllocBump DEF AllocFail
  <1>4. CASE ReadNothing \/ NextNothing
    BY <1>1, <1>4, ReadNoneType DEF ReadNothing, NextNothing
  <1>5. CASE ReadFirst \/ NextCarried \/ NextAppended
    <2>1. PICK frame \in ValidViews : TryReadOk(frame)
      BY <1>5 DEF ReadFirst, NextCarried, NextAppended
    <2> QED
      BY <1>1, <2>1, ReadOkType
  <1> QED
    BY <1>1, <1>2, <1>3, <1>4, <1>5
    DEF Finishing, Next, Loop, Publish, Signal, TxDone, Attach, Stop, TakeCarry, GoOn,
        ReserveFail, BuildFirst, BatchStop, BatchGoOn, vars

\* What a sequence holds.
LEMMA ElementOfAnySeq ==
  ASSUME NEW S, NEW w \in Seq(S), NEW i \in DOMAIN w
  PROVE  w[i] \in S
  OBVIOUS

\* The packets on the wire are numbered by natural numbers.
LEMMA WireTypes ==
  ASSUME NEW w \in Seq([data_seq : Nat, frames : Seq(Views)])
  PROVE  \A i \in DOMAIN w : w[i].data_seq \in Nat
  <1> SUFFICES ASSUME NEW i \in DOMAIN w
               PROVE  w[i].data_seq \in Nat
    OBVIOUS
  <1>1. w[i] \in [data_seq : Nat, frames : Seq(Views)]
    BY ElementOfAnySeq
  <1> HIDE DEF Views
  <1> QED
    BY <1>1

\* GapsOnWireAreUnsent holds initially.
LEMMA WireInit == Init => GapsOnWireAreUnsent
  BY DEF Init, GapsOnWireAreUnsent, Zero

\* GapsOnWireAreUnsent is kept by every step.
LEMMA WireStep ==
  TypeOK /\ HandInv /\ GapsOnWireAreUnsent /\ [Next]_vars => GapsOnWireAreUnsent'
  <1> SUFFICES ASSUME TypeOK, HandInv, GapsOnWireAreUnsent, [Next]_vars
               PROVE  GapsOnWireAreUnsent'
    OBVIOUS
  <1>1. CASE TxEnqueued
    <2> DEFINE new == [data_seq |-> next_data_seq, frames |-> packet]
               n == Len(wire)
    <2>1. /\ wire' = Append(wire, new) /\ next_data_seq' = next_data_seq + 1
          /\ counters'.unsent = counters.unsent
      BY <1>1, PacketizedBump DEF TxEnqueued, Finish
    <2>2. /\ n \in Nat /\ next_data_seq \in Nat /\ counters.unsent \in Nat
          /\ DOMAIN wire = 1..n
      BY CounterTypes DEF TypeOK
    <2>3. /\ Len(wire') = n + 1 /\ DOMAIN wire' = 1..n+1 /\ wire'[n+1] = new
          /\ \A i \in 1..n : wire'[i] = wire[i]
      BY <2>1 DEF TypeOK
    <2>4. packet # <<>> /\ new.data_seq = next_data_seq /\ new.frames = packet
      BY <1>1 DEF TxEnqueued, HandInv
    <2>5. /\ \A i \in 1..n : wire[i].frames # <<>> /\ wire[i].data_seq < next_data_seq
          /\ \A i, j \in 1..n : i < j => wire[i].data_seq < wire[j].data_seq
      BY <2>2 DEF GapsOnWireAreUnsent
    <2>t. \A i \in 1..n : wire[i].data_seq \in Nat
      BY <2>2, WireTypes DEF TypeOK
    <2>u. next_data_seq = n + counters.unsent
      BY DEF GapsOnWireAreUnsent
    <2> HIDE DEF new, n
    <2>6. \A i \in 1..n+1 : i \in 1..n \/ i = n + 1
      BY <2>2
    <2>7. \A i \in 1..n+1 : wire'[i].frames # <<>> /\ wire'[i].data_seq < next_data_seq'
      BY <2>1, <2>2, <2>3, <2>4, <2>5, <2>t, <2>6
    <2>8. \A i, j \in 1..n+1 : i < j => wire'[i].data_seq < wire'[j].data_seq
      <3> TAKE i, j \in 1..n+1
      <3> HAVE i < j
      <3>1. i \in 1..n
        BY <2>2
      <3>2. CASE j = n + 1
        BY <2>3, <2>4, <2>5, <3>1, <3>2
      <3>3. CASE j \in 1..n
        BY <2>3, <2>5, <3>1, <3>3
      <3> QED
        BY <2>6, <3>2, <3>3
    <2>9. next_data_seq' = Len(wire') + counters'.unsent
      <3>1. \A a, b \in Nat : (a + b) + 1 = (a + 1) + b
        OBVIOUS
      <3> QED
        BY <2>1, <2>2, <2>3, <2>u, <3>1
    <2> QED
      BY <2>3, <2>7, <2>8, <2>9 DEF GapsOnWireAreUnsent
  <1>2. CASE TxUnsent
    <2>1. /\ wire' = wire /\ next_data_seq' = next_data_seq + 1
          /\ counters'.unsent = counters.unsent + 1
      BY <1>2, UnsentBump DEF TxUnsent, Finish
    <2>2. next_data_seq \in Nat /\ counters.unsent \in Nat /\ Len(wire) \in Nat
      BY CounterTypes DEF TypeOK
    <2>3. \A i \in DOMAIN wire : wire[i].data_seq \in Nat
      BY WireTypes DEF TypeOK
    <2>4. next_data_seq' = Len(wire') + counters'.unsent
      <3>1. \A a, b \in Nat : (a + b) + 1 = a + (b + 1)
        OBVIOUS
      <3> QED
        BY <2>1, <2>2, <3>1 DEF GapsOnWireAreUnsent
    <2>5. \A i \in DOMAIN wire : wire[i].data_seq < next_data_seq'
      BY <2>1, <2>2, <2>3 DEF GapsOnWireAreUnsent
    <2> QED
      BY <2>1, <2>4, <2>5 DEF GapsOnWireAreUnsent
  <1>3. CASE ~Finishing
    BY <1>3, WireKept DEF GapsOnWireAreUnsent
  <1> QED
    BY <1>1, <1>2, <1>3 DEF Finishing

\* A data_seq missing on the wire is that of a packet the NIC did not take, and
\* no packet is empty (the end of the loop of run_sender).
THEOREM Wire == Spec => []GapsOnWireAreUnsent
  BY TypeCorrect, Hands, WireInit, WireStep, PTL DEF Spec
-----------------------------------------------------------------------------
(* Packets *)

\* The frame last admitted, while it is in hand.  prev_valid_ is its number, or a
\* higher one that a torn read returned before; but then not the number that the
\* frame itself would have had if torn.
Newest(f) ==
  /\ f.index + 1 = read_index
  /\ buffer = {f.index}
  /\ f.seq_id = f.index + 1 \/ f.seq_id = f.index + Slots + 1
  /\ f.seq_id <= prev_valid /\ prev_valid <= f.index + Slots + 1
  /\ f.seq_id = f.index + 1 => prev_valid <= f.index + Slots

Contiguous(frames) ==
  \A i \in 1..Len(frames)-1 :
    /\ frames[i+1].index = frames[i].index + 1
    /\ frames[i+1].seq_id = frames[i].seq_id + 1

NewestInv ==
  /\ prev_valid <= read_index + Slots
  /\ carry_frame # <<>> => Newest(carry_frame[1])
  /\ pc \in {"alloc", "batch", "next"} => Newest(packet[Len(packet)])

\* What try_read() leaves behind when it admits a frame.
LEMMA Admitted ==
  ASSUME TypeOK, prev_valid <= read_index + Slots,
         NEW frame \in ValidViews, TryReadOk(frame)
  PROVE  /\ frame.index + 1 = read_index'
         /\ buffer' = {frame.index}
         /\ frame.seq_id = frame.index + 1 \/ frame.seq_id = frame.index + Slots + 1
         /\ frame.seq_id <= prev_valid' /\ prev_valid' <= frame.index + Slots + 1
         /\ frame.seq_id = frame.index + 1 => prev_valid' <= frame.index + Slots
         /\ prev_valid' <= read_index' + Slots
  <1>1. /\ frame.index = read_index /\ frame.index \in Nat /\ frame.seq_id \in Nat
        /\ frame.seq_id = read_index + 1 \/ frame.seq_id = read_index + Slots + 1
    BY ViewType DEF Views
  <1>2. prev_valid \in Nat /\ read_index \in Nat
    BY DEF TypeOK
  <1>3. /\ read_index' = read_index + 1 /\ buffer' = {read_index}
        /\ prev_valid' = IF prev_valid = 0 \/ frame.seq_id > prev_valid
                           THEN frame.seq_id ELSE prev_valid
    BY DEF TryReadOk, NextPrevValid
  <1> QED
    BY <1>1, <1>2, <1>3, SlotsAssumption

\* A frame that joins the packet is the neighbour of its last frame.
LEMMA JoinsNeighbour ==
  ASSUME TypeOK, NEW f \in Views, Newest(f), NEW frame \in ValidViews, Joins(frame)
  PROVE  frame.index = f.index + 1 /\ frame.seq_id = f.seq_id + 1
  <1>1. /\ frame.index = read_index /\ frame.seq_id \in Nat
        /\ frame.seq_id = read_index + 1 \/ frame.seq_id = read_index + Slots + 1
    BY ViewType DEF Views
  <1>2. /\ prev_valid \in Nat /\ read_index \in Nat /\ f.index \in Nat /\ f.seq_id \in Nat
    BY DEF TypeOK, Views
  <1>3. prev_valid = 0 \/ frame.seq_id = prev_valid + 1
    BY DEF Joins, begins_after_source_gap
  <1> QED
    BY <1>1, <1>2, <1>3, SlotsAssumption DEF Newest

\* NewestInv holds initially.
LEMMA NewestInit == Init => NewestInv
  BY SlotsAssumption DEF Init, NewestInv

\* NewestInv is kept by every step.
LEMMA NewestStep ==
  TypeOK /\ HandInv /\ AccountInv /\ NewestInv /\ [Next]_vars => NewestInv'
  <1> SUFFICES ASSUME TypeOK, HandInv, AccountInv, NewestInv, [Next]_vars
               PROVE  NewestInv'
    OBVIOUS
  <1>1. CASE Publish
    BY <1>1 DEF Publish, readerVars, NewestInv, Newest
  <1>2. CASE Signal
    BY <1>2 DEF Signal, readerVars, NewestInv, Newest
  <1>3. CASE TxDone
    BY <1>3 DEF TxDone, readerVars, NewestInv, Newest
  <1>4. CASE Attach
    <2>1. carry_frame' = <<>> /\ pc' = "top" /\ prev_valid' = prev_valid
          /\ read_index' \in Nat /\ read_index = 0 /\ prev_valid \in Nat
      BY <1>4 DEF Attach, LiveEdges, HandInv, AccountInv, FreshStart, TypeOK
    <2>2. prev_valid' <= read_index' + Slots
      <3>1. \A a, b, c \in Nat : a <= 0 + b => a <= c + b
        OBVIOUS
      <3> QED
        BY <2>1, <3>1, SlotsAssumption DEF NewestInv
    <2> QED
      BY <2>1, <2>2 DEF NewestInv
  <1>5. CASE Stop
    BY <1>5 DEF Stop, readerVars, NewestInv, Newest
  <1>6. CASE TakeCarry
    <2>1. /\ packet' = carry_frame /\ carry_frame # <<>> /\ carry_frame' = <<>>
          /\ UNCHANGED <<read_index, prev_valid, buffer>>
      BY <1>6 DEF TakeCarry, readerVars
    <2>2. Len(packet') = 1
      BY <2>1 DEF HandInv
    <2> QED
      BY <2>1, <2>2 DEF NewestInv, Newest
  <1>7. CASE GoOn
    BY <1>7 DEF GoOn, readerVars, NewestInv, Newest
  <1>8. CASE ReadNothing
    <2>1. carry_frame' = <<>> /\ pc' \notin {"alloc", "batch", "next"}
      BY <1>8 DEF ReadNothing, HandInv
    <2>2. prev_valid' = prev_valid /\ read_index <= read_index' /\ read_index' \in Nat
      BY <1>8, ReadNoneType DEF ReadNothing
    <2>3. prev_valid \in Nat /\ read_index \in Nat /\ prev_valid <= read_index + Slots
      BY DEF TypeOK, NewestInv
    <2>4. prev_valid' <= read_index' + Slots
      <3>1. \A a, b, c, d \in Nat : a <= b + d /\ b <= c => a <= c + d
        OBVIOUS
      <3>2. Slots \in Nat
        BY SlotsAssumption
      <3> QED
        BY <2>2, <2>3, <3>1, <3>2
    <2> QED
      BY <2>1, <2>4 DEF NewestInv
  <1>9. CASE ReadFirst
    <2>1. PICK frame \in ValidViews : TryReadOk(frame) /\ packet' = <<frame>>
      BY <1>9 DEF ReadFirst
    <2>2. carry_frame' = <<>> /\ Len(packet') = 1 /\ packet'[1] = frame
      BY <1>9, <2>1 DEF ReadFirst, HandInv
    <2> QED
      BY <2>1, <2>2, Admitted DEF NewestInv, Newest
  <1>10. CASE AllocFail
    BY <1>10 DEF AllocFail, readerVars, NewestInv, Newest
  <1>11. CASE ReserveFail
    BY <1>11 DEF ReserveFail, readerVars, NewestInv, Newest
  <1>12. CASE BuildFirst
    BY <1>12 DEF BuildFirst, readerVars, NewestInv, Newest
  <1>13. CASE BatchStop
    BY <1>13 DEF BatchStop, readerVars, NewestInv, Newest
  <1>14. CASE BatchGoOn
    BY <1>14 DEF BatchGoOn, readerVars, NewestInv, Newest
  <1>15. CASE NextNothing
    <2>1. carry_frame' = <<>> /\ pc' \notin {"alloc", "batch", "next"}
      BY <1>15 DEF NextNothing, HandInv
    <2>2. prev_valid' = prev_valid /\ read_index <= read_index' /\ read_index' \in Nat
      BY <1>15, ReadNoneType DEF NextNothing
    <2>3. prev_valid \in Nat /\ read_index \in Nat /\ prev_valid <= read_index + Slots
      BY DEF TypeOK, NewestInv
    <2>4. prev_valid' <= read_index' + Slots
      <3>1. \A a, b, c, d \in Nat : a <= b + d /\ b <= c => a <= c + d
        OBVIOUS
      <3>2. Slots \in Nat
        BY SlotsAssumption
      <3> QED
        BY <2>2, <2>3, <3>1, <3>2
    <2> QED
      BY <2>1, <2>4 DEF NewestInv
  <1>16. CASE NextCarried
    <2>1. PICK frame \in ValidViews : TryReadOk(frame) /\ carry_frame' = <<frame>>
      BY <1>16 DEF NextCarried
    <2>2. pc' = "send" /\ carry_frame'[1] = frame
      BY <1>16, <2>1 DEF NextCarried
    <2> QED
      BY <2>1, <2>2, Admitted DEF NewestInv, Newest
  <1>17. CASE NextAppended
    <2>1. PICK frame \in ValidViews : TryReadOk(frame) /\ packet' = Append(packet, frame)
      BY <1>17 DEF NextAppended
    <2>2. carry_frame' = <<>> /\ packet'[Len(packet')] = frame
      BY <1>17, <2>1 DEF NextAppended, HandInv, TypeOK
    <2> QED
      BY <2>1, <2>2, Admitted DEF NewestInv, Newest
  <1>18. CASE TxEnqueued
    BY <1>18 DEF TxEnqueued, Finish, readerVars, NewestInv, Newest
  <1>19. CASE TxUnsent
    BY <1>19 DEF TxUnsent, Finish, readerVars, NewestInv, Newest
  <1>20. CASE UNCHANGED vars
    BY <1>20 DEF vars, readerVars, mbufVars, NewestInv, Newest
  <1> QED
    BY <1>1, <1>2, <1>3, <1>4, <1>5, <1>6, <1>7, <1>8, <1>9, <1>10, <1>11,
       <1>12, <1>13, <1>14, <1>15, <1>16, <1>17, <1>18, <1>19, <1>20 DEF Next,
       Loop

\* Together with TypeOK, HandInv and AccountInv, inductive.
THEOREM NewestFrame == Spec => []NewestInv
  <1>1. AccountInv /\ NewestInv /\ TypeOK /\ HandInv /\ [Next]_vars
          => AccountInv' /\ NewestInv'
    BY AccountStep, NewestStep
  <1> QED
    BY <1>1, TypeCorrect, Hands, AccountInit, NewestInit, PTL DEF Spec

\* The bytes of a frame in hand are still in the reader's buffer when they are
\* used (buffer_ of SenderShmReader).
THEOREM Fresh == Spec => []ViewsAreFresh
  <1>1. HandInv /\ NewestInv => ViewsAreFresh
    BY DEF HandInv, NewestInv, Newest, ViewsAreFresh
  <1> QED
    BY <1>1, Hands, NewestFrame, PTL

ContiguousInv ==
  Contiguous(packet) /\ \A k \in DOMAIN wire : Contiguous(wire[k].frames)

\* ContiguousInv holds initially.
LEMMA ContiguousInit == Init => ContiguousInv
  BY DEF Init, ContiguousInv, Contiguous

\* ContiguousInv is kept by every step.
LEMMA ContiguousStep ==
  TypeOK /\ HandInv /\ NewestInv /\ ContiguousInv /\ [Next]_vars => ContiguousInv'
  <1> SUFFICES ASSUME TypeOK, HandInv, NewestInv, ContiguousInv, [Next]_vars
               PROVE  ContiguousInv'
    OBVIOUS
  <1>1. CASE TxEnqueued
    <2>1. Contiguous(packet')
      BY <1>1 DEF TxEnqueued, Finish, Contiguous
    <2>2. wire' = Append(wire, [data_seq |-> next_data_seq, frames |-> packet])
      BY <1>1 DEF TxEnqueued
    <2>3. \A k \in DOMAIN wire' : \/ k \in DOMAIN wire /\ wire'[k] = wire[k]
                                  \/ wire'[k].frames = packet
      BY <2>2 DEF TypeOK
    <2> QED
      BY <2>1, <2>3 DEF ContiguousInv
  <1>2. CASE NextAppended
    <2>1. PICK frame \in ValidViews : Joins(frame) /\ packet' = Append(packet, frame)
      BY <1>2 DEF NextAppended
    <2> DEFINE n == Len(packet)
    <2>2. n \in Nat \ {0} /\ packet[n] \in Views /\ Newest(packet[n])
      BY <1>2 DEF NextAppended, HandInv, NewestInv, TypeOK
    <2>3. frame.index = packet[n].index + 1 /\ frame.seq_id = packet[n].seq_id + 1
      BY <2>1, <2>2, JoinsNeighbour
    <2>4. /\ Len(packet') = n + 1 /\ packet'[n+1] = frame
          /\ \A i \in 1..n : packet'[i] = packet[i]
      BY <2>1 DEF TypeOK
    <2> HIDE DEF n
    <2>5. Contiguous(packet')
      <3> SUFFICES ASSUME NEW i \in 1..n
                   PROVE  /\ packet'[i+1].index = packet'[i].index + 1
                          /\ packet'[i+1].seq_id = packet'[i].seq_id + 1
        BY <2>2, <2>4 DEF Contiguous
      <3>1. CASE i = n
        BY <2>2, <2>3, <2>4, <3>1
      <3>2. CASE i # n
        <4>1. i \in 1..n-1 /\ i + 1 \in 1..n
          BY <2>2, <3>2
        <4> QED
          BY <2>4, <4>1 DEF ContiguousInv, Contiguous, n
      <3> QED
        BY <3>1, <3>2
    <2>6. wire' = wire
      BY <1>2 DEF NextAppended
    <2> QED
      BY <2>5, <2>6 DEF ContiguousInv
  <1>3. CASE ReadFirst \/ TakeCarry \/ AllocFail \/ TxUnsent
    <2>1. Len(packet') \in {0, 1}
      BY <1>3 DEF ReadFirst, TakeCarry, AllocFail, TxUnsent, Finish, HandInv
    <2>2. wire' = wire
      BY <1>3 DEF ReadFirst, TakeCarry, AllocFail, TxUnsent
    <2> QED
      BY <2>1, <2>2 DEF ContiguousInv, Contiguous
  <1>4. CASE UNCHANGED <<packet, wire>>
    BY <1>4 DEF ContiguousInv
  <1> QED
    BY <1>1, <1>2, <1>3, <1>4
    DEF Next, Loop, Publish, Signal, TxDone, Attach, Stop, GoOn, ReadNothing, ReserveFail,
        BuildFirst, BatchStop, BatchGoOn, NextNothing, NextCarried, vars

\* No packet crosses a gap of the source, also when frames are lapped, rejected or
\* torn (the batching loop of run_sender, WIRE_PROTOCOL.md 136).
THEOREM Batches == Spec => []BatchContiguous
  <1>1. TypeOK /\ ContiguousInv => BatchContiguous
    <2> SUFFICES ASSUME TypeOK, ContiguousInv, NEW frames \in Packets
                 PROVE  Contiguous(frames)
      BY DEF BatchContiguous, Contiguous
    <2>1. frames = packet \/ \E k \in DOMAIN wire : frames = wire[k].frames
      BY DEF Packets, ToSet
    <2> QED
      BY <2>1 DEF ContiguousInv
  <1> QED
    BY <1>1, TypeCorrect, Hands, NewestFrame, ContiguousInit, ContiguousStep,
       PTL DEF Spec
-----------------------------------------------------------------------------
(* The order of the frames *)

\* Frames that were admitted, and so lie behind the read position.
Kept(frames) == \A k \in DOMAIN frames : frames[k].index \in taken /\ frames[k].index < read_index

\* The packets on the wire, in order among themselves and before all in hand.
WireOrder ==
  /\ \A n \in DOMAIN wire : LET frames == wire[n].frames IN
       /\ Ascending(frames) /\ Kept(frames)
       /\ Before(frames, packet) /\ Before(frames, carry_frame)
  /\ \A n, m \in DOMAIN wire : n < m => Before(wire[n].frames, wire[m].frames)

OrderInv ==
  /\ WireOrder
  /\ Ascending(packet) /\ Kept(packet) /\ Kept(carry_frame)
  /\ Before(packet, carry_frame)

\* Frames stay behind the read position when it moves on.
LEMMA KeptOn ==
  ASSUME TypeOK, NEW frames, Kept(frames), read_index' \in Nat, read_index <= read_index',
         taken \subseteq taken'
  PROVE  Kept(frames)'
  <1> SUFFICES ASSUME NEW k \in DOMAIN frames
               PROVE  frames[k].index \in taken' /\ frames[k].index < read_index'
    BY DEF Kept
  <1>1. frames[k].index \in taken /\ frames[k].index < read_index
    BY DEF Kept
  <1>2. frames[k].index \in Nat /\ read_index \in Nat
    BY <1>1 DEF TypeOK
  <1> QED
    BY <1>1, <1>2

\* A step without a frame from the ring, the packets in hand staying, keeps OrderInv.
LEMMA OrderOn ==
  ASSUME TypeOK, OrderInv, read_index' \in Nat, read_index <= read_index',
         taken \subseteq taken', UNCHANGED <<wire, packet, carry_frame>>
  PROVE  OrderInv'
  <1>1. Kept(packet)' /\ Kept(carry_frame)'
    <2>1. Kept(packet) /\ Kept(carry_frame)
      BY DEF OrderInv
    <2> QED
      BY <2>1, KeptOn DEF Kept
  <1>2. ASSUME NEW n \in DOMAIN wire PROVE Kept(wire[n].frames)'
    BY KeptOn DEF OrderInv, WireOrder, Kept
  <1> QED
    BY <1>1, <1>2 DEF OrderInv, WireOrder, Ascending, Before, Kept

\* A frame from the ring comes after all that were admitted.
LEMMA NewFrame ==
  ASSUME TypeOK, NEW frame \in ValidViews, TryReadOk(frame)
  PROVE  /\ frame.index = read_index /\ read_index \in Nat
         /\ read_index' = read_index + 1 /\ read_index' \in Nat /\ read_index <= read_index'
         /\ taken \subseteq taken' /\ read_index \in taken'
  BY SMTT(60), ViewType DEF TryReadOk, TypeOK

\* OrderInv holds initially.
LEMMA OrderInit == Init => OrderInv
  BY DEF Init, OrderInv, WireOrder, Ascending, Before, Kept

\* OrderInv is kept by every step.
LEMMA OrderStep ==
  TypeOK /\ HandInv /\ AccountInv /\ OrderInv /\ [Next]_vars => OrderInv'
  <1> SUFFICES ASSUME TypeOK, HandInv, AccountInv, OrderInv, [Next]_vars PROVE OrderInv'
    OBVIOUS
  <1>0. read_index \in Nat
    BY DEF TypeOK
  <1>1. CASE UNCHANGED <<read_index, taken, packet, carry_frame, wire>>
    BY <1>0, <1>1, OrderOn
  <1>2. CASE Attach
    BY <1>0, <1>2, OrderOn DEF Attach, LiveEdges, AccountInv, FreshStart
  <1>3. CASE ReadNothing \/ NextNothing
    BY <1>3, ReadNoneType, OrderOn DEF ReadNothing, NextNothing
  <1>4. CASE TakeCarry
    <2>1. /\ packet' = carry_frame /\ carry_frame' = <<>>
          /\ UNCHANGED <<wire, taken, read_index>>
      BY <1>4 DEF TakeCarry, readerVars
    <2>2. Len(carry_frame) = 1
      BY <1>4 DEF TakeCarry, HandInv
    <2> QED
      BY <2>1, <2>2 DEF OrderInv, WireOrder, Ascending, Before, Kept
  <1>5. CASE ReadFirst
    <2>1. PICK frame \in ValidViews : TryReadOk(frame) /\ packet' = <<frame>>
      BY <1>5 DEF ReadFirst
    <2>2. carry_frame = <<>> /\ UNCHANGED <<wire, carry_frame>>
      BY <1>5 DEF ReadFirst, HandInv
    <2>3. ASSUME NEW n \in DOMAIN wire
          PROVE  Kept(wire[n].frames)' /\ Before(wire[n].frames, packet')
      <3>1. Kept(wire[n].frames)
        BY DEF OrderInv, WireOrder
      <3> QED
        BY <2>1, <2>2, <3>1, NewFrame, KeptOn DEF Kept, Before
    <2>4. Kept(packet)' /\ Ascending(packet')
      BY <2>1, NewFrame DEF Kept, Ascending
    <2> QED
      BY <2>2, <2>3, <2>4 DEF OrderInv, WireOrder, Before, Kept
  <1>6. CASE AllocFail \/ TxUnsent
    <2>1. packet' = <<>> /\ UNCHANGED <<wire, carry_frame, taken, read_index>>
      BY <1>6 DEF AllocFail, TxUnsent, Finish, readerVars
    <2> QED
      BY <2>1 DEF OrderInv, WireOrder, Ascending, Before, Kept
  <1>7. CASE NextCarried
    <2>1. PICK frame \in ValidViews : TryReadOk(frame) /\ carry_frame' = <<frame>>
      BY <1>7 DEF NextCarried
    <2>2. UNCHANGED <<wire, packet>>
      BY <1>7 DEF NextCarried
    <2>3. ASSUME NEW frames, Kept(frames)
          PROVE  Before(frames, carry_frame')
      BY <2>1, <2>3, NewFrame DEF Kept, Before
    <2>4. Kept(carry_frame)' /\ Kept(packet)'
      BY <2>1, <2>2, NewFrame, KeptOn DEF Kept, OrderInv
    <2>5. ASSUME NEW n \in DOMAIN wire PROVE Kept(wire[n].frames)'
      BY <2>1, <2>2, NewFrame, KeptOn DEF Kept, OrderInv, WireOrder
    <2> QED
      BY <2>2, <2>3, <2>4, <2>5 DEF OrderInv, WireOrder
  <1>8. CASE NextAppended
    <2>1. PICK frame \in ValidViews : TryReadOk(frame) /\ packet' = Append(packet, frame)
      BY <1>8 DEF NextAppended
    <2>2. carry_frame = <<>> /\ UNCHANGED <<wire, carry_frame>>
      BY <1>8 DEF NextAppended, HandInv
    <2>3. /\ packet \in Seq(Views)
          /\ \A k \in DOMAIN packet' : \/ k \in DOMAIN packet /\ packet'[k] = packet[k]
                                       \/ k = Len(packet) + 1 /\ packet'[k] = frame
      BY <2>1 DEF TypeOK
    <2>4. Kept(packet)'
      <3>1. Kept(packet)
        BY DEF OrderInv
      <3> QED
        BY <2>1, <2>3, <3>1, NewFrame, KeptOn DEF Kept
    <2>5. Ascending(packet')
      <3> SUFFICES ASSUME NEW k \in DOMAIN packet', NEW l \in DOMAIN packet', k < l
                   PROVE  packet'[k].index < packet'[l].index
        BY DEF Ascending
      <3>1. k \in DOMAIN packet /\ packet'[k] = packet[k]
        BY <2>1, <2>3 DEF TypeOK
      <3>2. CASE l \in DOMAIN packet /\ packet'[l] = packet[l]
        BY <3>1, <3>2 DEF OrderInv, Ascending
      <3>3. CASE packet'[l] = frame
        BY <2>1, <3>1, <3>3, NewFrame DEF OrderInv, Kept
      <3> QED
        BY <2>3, <3>2, <3>3
    <2>6. ASSUME NEW n \in DOMAIN wire
          PROVE  Kept(wire[n].frames)' /\ Before(wire[n].frames, packet')
      <3>1. Kept(wire[n].frames) /\ Before(wire[n].frames, packet)
        BY DEF OrderInv, WireOrder
      <3>2. Kept(wire[n].frames)'
        BY <2>1, <2>2, <3>1, NewFrame, KeptOn DEF Kept
      <3> QED
        BY <2>1, <2>3, <3>1, <3>2, NewFrame DEF Kept, Before
    <2> QED
      BY <2>2, <2>4, <2>5, <2>6 DEF OrderInv, WireOrder, Before, Kept
  <1>9. CASE TxEnqueued
    <2>1. /\ wire' = Append(wire, [data_seq |-> next_data_seq, frames |-> packet])
          /\ packet' = <<>> /\ UNCHANGED <<carry_frame, taken, read_index>>
      BY <1>9 DEF TxEnqueued, Finish, readerVars
    <2>2. \A n \in DOMAIN wire' : \/ n \in DOMAIN wire /\ wire'[n] = wire[n]
                                  \/ n = Len(wire) + 1 /\ wire'[n].frames = packet
      BY <2>1 DEF TypeOK
    <2>3. ASSUME NEW n \in DOMAIN wire'
          PROVE  LET frames == wire'[n].frames IN
                   /\ Ascending(frames) /\ Kept(frames)
                   /\ Before(frames, <<>>) /\ Before(frames, carry_frame)
      BY <2>2 DEF OrderInv, WireOrder, Before
    <2>4. ASSUME NEW n \in DOMAIN wire', NEW m \in DOMAIN wire', n < m
          PROVE  Before(wire'[n].frames, wire'[m].frames)
      <3>1. n \in DOMAIN wire /\ wire'[n] = wire[n]
        BY SMTT(60), <2>1, <2>4 DEF TypeOK
      <3>2. Before(wire[n].frames, packet)
        BY <3>1 DEF OrderInv, WireOrder
      <3>3. m \in DOMAIN wire /\ wire'[m] = wire[m] => Before(wire[n].frames, wire[m].frames)
        BY <2>4, <3>1 DEF OrderInv, WireOrder
      <3> QED
        BY <2>2, <3>1, <3>2, <3>3
    <2> QED
      BY SMTT(60), <2>1, <2>3, <2>4 DEF OrderInv, WireOrder, Ascending, Before, Kept
  <1> QED
    BY <1>1, <1>2, <1>3, <1>4, <1>5, <1>6, <1>7, <1>8, <1>9
    DEF Next, Loop, Publish, Signal, TxDone, Stop, GoOn, ReserveFail, BuildFirst,
        BatchStop, BatchGoOn, vars, readerVars

\* Together with TypeOK, HandInv and AccountInv, inductive.
THEOREM Order == Spec => []OrderInv
  <1>1. AccountInv /\ OrderInv /\ TypeOK /\ HandInv /\ [Next]_vars => AccountInv' /\ OrderInv'
    BY AccountStep, OrderStep
  <1> QED
    BY <1>1, TypeCorrect, Hands, AccountInit, OrderInit, PTL DEF Spec

\* No source frame leaves twice and none overtakes another, however laps, carried
\* frames, lost mbufs and full TX queues interleave in the loop of run_sender.
THEOREM SentOnce == Spec => []SentOnceInOrder
  <1>1. TypeOK /\ HandInv /\ OrderInv => SentOnceInOrder
    <2> SUFFICES ASSUME TypeOK, HandInv, OrderInv PROVE SentOnceInOrder
      OBVIOUS
    <2> DEFINE n == Len(wire)
    <2>1. /\ n \in Nat /\ DOMAIN Departing = 1..n+2 /\ DOMAIN wire = 1..n
          /\ \A i \in 1..n : Departing[i] = wire[i].frames
          /\ Departing[n+1] = packet /\ Departing[n+2] = carry_frame
      BY DEF Departing, TypeOK
    <2>2. \A i \in 1..n+2 : i \in 1..n \/ i = n + 1 \/ i = n + 2
      BY <2>1
    <2>3. Ascending(carry_frame)
      BY DEF Ascending, HandInv, TypeOK
    <2>4. \A i \in 1..n+2 : Ascending(Departing[i]) /\ Kept(Departing[i])
      BY <2>1, <2>2, <2>3 DEF OrderInv, WireOrder
    <2>5. ASSUME NEW i \in 1..n+2, NEW j \in 1..n+2, i < j
          PROVE  Before(Departing[i], Departing[j])
      <3>1. CASE j \in 1..n
        BY <2>1, <2>5, <3>1 DEF OrderInv, WireOrder
      <3>2. CASE j = n + 1
        BY <2>1, <2>5, <3>2 DEF OrderInv, WireOrder
      <3>3. CASE j = n + 2
        BY <2>1, <2>2, <2>5, <3>3 DEF OrderInv, WireOrder
      <3> QED
        BY <2>2, <3>1, <3>2, <3>3
    <2> QED
      BY <2>1, <2>4, <2>5 DEF SentOnceInOrder, Kept
  <1> QED
    BY <1>1, TypeCorrect, Hands, Order, PTL
-----------------------------------------------------------------------------
(* Missing frames *)

\* As long as no read was torn, prev_valid_ is the number of the last frame
\* admitted, and the counter what lies between the first and the last and was
\* not admitted.
MissInv ==
  ~torn =>
    /\ IsFiniteSet(taken)
    /\ \A t \in taken : t < read_index
    /\ taken = {} => prev_valid = 0
    /\ taken # {} =>
         /\ prev_valid > 0 /\ prev_valid - 1 \in taken
         /\ \A t \in taken : t <= prev_valid - 1
         /\ \E lo \in taken :
              /\ \A t \in taken : lo <= t
              /\ counters.source_frames_missing + Cardinality(taken) = prev_valid - lo
    /\ taken = {} => counters.source_frames_missing = 0

\* MissInv holds initially.
LEMMA MissInit == Init => MissInv
  BY FS_EmptySet DEF Init, MissInv, Zero

\* What leaves the admitted frames alone keeps it.
LEMMA MissKept ==
  ASSUME TypeOK, MissInv, taken' = taken, prev_valid' = prev_valid, torn => torn',
         torn' \in BOOLEAN, read_index' \in Nat, read_index <= read_index',
         counters'.source_frames_missing = counters.source_frames_missing
  PROVE  MissInv'
  <1> SUFFICES ASSUME ~torn' PROVE MissInv'
    BY DEF MissInv
  <1>1. ~torn
    OBVIOUS
  <1>2. \A t \in taken : t < read_index'
    <2> SUFFICES ASSUME NEW t \in taken PROVE t < read_index'
      OBVIOUS
    <2>1. t \in Nat /\ read_index \in Nat /\ t < read_index
      BY <1>1 DEF TypeOK, MissInv
    <2> QED
      BY <2>1
  <1> QED
    BY <1>1, <1>2 DEF MissInv

\* An admitted frame.
LEMMA MissOk ==
  ASSUME TypeOK, MissInv, NEW frame \in ValidViews, TryReadOk(frame)
  PROVE  MissInv'
  <1> SUFFICES ASSUME ~torn' PROVE MissInv'
    BY DEF MissInv
  <1> DEFINE n == read_index
             missing == counters.source_frames_missing
             card == Cardinality(taken)
  <1>1. ~torn /\ frame = [index |-> n, size |-> Size(n), seq_id |-> n + 1]
    BY DEF TryReadOk
  <1>2. /\ taken' = taken \cup {n} /\ read_index' = n + 1
        /\ prev_valid' = NextPrevValid(frame) /\ frame.seq_id = n + 1
        /\ counters'.source_frames_missing = missing + NewlyMissing(frame)
    BY <1>1, ReadOkType DEF TryReadOk
  <1>3. n \in Nat /\ prev_valid \in Nat /\ missing \in Nat /\ taken \subseteq Nat
    BY CounterTypes DEF TypeOK
  <1>4. IsFiniteSet(taken) /\ card \in Nat /\ \A t \in taken : t < n
    BY <1>1, FS_CardinalityType DEF MissInv
  <1>5. n \notin taken
    BY <1>3, <1>4
  <1>6. IsFiniteSet(taken') /\ Cardinality(taken') = card + 1
    BY <1>2, <1>4, <1>5, FS_AddElement
  <1>7. \A t \in taken' : t < n + 1 /\ t <= n
    BY <1>2, <1>3, <1>4
  <1>8. CASE taken = {}
    <2>1. prev_valid = 0 /\ missing = 0
      BY <1>1, <1>8 DEF MissInv
    <2>2. card = 0
      BY <1>8, FS_EmptySet
    <2>3. prev_valid' = n + 1 /\ NewlyMissing(frame) = 0
      BY <1>2, <2>1 DEF NextPrevValid, NewlyMissing
    <2>4. taken' = {n} /\ Cardinality(taken') = 1 /\ counters'.source_frames_missing = 0
      BY <1>2, <1>6, <1>8, <2>1, <2>2, <2>3
    <2>5. n + 1 > 0 /\ (n + 1) - 1 = n /\ 0 + 1 = (n + 1) - n
      BY <1>3
    <2> QED
      BY <1>2, <1>3, <1>6, <1>7, <2>3, <2>4, <2>5 DEF MissInv
  <1>9. CASE taken # {}
    <2>1. /\ prev_valid > 0 /\ prev_valid - 1 \in taken
          /\ \E lo \in taken : (\A t \in taken : lo <= t) /\ missing + card = prev_valid - lo
      BY <1>1, <1>9 DEF MissInv
    <2>2. PICK lo \in taken : (\A t \in taken : lo <= t) /\ missing + card = prev_valid - lo
      BY <2>1
    <2>3. prev_valid <= n
      BY <1>3, <1>4, <2>1
    <2>4. prev_valid' = n + 1 /\ NewlyMissing(frame) = n - prev_valid
      BY <1>2, <1>3, <2>1, <2>3 DEF NextPrevValid, NewlyMissing
    <2>5. lo \in taken' /\ lo \in Nat /\ lo < n
      BY <1>2, <1>3, <1>4
    <2>6. \A t \in taken' : lo <= t
      BY <1>2, <1>3, <2>2, <2>5
    <2>7. counters'.source_frames_missing + Cardinality(taken') = (n + 1) - lo
      <3>1. \A a, b, c, d, e \in Nat : a + b = c - d => (a + (e - c)) + (b + 1) = (e + 1) - d
        OBVIOUS
      <3> HIDE DEF n, missing, card
      <3> QED
        BY <1>2, <1>3, <1>4, <1>6, <2>2, <2>4, <2>5, <3>1
    <2>8. n + 1 > 0 /\ (n + 1) - 1 = n /\ n \in taken'
      BY <1>2, <1>3
    <2> HIDE DEF missing, card
    <2> QED
      BY <1>2, <1>6, <1>7, <2>4, <2>5, <2>6, <2>7, <2>8 DEF MissInv
  <1> QED
    BY <1>8, <1>9

\* MissInv is kept by every step.
LEMMA MissStep == TypeOK /\ TypeOK' /\ AccountInv /\ MissInv /\ [Next]_vars => MissInv'
  <1> SUFFICES ASSUME TypeOK, TypeOK', AccountInv, MissInv, [Next]_vars PROVE MissInv'
    OBVIOUS
  <1>1. CASE ReadFirst \/ NextCarried \/ NextAppended
    BY <1>1, MissOk DEF ReadFirst, NextCarried, NextAppended
  <1>2. torn' \in BOOLEAN /\ read_index' \in Nat /\ read_index \in Nat
    BY DEF TypeOK
  <1>3. CASE ReadNothing \/ NextNothing
    BY <1>2, <1>3, ReadNoneType, MissKept DEF ReadNothing, NextNothing
  <1>4. CASE Attach
    <2>1. /\ taken' = taken /\ prev_valid' = prev_valid /\ torn' = torn
          /\ counters' = counters
      BY <1>4 DEF Attach
    <2>2. read_index <= read_index'
      BY <1>2, <1>4 DEF Attach, AccountInv, FreshStart
    <2> QED
      BY <1>2, <2>1, <2>2, MissKept
  <1>5. CASE UNCHANGED readerVars /\
             counters'.source_frames_missing = counters.source_frames_missing
    <2>1. read_index <= read_index'
      BY <1>2, <1>5 DEF readerVars
    <2> QED
      BY <1>2, <1>5, <2>1, MissKept DEF readerVars
  <1>6. CASE TxEnqueued
    BY <1>5, <1>6, PacketizedBump DEF TxEnqueued, Finish
  <1>7. CASE TxUnsent
    BY <1>5, <1>7, UnsentBump DEF TxUnsent, Finish
  <1>8. CASE AllocFail
    BY <1>5, <1>8, AllocBump DEF AllocFail
  <1>9. CASE Publish \/ Signal \/ TxDone \/ Stop \/ TakeCarry \/ GoOn \/ ReserveFail
             \/ BuildFirst \/ BatchStop \/ BatchGoOn \/ UNCHANGED vars
    BY <1>5, <1>9 DEF Publish, Signal, TxDone, Stop, TakeCarry, GoOn, ReserveFail,
                      BuildFirst, BatchStop, BatchGoOn, vars
  <1> QED
    BY <1>1, <1>3, <1>4, <1>6, <1>7, <1>8, <1>9 DEF Next, Loop

\* source_frames_missing is exactly what was published between the first and the
\* last frame admitted and not admitted, if no read was torn (try_read() of
\* sender_shm_reader.cpp).
THEOREM Missing == Spec => []MissingIsExact
  <1>1. TypeOK /\ MissInv => MissingIsExact
    <2> SUFFICES ASSUME TypeOK, MissInv, ~torn, taken # {}
                 PROVE  /\ prev_valid = Max(taken) + 1
                        /\ counters.source_frames_missing
                             = Cardinality((Min(taken)..Max(taken)) \ taken)
      BY DEF MissingIsExact
    <2> DEFINE hi == prev_valid - 1
               missing == counters.source_frames_missing
    <2>1. PICK lo \in taken : /\ \A t \in taken : lo <= t
                              /\ missing + Cardinality(taken) = prev_valid - lo
      BY DEF MissInv
    <2>2. /\ hi \in taken /\ (\A t \in taken : t <= hi) /\ IsFiniteSet(taken)
          /\ prev_valid \in Nat /\ missing \in Nat /\ taken \subseteq Nat
      BY CounterTypes DEF MissInv, TypeOK
    <2>3. prev_valid = hi + 1
      BY <2>2
    <2> HIDE DEF hi, missing
    <2>4. Max(taken) = hi
      <3>1. Max(taken) \in taken /\ \A t \in taken : Max(taken) >= t
        BY <2>2 DEF Max
      <3> DEFINE high == Max(taken)
      <3>2. high \in Nat /\ hi \in Nat /\ high >= hi /\ high <= hi
        BY <2>2, <3>1
      <3> HIDE DEF high
      <3>3. high = hi
        BY <3>2
      <3> QED
        BY <3>3 DEF high
    <2>5. Min(taken) = lo
      <3>1. Min(taken) \in taken /\ \A t \in taken : Min(taken) <= t
        BY <2>1 DEF Min
      <3> DEFINE low == Min(taken)
      <3>2. low \in Nat /\ lo \in Nat /\ low >= lo /\ low <= lo
        BY <2>1, <2>2, <3>1
      <3> HIDE DEF low
      <3>3. low = lo
        BY <3>2
      <3> QED
        BY <3>3 DEF low
    <2>6. taken \subseteq lo..hi /\ lo \in Nat /\ hi \in Nat /\ lo <= hi
      BY <2>1, <2>2
    <2>7. Cardinality(lo..hi) = hi - lo + 1 /\ IsFiniteSet(lo..hi)
      BY <2>6, FS_Interval
    <2>8. Cardinality((lo..hi) \ taken) = (hi - lo + 1) - Cardinality(taken)
      <3>1. (lo..hi) \cap taken = taken
        BY <2>6
      <3> QED
        <4>1. Cardinality((lo..hi) \ taken)
                = Cardinality(lo..hi) - Cardinality((lo..hi) \cap taken)
          BY <2>7, FS_Difference
        <4> QED
          BY <2>7, <3>1, <4>1
    <2>9. Cardinality(taken) \in Nat
      BY <2>2, FS_CardinalityType
    <2>10. missing = (hi - lo + 1) - Cardinality(taken)
      BY <2>1, <2>2, <2>3, <2>6, <2>9
    <2> QED
      BY <2>3, <2>4, <2>5, <2>8, <2>10 DEF missing
  <1>2. AccountInv /\ MissInv /\ TypeOK /\ TypeOK' /\ HandInv /\ [Next]_vars
          => AccountInv' /\ MissInv'
    BY AccountStep, MissStep
  <1> QED
    BY <1>1, <1>2, TypeCorrect, Hands, AccountInit, MissInit, PTL DEF Spec
=============================================================================
