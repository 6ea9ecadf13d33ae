--------------------------- MODULE SegmentProofs ---------------------------
(***************************************************************************)
(* Proofs about SegmentLifecycle, for any slot count and any number of     *)
(* lives of the writer.                                                    *)
(***************************************************************************)
EXTENDS SegmentLifecycle, TLAPS

USE SegmentAssumption DEF Inodes
-----------------------------------------------------------------------------
(* Type correctness.  A program that is at work has its file, and a read    *)
(* that copies stays in the mapping.                                        *)

InSlot == rpc \in {"copy", "recheck"} => SlotOf(cursor) \in 0..Slots-1

HasFile ==
  /\ wpc # "off" => wfile \in Inodes
  /\ rpc \notin {"off", "failed"} => rfile \in Inodes

HasRoom == wpc \in {"seq", "index"} => write_index[wfile] < MaxFrames

Typed == TypeOK /\ HasFile /\ HasRoom /\ InSlot

\* A frame number has its slot inside the region.
LEMMA Modulo == \A n \in Nat : n % Slots \in 0..Slots-1
  BY Z3

\* With a good mask the reader indexes inside the region.
LEMMA SlotOfType ==
  ASSUME TypeOK
  PROVE  /\ SlotOf(cursor) \in Nat
         /\ mask = Slots => SlotOf(cursor) \in 0..Slots-1
  <1>1. cursor \in Nat /\ mask \in {0, Slots}
    BY DEF TypeOK
  <1>2. CASE mask = 0
    BY <1>1, <1>2 DEF SlotOf
  <1>3. CASE mask = Slots
    <2>1. cursor % Slots \in 0..Slots-1
      BY <1>1, Z3
    <2> QED
      BY <1>3, <2>1 DEF SlotOf
  <1> QED
    BY <1>1, <1>2, <1>3

\* Typed holds initially.
LEMMA TypedInit == Init => Typed
  <1> SUFFICES ASSUME Init PROVE Typed
    OBVIOUS
  <1>1. TypeOK
    <2>1. 0 \in Lives /\ 0 \in 0..MaxFrames /\ 0 \in 0..MaxLives
      BY DEF Lives
    <2>2. /\ seq \in [Inodes -> [0..Slots-1 -> 0..MaxFrames]]
          /\ bytes \in [Inodes -> [0..Slots-1 -> Lives]]
      BY <2>1 DEF Init
    <2>3. delivered \in [life : Lives, polled : Lives]
      BY <2>1 DEF Init
    <2> QED
      BY <2>1, <2>2, <2>3 DEF Init, TypeOK
  <1>2. HasFile /\ HasRoom /\ InSlot
    BY DEF Init, HasFile, HasRoom, InSlot
  <1> QED
    BY <1>1, <1>2 DEF Typed

\* Typed is kept by the writer.
LEMMA WriterTyped ==
  ASSUME Typed, Writer \/ SeeLine \/ Crash \/ Remove
  PROVE  Typed'
  <1> USE DEF Typed, TypeOK, HasFile, HasRoom, options, readerVars, writerVars, regionVars, fileVars
  <1>0. /\ name \in Int /\ life \in Int /\ Slots \in Int
        /\ UNCHANGED <<options, readerVars>>
    BY DEF Writer, Create, Size, InitStore, InitEnd, StoreBytes, StoreSeq, StoreIndex, Exit, SeeLine, Crash, Remove
  <1>1. InSlot'
    BY <1>0 DEF InSlot, SlotOf
  <1>2. CASE Create
    <2>1. wfile' \in Inodes /\ name' = wfile' /\ life' \in 0..MaxLives
      BY <1>2 DEF Create
    <2>2. UNCHANGED <<sized, slot_count, write_index, seq, bytes, begun, done, todo>>
          /\ wpc' = "created"
      BY <1>2 DEF Create
    <2>3. wfile' \in 0..MaxLives /\ name' \in 0..MaxLives
      BY <2>1
    <2>4. HasFile' /\ HasRoom' /\ line' \in BOOLEAN
      BY <1>0, <1>2, <2>1, <2>2 DEF Create
    <2>5. TypeOK'
      BY <1>0, <2>1, <2>2, <2>3, <2>4
    <2> QED
      BY <1>1, <2>4, <2>5
  <1>3. CASE Size
    <2>1. wfile \in Inodes /\ todo' = InitStores
      BY <1>3 DEF Size
    <2> QED
      BY <1>0, <1>1, <1>3, <2>1 DEF Size
  <1>4. ASSUME NEW x \in InitStores, InitStore(x) PROVE Typed'
    <2>1. wfile \in Inodes
      BY <1>4 DEF InitStore
    <2>2. slot_count' \in [Inodes -> {0, Slots}]
      BY <1>4, <2>1 DEF InitStore
    <2>3. write_index' \in [Inodes -> 0..MaxFrames]
      <3>1. write_index' = [write_index EXCEPT ![wfile] = 0] \/ write_index' = write_index
        BY <1>4 DEF InitStore
      <3>2. 0 \in 0..MaxFrames /\ write_index \in [Inodes -> 0..MaxFrames]
        OBVIOUS
      <3> QED
        BY <2>1, <3>1, <3>2
    <2>4. seq' \in [Inodes -> [0..Slots-1 -> 0..MaxFrames]]
      <3>1. CASE x \in {CountStore, IndexStore}
        BY <1>4, <3>1 DEF InitStore
      <3>2. CASE x \notin {CountStore, IndexStore}
        <4>1. PICK k \in 0..Slots-1 : x = <<"seq", k>>
          BY <1>4, <3>2 DEF InitStores, SeqStore
        <4>2. seq' = [seq EXCEPT ![wfile][k] = 0]
          BY <1>4, <3>2, <4>1 DEF InitStore, ClearSlot
        <4> QED
          BY <2>1, <4>1, <4>2
      <3> QED
        BY <3>1, <3>2
    <2>5. todo' \subseteq InitStores
      BY <1>4 DEF InitStore
    <2> QED
      BY <1>0, <1>1, <1>4, <2>1, <2>2, <2>3, <2>4, <2>5, ZenonT(60) DEF InitStore
  <1>5. CASE InitEnd
    <2>1. wfile \in Inodes /\ done' = [done EXCEPT ![wfile] = life]
      BY <1>5 DEF InitEnd
    <2>2. done' \in [Inodes -> 0..MaxLives] /\ wpc' = "run"
      BY <1>5, <2>1 DEF InitEnd
    <2>3. HasFile' /\ HasRoom'
      BY <1>5, <2>1, <2>2 DEF InitEnd
    <2> QED
      BY <1>0, <1>1, <1>5, <2>2, <2>3, ZenonT(60) DEF InitEnd
  <1>6. CASE StoreBytes
    <2>1. wfile \in Inodes /\ write_index[wfile] \in Nat
      BY <1>6 DEF StoreBytes
    <2>2. Slot \in 0..Slots-1
      BY ONLY <2>1, Modulo DEF Slot
    <2>3. bytes' = [bytes EXCEPT ![wfile][Slot] = life] /\ life \in Lives
      BY <1>6 DEF StoreBytes, Lives
    <2>4. bytes' \in [Inodes -> [0..Slots-1 -> Lives]]
      BY <2>1, <2>2, <2>3
    <2> QED
      BY <1>0, <1>1, <1>6, <2>4, ZenonT(60) DEF StoreBytes
  <1>7. CASE StoreSeq
    <2>1. /\ wfile \in Inodes /\ write_index[wfile] \in Nat
          /\ write_index[wfile] + 1 \in 0..MaxFrames
      BY <1>7, SMTT(60) DEF StoreSeq
    <2>2. Slot \in 0..Slots-1
      BY ONLY <2>1, Modulo DEF Slot
    <2>3. seq' = [seq EXCEPT ![wfile][Slot] = write_index[wfile] + 1]
      BY <1>7 DEF StoreSeq
    <2>4. seq' \in [Inodes -> [0..Slots-1 -> 0..MaxFrames]]
      BY <2>1, <2>2, <2>3
    <2> QED
      BY <1>0, <1>1, <1>7, <2>4, ZenonT(60) DEF StoreSeq
  <1>8. CASE StoreIndex
    <2>1. wfile \in Inodes /\ write_index[wfile] + 1 \in 0..MaxFrames
      BY <1>8 DEF StoreIndex
    <2>2. write_index' = [write_index EXCEPT ![wfile] = write_index[wfile] + 1]
      BY <1>8 DEF StoreIndex
    <2>3. write_index' \in [Inodes -> 0..MaxFrames]
      BY <2>1, <2>2
    <2> QED
      BY <1>0, <1>1, <1>8, <2>3 DEF StoreIndex
  <1>9. CASE Exit
    BY <1>0, <1>1, <1>9, SMTT(60) DEF Exit
  <1>10. CASE Crash
    BY <1>0, <1>1, <1>10 DEF Crash
  <1>11. CASE Remove
    BY <1>0, <1>1, <1>11, SMTT(60) DEF Remove
  <1>12. CASE SeeLine
    <2>1. line' \in BOOLEAN /\ UNCHANGED <<fileVars, writerVars, readerVars, options>>
      BY <1>12 DEF SeeLine
    <2>2. HasFile' /\ HasRoom' /\ TypeOK'
      BY <2>1, SMTT(60)
    <2> QED
      BY <1>1, <2>2
  <1> QED
    BY <1>2, <1>3, <1>4, <1>5, <1>6, <1>7, <1>8, <1>9, <1>10, <1>11, <1>12 DEF Writer

\* A lapped reader never resumes beyond the edge.
LEMMA ResumeAt ==
  ASSUME NEW edge \in Nat, NEW slots \in {0, Slots}
  PROVE  resume_at(edge, slots) \in 0..edge
  BY DEF resume_at

\* Typed is kept by the reader.
LEMMA ReaderTyped ==
  ASSUME Typed, Reader
  PROVE  Typed'
  <1>s. SlotOf(cursor) \in Nat
    BY SlotOfType DEF Typed
  <1> USE DEF Typed, TypeOK, HasFile, HasRoom, options, readerVars, writerVars, regionVars, fileVars
  <1>0. UNCHANGED <<options, line, fileVars, writerVars>>
    BY DEF Reader, Open, Attach, LiveEdge, Stray, Poll, Copy, Recheck, LoadEdge
  <1>1. CASE Open
    BY <1>0, <1>1, SMTT(60) DEF Open, InSlot
  <1>2. CASE Attach
    BY <1>0, <1>2 DEF Attach, InSlot
  <1>3. CASE LiveEdge
    BY <1>0, <1>3, SMTT(60) DEF LiveEdge, InSlot
  <1>4. CASE Stray
    BY <1>0, <1>4, SMTT(60) DEF Stray, InSlot
  <1>5. CASE Poll
    <2>1. SlotOf(cursor) \in 0..Slots-1
      BY <1>5, <1>s DEF Poll
    <2>2. rfile \in Inodes /\ ReadyLife(rfile) \in Lives
      BY <1>5 DEF Poll, ReadyLife, Lives
    <2>3. InSlot'
      BY <1>5, <2>1 DEF Poll, InSlot, SlotOf
    <2> QED
      BY <1>0, <1>5, <2>2, <2>3 DEF Poll
  <1>6. CASE Copy
    <2>1. SlotOf(cursor) \in 0..Slots-1 /\ rfile \in Inodes
      BY <1>6 DEF Copy, InSlot
    <2>2. copied' \in Lives
      BY <1>6, <2>1 DEF Copy
    <2>3. InSlot'
      BY <1>6, <2>1 DEF Copy, InSlot, SlotOf
    <2> QED
      BY <1>0, <1>6, <2>2, <2>3, ZenonT(60) DEF Copy
  <1>7. CASE Recheck
    <2>1. SlotOf(cursor) \in 0..Slots-1 /\ rfile \in Inodes
      BY <1>7 DEF Recheck, InSlot
    <2>2. SlotSeq \in 0..MaxFrames
      BY <2>1 DEF SlotSeq
    <2>3. cursor' \in 0..MaxFrames
      BY <1>7, <2>2 DEF Recheck, want
    <2>4. delivered' \in [life : Lives, polled : Lives]
      BY <1>7 DEF Recheck
    <2>5. rpc' \in {"poll", "lapped"} /\ InSlot'
      BY <1>7 DEF Recheck, InSlot
    <2>6. /\ polled' \in Lives /\ copied' \in Lives
          /\ rfile' = rfile /\ mask' = mask /\ attached' = attached
      BY <1>7 DEF Recheck, Lives
    <2> QED
      BY <1>0, <2>1, <2>3, <2>4, <2>5, <2>6
  <1>8. CASE LoadEdge
    <2>1. rfile \in Inodes
      BY <1>8 DEF LoadEdge
    <2>2. write_index[rfile] \in 0..MaxFrames /\ slot_count[rfile] \in {0, Slots}
      BY <2>1
    <2>3. cursor' \in 0..write_index[rfile]
      <3>1. write_index[rfile] \in Nat
        BY <2>2
      <3>2. resume_at(write_index[rfile], slot_count[rfile]) \in 0..write_index[rfile]
        BY <2>2, <3>1, ResumeAt
      <3> QED
        BY <1>8, <3>2 DEF LoadEdge
    <2>4. cursor' \in 0..MaxFrames
      BY <2>2, <2>3
    <2> QED
      BY <1>0, <1>8, <2>4, ZenonT(60) DEF LoadEdge, InSlot
  <1> QED
    BY <1>1, <1>2, <1>3, <1>4, <1>5, <1>6, <1>7, <1>8 DEF Reader

\* Typed is kept by every step.
LEMMA TypedNext == Typed /\ [Next]_vars => Typed'
  <1> SUFFICES ASSUME Typed, [Next]_vars PROVE Typed'
    OBVIOUS
  <1>1. CASE UNCHANGED vars
    BY <1>1, SMTT(60) DEF vars, options, fileVars, regionVars, writerVars, readerVars, Typed,
                TypeOK, HasFile, HasRoom, InSlot, SlotOf
  <1> QED
    BY <1>1, WriterTyped, ReaderTyped DEF Next

\* Type correctness of the segment, its writer and its reader.
THEOREM TypeCorrect == Spec => []TypeOK
  <1>1. Typed => TypeOK
    BY DEF Typed
  <1> QED
    BY TypedInit, TypedNext, <1>1, PTL DEF Spec
-----------------------------------------------------------------------------
(* The writer: what the stores of an initialisation have done so far, and   *)
(* what a region holds once one is over.                                    *)

Initialising ==
  /\ begun[wfile] = life /\ done[wfile] < life
  /\ CountStore \notin todo => slot_count[wfile] = Slots
  /\ IndexStore \notin todo => write_index[wfile] = 0
  /\ \A k \in 0..Slots-1 : SeqStore(k) \notin todo => seq[wfile][k] = 0

WriterInv ==
  /\ wpc # "off" => name = wfile
  /\ wpc = "created" => begun[wfile] < life
  /\ wpc = "init" => Initialising
  /\ wpc \in {"run", "seq", "index"} => begun[wfile] = life /\ done[wfile] = life
  /\ wpc = "seq" => bytes[wfile][Slot] = life
  /\ wpc = "index" => HalfPublished(wfile)

\* Only the slot after the last published one may be ahead of the edge, by one frame.
SlotBound(i, k) ==
  \/ seq[i][k] <= write_index[i]
  \/ k = (write_index[i] % Slots) /\ seq[i][k] = write_index[i] + 1

RegionOf(i) ==
  /\ done[i] <= begun[i] /\ begun[i] <= life
  /\ begun[i] # 0 => sized[i]
  /\ done[i] # 0 => slot_count[i] = Slots
  /\ \A k \in 0..Slots-1 : bytes[i][k] <= life
  /\ begun[i] = done[i] =>
       \A k \in 0..Slots-1 : /\ SlotBound(i, k)
                             /\ seq[i][k] # 0 => bytes[i][k] = done[i]

RegionInv == \A i \in Inodes : RegionOf(i)

FileInv == WriterInv /\ RegionInv

\* The types of the regions, widened to the natural numbers.
LEMMA Types ==
  ASSUME Typed
  PROVE  /\ life \in Nat /\ name \in Nat /\ Slots \in Nat \ {0}
         /\ sized \in [Inodes -> BOOLEAN] /\ slot_count \in [Inodes -> {0, Slots}]
         /\ write_index \in [Inodes -> Nat] /\ seq \in [Inodes -> [0..Slots-1 -> Nat]]
         /\ bytes \in [Inodes -> [0..Slots-1 -> Nat]]
         /\ begun \in [Inodes -> Nat] /\ done \in [Inodes -> Nat]
         /\ wpc # "off" => wfile \in Inodes
  <1>1. 0..MaxFrames \subseteq Nat /\ 0..MaxLives \subseteq Nat
    OBVIOUS
  <1>2. write_index \in [Inodes -> Nat]
    BY <1>1 DEF Typed, TypeOK
  <1>3. seq \in [Inodes -> [0..Slots-1 -> Nat]]
    <2>1. seq \in [Inodes -> [0..Slots-1 -> 0..MaxFrames]]
      BY DEF Typed, TypeOK
    <2>2. [0..Slots-1 -> 0..MaxFrames] \subseteq [0..Slots-1 -> Nat]
      BY <1>1
    <2> QED
      BY <2>1, <2>2
  <1>4. bytes \in [Inodes -> [0..Slots-1 -> Nat]]
    <2>1. bytes \in [Inodes -> [0..Slots-1 -> Lives]]
      BY DEF Typed, TypeOK
    <2>2. [0..Slots-1 -> Lives] \subseteq [0..Slots-1 -> Nat]
      BY <1>1 DEF Lives
    <2> QED
      BY <2>1, <2>2
  <1>5. begun \in [Inodes -> Nat] /\ done \in [Inodes -> Nat]
    BY <1>1 DEF Typed, TypeOK
  <1>6. life \in Nat /\ name \in Nat /\ Slots \in Nat \ {0}
    BY DEF Typed, TypeOK
  <1>7. sized \in [Inodes -> BOOLEAN] /\ slot_count \in [Inodes -> {0, Slots}]
    BY DEF Typed, TypeOK
  <1>8. wpc # "off" => wfile \in Inodes
    BY DEF Typed, HasFile
  <1> QED
    BY <1>2, <1>3, <1>4, <1>5, <1>6, <1>7, <1>8

\* FileInv holds initially.
LEMMA FileInit == Init => FileInv
  <1> SUFFICES ASSUME Init PROVE FileInv
    OBVIOUS
  <1>1. WriterInv
    BY DEF Init, WriterInv
  <1>2. \A i \in Inodes : RegionOf(i)
    BY DEF Init, RegionOf, SlotBound
  <1> QED
    BY <1>1, <1>2 DEF FileInv, RegionInv

\* FileInv is kept by every step.
LEMMA FileNext == Typed /\ FileInv /\ [Next]_vars => FileInv'
  <1> SUFFICES ASSUME Typed, FileInv, [Next]_vars PROVE FileInv'
    OBVIOUS
  <1>0. /\ life \in Nat /\ name \in Nat /\ Slots \in Nat \ {0}
        /\ sized \in [Inodes -> BOOLEAN] /\ slot_count \in [Inodes -> {0, Slots}]
        /\ write_index \in [Inodes -> Nat] /\ seq \in [Inodes -> [0..Slots-1 -> Nat]]
        /\ bytes \in [Inodes -> [0..Slots-1 -> Nat]]
        /\ begun \in [Inodes -> Nat] /\ done \in [Inodes -> Nat]
        /\ wpc # "off" => wfile \in Inodes
    BY Types
  <1>i. WriterInv /\ \A i \in Inodes : RegionOf(i)
    BY DEF FileInv, RegionInv
  <1> USE DEF regionVars
  <1>1. CASE Create
    <2>1. /\ life' = life + 1 /\ wpc' = "created" /\ name' = wfile'
          /\ UNCHANGED <<sized, slot_count, write_index, seq, bytes, begun, done>>
      BY <1>1 DEF Create
    <2>2. wfile' \in Inodes
      BY <1>0, <1>1, <2>1, TypedNext DEF Typed, HasFile
    <2>3. RegionOf(wfile')
      BY <1>i, <2>2
    <2>4. begun'[wfile'] < life'
      BY <1>0, <2>1, <2>2, <2>3 DEF RegionOf, SlotBound
    <2>5. WriterInv'
      BY <2>1, <2>4 DEF WriterInv
    <2>6. ASSUME NEW i \in Inodes PROVE RegionOf(i)'
      <3>1. RegionOf(i) /\ begun[i] \in Nat
        BY <1>0, <1>i
      <3>2. /\ begun[i] <= life'
            /\ \A k \in 0..Slots-1 : bytes[i][k] <= life'
        <4>1. \A k \in 0..Slots-1 : bytes[i][k] \in Nat
          BY <1>0
        <4>2. life' = life + 1 /\ life \in Nat /\ begun[i] \in Nat
          BY <1>0, <2>1, <3>1
        <4>3. begun[i] <= life /\ \A k \in 0..Slots-1 : bytes[i][k] <= life
          BY <3>1 DEF RegionOf
        <4> QED
          BY ONLY <4>1, <4>2, <4>3
      <3>3. \A k \in 0..Slots-1 : SlotBound(i, k)' = SlotBound(i, k)
        BY <2>1 DEF SlotBound
      <3> QED
        BY <2>1, <3>1, <3>2, <3>3 DEF RegionOf
    <2> QED
      BY <2>5, <2>6 DEF FileInv, RegionInv
  <1>2. CASE Size
    <2>1. /\ wfile \in Inodes /\ name = wfile /\ begun[wfile] < life
          /\ sized' = [sized EXCEPT ![wfile] = TRUE]
          /\ begun' = [begun EXCEPT ![wfile] = life]
          /\ wpc' = "init" /\ todo' = InitStores
          /\ UNCHANGED <<name, life, wfile, slot_count, write_index, seq, bytes, done>>
      BY <1>0, <1>2, <1>i DEF Size, WriterInv
    <2>2. done[wfile] < life
      BY <1>0, <1>i, <2>1 DEF RegionOf, SlotBound
    <2>3. CountStore \in InitStores /\ IndexStore \in InitStores
          /\ \A k \in 0..Slots-1 : SeqStore(k) \in InitStores
      BY DEF InitStores
    <2>4. Initialising'
      BY <1>0, <2>1, <2>2, <2>3 DEF Initialising
    <2>5. ASSUME NEW i \in Inodes PROVE RegionOf(i)'
      <3>1. RegionOf(i)
        BY <1>i
      <3>2. CASE i = wfile
        <4>0. done[i] \in Nat /\ life \in Nat
          BY <1>0
        <4>1. begun'[i] = life /\ sized'[i] /\ done[i] < life
          BY <1>0, <2>1, <2>2, <3>2
        <4>2. done[i] # life /\ done[i] <= life /\ life <= life
          <5>1. done[i] < life
            BY <4>1
          <5> QED
            BY ONLY <4>0, <5>1
        <4> QED
          BY <2>1, <3>1, <4>1, <4>2 DEF RegionOf
      <3>3. CASE i # wfile
        <4>1. begun'[i] = begun[i] /\ sized'[i] = sized[i]
          BY <1>0, <2>1, <3>3
        <4>2. \A k \in 0..Slots-1 : SlotBound(i, k)' = SlotBound(i, k)
          BY <2>1 DEF SlotBound
        <4> QED
          BY <2>1, <3>1, <4>1, <4>2 DEF RegionOf
      <3> QED
        BY <3>2, <3>3
    <2> QED
      BY <2>1, <2>4, <2>5 DEF FileInv, RegionInv, WriterInv
  <1>3. ASSUME NEW x \in InitStores, InitStore(x) PROVE FileInv'
    <2>1. /\ wpc = "init" /\ wfile \in Inodes /\ Initialising /\ name = wfile
          /\ todo' = todo \ {x}
          /\ UNCHANGED <<name, life, wpc, wfile, sized, bytes, begun, done>>
      BY <1>0, <1>3, <1>i DEF InitStore, WriterInv
    <2>2. /\ slot_count' = IF x = CountStore THEN [slot_count EXCEPT ![wfile] = Slots]
                                             ELSE slot_count
          /\ write_index' = IF x = IndexStore THEN [write_index EXCEPT ![wfile] = 0]
                                              ELSE write_index
      BY <1>3 DEF InitStore
    <2>3. /\ \A i \in Inodes : i # wfile => seq'[i] = seq[i]
          /\ \A k \in 0..Slots-1 :
               seq'[wfile][k] = IF x = SeqStore(k) THEN 0 ELSE seq[wfile][k]
      <3>1. CASE x \in {CountStore, IndexStore}
        <4>1. \A k \in 0..Slots-1 : x # SeqStore(k)
          BY <3>1 DEF CountStore, IndexStore, SeqStore
        <4>2. seq' = seq
          BY <1>3, <3>1 DEF InitStore
        <4> QED
          BY <4>1, <4>2
      <3>2. CASE x \notin {CountStore, IndexStore}
        <4>1. PICK j \in 0..Slots-1 : x = <<"seq", j>>
          BY <1>3, <3>2 DEF InitStores, SeqStore
        <4>2. seq' = [seq EXCEPT ![wfile][j] = 0]
          BY <1>3, <3>2, <4>1 DEF InitStore, ClearSlot
        <4>3. \A k \in 0..Slots-1 : x = SeqStore(k) <=> k = j
          BY <4>1 DEF SeqStore
        <4> QED
          BY <1>0, <2>1, <4>2, <4>3
      <3> QED
        BY <3>1, <3>2
    <2>4. Initialising'
      <3>1. begun'[wfile'] = life' /\ done'[wfile'] < life'
        BY <2>1 DEF Initialising
      <3>2. CountStore \notin todo' => slot_count'[wfile'] = Slots
        BY <1>0, <2>1, <2>2 DEF Initialising
      <3>3. IndexStore \notin todo' => write_index'[wfile'] = 0
        BY <1>0, <2>1, <2>2 DEF Initialising
      <3>4. \A k \in 0..Slots-1 : SeqStore(k) \notin todo' => seq'[wfile'][k] = 0
        BY <2>1, <2>3 DEF Initialising
      <3> QED
        BY <3>1, <3>2, <3>3, <3>4 DEF Initialising
    <2>5. ASSUME NEW i \in Inodes PROVE RegionOf(i)'
      <3>1. RegionOf(i)
        BY <1>i
      <3>2. slot_count'[i] = slot_count[i] \/ slot_count'[i] = Slots
        BY <1>0, <2>1, <2>2
      <3>3. CASE i = wfile
        <4>1. begun[i] # done[i]
          BY <1>0, <2>1, <3>3 DEF Initialising
        <4> QED
          BY <2>1, <3>1, <3>2, <4>1 DEF RegionOf, SlotBound
      <3>4. CASE i # wfile
        <4>1. seq'[i] = seq[i] /\ write_index'[i] = write_index[i]
          BY <1>0, <2>1, <2>2, <2>3, <3>4
        <4> QED
          BY <2>1, <3>1, <3>2, <4>1 DEF RegionOf, SlotBound
      <3> QED
        BY <3>3, <3>4
    <2> QED
      BY <2>1, <2>4, <2>5 DEF FileInv, RegionInv, WriterInv
  <1>4. CASE InitEnd
    <2>1. /\ wpc = "init" /\ wfile \in Inodes /\ Initialising /\ name = wfile /\ todo = {}
          /\ done' = [done EXCEPT ![wfile] = life] /\ wpc' = "run"
          /\ UNCHANGED <<name, life, wfile, sized, slot_count, write_index, seq, bytes, begun>>
      BY <1>0, <1>4, <1>i DEF InitEnd, WriterInv
    <2>2. /\ slot_count[wfile] = Slots /\ begun[wfile] = life
          /\ \A k \in 0..Slots-1 : seq[wfile][k] = 0
      BY <2>1 DEF Initialising
    <2>3. ASSUME NEW i \in Inodes PROVE RegionOf(i)'
      <3>1. RegionOf(i)
        BY <1>i
      <3>2. CASE i = wfile
        BY <1>0, <2>1, <2>2, <3>1, <3>2, SMTT(60) DEF RegionOf, SlotBound
      <3>3. CASE i # wfile
        BY <1>0, <2>1, <3>1, <3>3 DEF RegionOf, SlotBound
      <3> QED
        BY <3>2, <3>3
    <2>4. begun'[wfile'] = life' /\ done'[wfile'] = life'
      BY <1>0, <2>1, <2>2
    <2> QED
      BY <2>1, <2>3, <2>4 DEF FileInv, RegionInv, WriterInv
  <1>5. CASE StoreBytes
    <2>1. /\ wpc = "run" /\ wpc' = "seq" /\ wfile \in Inodes /\ name = wfile
          /\ begun[wfile] = life /\ done[wfile] = life
          /\ bytes' = [bytes EXCEPT ![wfile][Slot] = life]
          /\ UNCHANGED <<name, life, wfile, sized, slot_count, write_index, seq, begun, done>>
      BY <1>0, <1>5, <1>i DEF StoreBytes, WriterInv
    <2>2. Slot \in 0..Slots-1 /\ Slot' = Slot
      BY <1>0, <2>1, Modulo DEF Slot
    <2>3. ASSUME NEW i \in Inodes, NEW k \in 0..Slots-1
          PROVE  bytes'[i][k] = bytes[i][k] \/ (i = wfile /\ bytes'[i][k] = life)
      BY <1>0, <2>1, <2>2
    <2>4. bytes'[wfile][Slot] = life
      BY <1>0, <2>1, <2>2
    <2>5. ASSUME NEW i \in Inodes PROVE RegionOf(i)'
      <3>1. RegionOf(i)
        BY <1>i
      <3>2. ASSUME NEW k \in 0..Slots-1, bytes[i][k] <= life PROVE bytes'[i][k] <= life
        BY <1>0, <2>3, <3>2
      <3>3. ASSUME NEW k \in 0..Slots-1, begun[i] = done[i],
                   seq[i][k] # 0 => bytes[i][k] = done[i]
            PROVE  seq[i][k] # 0 => bytes'[i][k] = done[i]
        BY <2>1, <2>3, <3>3
      <3> QED
        BY <2>1, <3>1, <3>2, <3>3 DEF RegionOf, SlotBound
    <2>6. WriterInv'
      BY <2>1, <2>2, <2>4 DEF WriterInv
    <2> QED
      BY <2>5, <2>6 DEF FileInv, RegionInv
  <1>6. CASE StoreSeq
    <2>1. /\ wpc = "seq" /\ wpc' = "index" /\ wfile \in Inodes /\ name = wfile
          /\ begun[wfile] = life /\ done[wfile] = life /\ bytes[wfile][Slot] = life
          /\ seq' = [seq EXCEPT ![wfile][Slot] = write_index[wfile] + 1]
          /\ UNCHANGED <<name, life, wfile, sized, slot_count, write_index, bytes, begun, done>>
      BY <1>0, <1>6, <1>i DEF StoreSeq, WriterInv
    <2>2. Slot \in 0..Slots-1
      BY <1>0, <2>1, Modulo DEF Slot
    <2>3. ASSUME NEW i \in Inodes, NEW k \in 0..Slots-1
          PROVE  \/ seq'[i][k] = seq[i][k]
                 \/ i = wfile /\ k = Slot /\ seq'[i][k] = write_index[i] + 1
      BY <1>0, <2>1, <2>2
    <2>4. seq'[wfile][Slot] = write_index[wfile] + 1
      BY <1>0, <2>1, <2>2
    <2>5. ASSUME NEW i \in Inodes PROVE RegionOf(i)'
      <3>1. RegionOf(i)
        BY <1>i
      <3>2. CASE i = wfile
        <4>1. ASSUME NEW k \in 0..Slots-1
              PROVE  SlotBound(i, k)' /\ (seq'[i][k] # 0 => bytes[i][k] = life)
          <5>1. CASE seq'[i][k] = seq[i][k]
            BY <2>1, <3>1, <3>2, <5>1 DEF RegionOf, SlotBound
          <5>2. CASE k = Slot /\ seq'[i][k] = write_index[i] + 1
            BY <2>1, <3>2, <5>2 DEF SlotBound, Slot
          <5> QED
            BY <2>3, <5>1, <5>2
        <4> QED
          BY <2>1, <3>1, <3>2, <4>1 DEF RegionOf
      <3>3. CASE i # wfile
        <4>1. seq'[i] = seq[i]
          BY <1>0, <2>1, <3>3
        <4> QED
          BY <2>1, <3>1, <4>1 DEF RegionOf, SlotBound
      <3> QED
        BY <3>2, <3>3
    <2>6. HalfPublished(wfile)'
      BY <2>1, <2>4 DEF HalfPublished, Slot
    <2> QED
      BY <2>1, <2>5, <2>6 DEF FileInv, RegionInv, WriterInv
  <1>7. CASE StoreIndex
    <2>1. /\ wpc = "index" /\ wpc' = "run" /\ wfile \in Inodes /\ name = wfile
          /\ begun[wfile] = life /\ done[wfile] = life
          /\ write_index' = [write_index EXCEPT ![wfile] = write_index[wfile] + 1]
          /\ UNCHANGED <<name, life, wfile, sized, slot_count, seq, bytes, begun, done>>
      BY <1>0, <1>7, <1>i DEF StoreIndex, WriterInv
    <2>2. ASSUME NEW i \in Inodes PROVE RegionOf(i)'
      <3>1. RegionOf(i)
        BY <1>i
      <3>2. CASE i = wfile
        <4>1. write_index[i] \in Nat /\ write_index'[i] = write_index[i] + 1
          BY <1>0, <2>1, <3>2
        <4>2. ASSUME NEW k \in 0..Slots-1, SlotBound(i, k) PROVE SlotBound(i, k)'
          <5>1. seq'[i][k] \in Nat /\ seq'[i][k] = seq[i][k]
            BY <1>0, <2>1
          <5>2. seq'[i][k] <= write_index'[i]
            BY <4>1, <4>2, <5>1 DEF SlotBound
          <5> QED
            BY <5>2 DEF SlotBound
        <4> QED
          BY <2>1, <3>1, <3>2, <4>2 DEF RegionOf
      <3>3. CASE i # wfile
        <4>1. write_index'[i] = write_index[i]
          BY <1>0, <2>1, <3>3
        <4> QED
          BY <2>1, <3>1, <4>1 DEF RegionOf, SlotBound
      <3> QED
        BY <3>2, <3>3
    <2> QED
      BY <2>1, <2>2 DEF FileInv, RegionInv, WriterInv
  <1>8. CASE Exit \/ Crash \/ Remove
    <2>1. /\ wpc' = "off"
          /\ UNCHANGED <<life, sized, slot_count, write_index, seq, bytes, begun, done>>
      BY <1>8 DEF Exit, Crash, Remove, fileVars, writerVars
    <2> QED
      BY <1>i, <2>1 DEF FileInv, RegionInv, WriterInv, RegionOf, SlotBound
  <1>9. CASE UNCHANGED <<fileVars, writerVars>>
    BY <1>9, <1>i DEF fileVars, writerVars, FileInv, RegionInv, WriterInv, RegionOf, SlotBound,
                      Initialising, HalfPublished, Slot
  <1>10. SeeLine \/ Reader \/ UNCHANGED vars => UNCHANGED <<fileVars, writerVars>>
    BY DEF SeeLine, Reader, Open, Attach, LiveEdge, Stray, Poll, Copy, Recheck, LoadEdge, vars
  <1> QED
    BY <1>1, <1>2, <1>3, <1>4, <1>5, <1>6, <1>7, <1>8, <1>9, <1>10 DEF Next, Writer
-----------------------------------------------------------------------------
(* The reader, under any writer.                                            *)

ReaderInv ==
  /\ rpc \in {"off", "failed"} <=> rfile = 0
  /\ rpc \in {"off", "failed", "attach"} => cursor = 0 /\ attached = 0
  /\ rpc = "copy" => polled <= bytes[rfile][SlotOf(cursor)]
  /\ rpc = "recheck" => polled <= copied
  /\ attached # 0 => mask = Slots
  /\ rfile # 0 => attached <= done[rfile]

ReadInv == ReaderInv /\ OnlyThisLife /\ InBounds /\ AheadOnlyIfOutlived

\* The end of a log is its edge or one frame beyond.
LEMMA LogEndType ==
  ASSUME Typed, NEW i \in Inodes
  PROVE  LogEnd(i) \in Nat /\ write_index[i] \in Nat /\ write_index[i] <= LogEnd(i)
  <1>1. write_index[i] \in Nat
    BY Types
  <1> QED
    BY <1>1 DEF LogEnd

\* In an initialised region no slot is ahead of the end of the log.
LEMMA SlotsBehindEnd ==
  ASSUME Typed, NEW i \in Inodes, NEW k \in 0..Slots-1, RegionOf(i), begun[i] = done[i]
  PROVE  seq[i][k] <= LogEnd(i)
  <1>1. write_index[i] \in Nat /\ seq[i][k] \in Nat
    BY Types
  <1>2. SlotBound(i, k)
    BY DEF RegionOf
  <1>3. CASE seq[i][k] <= write_index[i]
    BY <1>1, <1>3 DEF LogEnd
  <1>4. CASE k = (write_index[i] % Slots) /\ seq[i][k] = write_index[i] + 1
    BY <1>1, <1>4 DEF LogEnd, HalfPublished
  <1> QED
    BY <1>2, <1>3, <1>4 DEF SlotBound

\* ReadInv holds initially.
LEMMA ReadInit == Init => ReadInv
  BY DEF Init, ReadInv, ReaderInv, OnlyThisLife, InBounds, AheadOnlyIfOutlived

\* No step of the writer makes a log shorter, unless it is initialising it.
LEMMA LogGrows ==
  ASSUME Typed, FileInv, Writer \/ SeeLine \/ Crash \/ Remove, NEW i \in Inodes
  PROVE  LogEnd(i)' >= LogEnd(i) \/ done[i] < begun[i]
  <1>0. /\ write_index \in [Inodes -> Nat] /\ seq \in [Inodes -> [0..Slots-1 -> Nat]]
        /\ wpc # "off" => wfile \in Inodes
    BY Types
  <1>i. WriterInv
    BY DEF FileInv
  <1>n. LogEnd(i) \in Nat /\ write_index[i] \in Nat /\ write_index[i] <= LogEnd(i)
    BY LogEndType
  <1>1. CASE write_index'[i] = write_index[i] /\ seq'[i] = seq[i]
    <2>1. LogEnd(i)' = LogEnd(i)
      BY <1>1 DEF LogEnd, HalfPublished
    <2> QED
      BY <1>n, <2>1
  <1>2. CASE StoreSeq /\ i = wfile
    <2>1. write_index[i] % Slots \in 0..Slots-1
      BY <1>n, Modulo
    <2>2. write_index' = write_index /\ seq'[i][write_index[i] % Slots] = write_index[i] + 1
      BY <1>0, <1>2, <2>1 DEF StoreSeq, Slot
    <2>3. LogEnd(i)' = write_index[i] + 1
      BY <2>2 DEF LogEnd, HalfPublished
    <2> QED
      BY <1>n, <2>3 DEF LogEnd
  <1>3. CASE StoreIndex /\ i = wfile
    <2>1. HalfPublished(i)
      BY <1>i, <1>3 DEF WriterInv, StoreIndex
    <2>2. write_index'[i] = write_index[i] + 1
      BY <1>0, <1>3 DEF StoreIndex
    <2>3. LogEnd(i)' = write_index'[i] \/ LogEnd(i)' = write_index'[i] + 1
      BY DEF LogEnd
    <2> QED
      BY <1>n, <2>1, <2>2, <2>3 DEF LogEnd
  <1>4. ASSUME NEW x \in InitStores, InitStore(x), i = wfile
        PROVE  done[i] < begun[i]
    BY <1>i, <1>4 DEF InitStore, WriterInv, Initialising
  <1>5. ASSUME NEW x \in InitStores, InitStore(x), i # wfile
        PROVE  write_index'[i] = write_index[i] /\ seq'[i] = seq[i]
    BY <1>0, <1>5 DEF InitStore, ClearSlot
  <1>6. CASE (StoreSeq \/ StoreIndex) /\ i # wfile
    <2>1. write_index'[i] = write_index[i] /\ seq'[i] = seq[i]
      BY <1>0, <1>6 DEF StoreSeq, StoreIndex
    <2> QED
      BY <1>1, <2>1
  <1>7. CASE ~StoreSeq /\ ~StoreIndex /\ ~(\E x \in InitStores : InitStore(x))
    <2>1. write_index' = write_index /\ seq' = seq
      BY <1>7 DEF Writer, Create, Size, InitEnd, StoreBytes, Exit, SeeLine, Crash, Remove,
                  regionVars, fileVars
    <2> QED
      BY <1>1, <2>1
  <1> QED
    BY <1>1, <1>2, <1>3, <1>4, <1>5, <1>6, <1>7

\* ReadInv is kept by the writer, wherever the reader is.
LEMMA WriterKeepsRead ==
  ASSUME Typed, FileInv, ReadInv, Writer \/ SeeLine \/ Crash \/ Remove
  PROVE  ReadInv'
  <1>0. /\ life \in Nat /\ name \in Nat /\ Slots \in Nat \ {0}
        /\ sized \in [Inodes -> BOOLEAN] /\ slot_count \in [Inodes -> {0, Slots}]
        /\ write_index \in [Inodes -> Nat] /\ seq \in [Inodes -> [0..Slots-1 -> Nat]]
        /\ bytes \in [Inodes -> [0..Slots-1 -> Nat]]
        /\ begun \in [Inodes -> Nat] /\ done \in [Inodes -> Nat]
        /\ wpc # "off" => wfile \in Inodes
    BY Types
  <1>n. \A i \in Inodes : begun[i] \in Nat /\ done[i] \in Nat /\ write_index[i] \in Nat
    BY <1>0
  <1>i. WriterInv /\ \A i \in Inodes : RegionOf(i)
    BY DEF FileInv, RegionInv
  <1>r. /\ polled \in Nat /\ cursor \in Nat /\ attached \in Nat /\ rfile \in Nat
        /\ rfile # 0 => rfile \in Inodes
        /\ rpc = "copy" => rfile \in Inodes /\ SlotOf(cursor) \in 0..Slots-1
    BY DEF Typed, TypeOK, HasFile, InSlot, Lives
  <1>u. UNCHANGED readerVars
    BY DEF Writer, Create, Size, InitStore, InitEnd, StoreBytes, StoreSeq, StoreIndex, Exit, SeeLine, Crash, Remove
  <1>1. \A i \in Inodes, k \in 0..Slots-1 : bytes'[i][k] >= bytes[i][k]
    <2>1. CASE StoreBytes
      <3>1. /\ wfile \in Inodes /\ write_index[wfile] \in Nat
            /\ bytes' = [bytes EXCEPT ![wfile][Slot] = life]
        BY <1>0, <2>1 DEF StoreBytes
      <3>2. Slot \in 0..Slots-1
        BY <3>1, Modulo DEF Slot
      <3>3. ASSUME NEW i \in Inodes, NEW k \in 0..Slots-1
            PROVE  bytes'[i][k] >= bytes[i][k]
        <4>1. bytes[i][k] <= life
          BY ONLY <1>i, <3>3 DEF RegionOf
        <4>2. bytes[i][k] \in Nat
          BY ONLY <1>0, <3>3
        <4>3. bytes'[i][k] = life \/ bytes'[i][k] = bytes[i][k]
          BY <1>0, <3>1, <3>2
        <4>4. life \in Nat
          BY <1>0
        <4> QED
          BY ONLY <4>1, <4>2, <4>3, <4>4
      <3> QED
        BY <3>3
    <2>2. CASE ~StoreBytes
      <3>1. bytes' = bytes
        BY <2>2 DEF Writer, Create, Size, InitStore, InitEnd, StoreSeq, StoreIndex, Exit,
                    SeeLine, Crash, Remove, regionVars, fileVars
      <3>2. ASSUME NEW i \in Inodes, NEW k \in 0..Slots-1
            PROVE  bytes'[i][k] >= bytes[i][k]
        <4>1. bytes'[i][k] = bytes[i][k] /\ bytes[i][k] \in Nat
          BY <1>0, <3>1
        <4> QED
          BY <4>1
      <3> QED
        BY <3>2
    <2> QED
      BY <2>1, <2>2
  <1>2. \A i \in Inodes : done'[i] >= done[i] /\ begun'[i] >= begun[i]
    <2>1. CASE Size
      <3>1. /\ wfile \in Inodes /\ begun[wfile] < life
            /\ begun' = [begun EXCEPT ![wfile] = life] /\ done' = done
        BY <1>0, <1>i, <2>1 DEF Size, WriterInv
      <3>2. ASSUME NEW i \in Inodes
            PROVE  done'[i] >= done[i] /\ begun'[i] >= begun[i]
        <4>1. begun[i] \in Nat /\ done[i] \in Nat /\ write_index[i] \in Nat
          BY <1>n
        <4>2. CASE i = wfile
          <5>1. done'[i] = done[i] /\ begun'[i] = life /\ begun[i] < life
            BY <1>0, <3>1, <4>2
          <5>2. life \in Nat
            BY <1>0
          <5> QED
            BY <4>1, <5>1, <5>2
        <4>3. CASE i # wfile
          <5>1. done'[i] = done[i] /\ begun'[i] = begun[i]
            BY <1>0, <3>1, <4>3
          <5> QED
            BY <4>1, <5>1
        <4> QED
          BY <4>2, <4>3
      <3> QED
        BY <3>2
    <2>2. CASE InitEnd
      <3>1. /\ wfile \in Inodes /\ done[wfile] < life
            /\ done' = [done EXCEPT ![wfile] = life] /\ begun' = begun
        BY <1>0, <1>i, <2>2 DEF InitEnd, WriterInv, Initialising
      <3>2. ASSUME NEW i \in Inodes
            PROVE  done'[i] >= done[i] /\ begun'[i] >= begun[i]
        <4>1. begun[i] \in Nat /\ done[i] \in Nat /\ write_index[i] \in Nat
          BY <1>n
        <4>2. CASE i = wfile
          <5>1. done'[i] = life /\ begun'[i] = begun[i] /\ done[i] < life
            BY <1>0, <3>1, <4>2
          <5>2. life \in Nat
            BY <1>0
          <5> QED
            BY <4>1, <5>1, <5>2
        <4>3. CASE i # wfile
          <5>1. done'[i] = done[i] /\ begun'[i] = begun[i]
            BY <1>0, <3>1, <4>3
          <5> QED
            BY <4>1, <5>1
        <4> QED
          BY <4>2, <4>3
      <3> QED
        BY <3>2
    <2>3. CASE ~Size /\ ~InitEnd
      <3>1. done' = done /\ begun' = begun
        BY <2>3 DEF Writer, Create, InitStore, StoreBytes, StoreSeq, StoreIndex, Exit, SeeLine, Crash, Remove, fileVars
      <3> QED
        BY <1>n, <3>1
    <2> QED
      BY <2>1, <2>2, <2>3
  <1>3. \A i \in Inodes : LogEnd(i)' >= LogEnd(i) \/ done[i] < begun[i]
    BY LogGrows
  <1>4. SlotOf(cursor)' = SlotOf(cursor)
    BY <1>u DEF readerVars, SlotOf
  <1>5. rpc = "copy" => polled <= bytes'[rfile][SlotOf(cursor)]
    <2>1. SUFFICES ASSUME rpc = "copy" PROVE polled <= bytes'[rfile][SlotOf(cursor)]
      OBVIOUS
    <2>2. /\ bytes[rfile][SlotOf(cursor)] \in Nat
          /\ bytes[rfile][SlotOf(cursor)] >= polled
          /\ bytes'[rfile][SlotOf(cursor)] >= bytes[rfile][SlotOf(cursor)]
      BY <1>0, <1>1, <1>r, <2>1, ZenonT(60) DEF ReadInv, ReaderInv
    <2>3. bytes'[rfile][SlotOf(cursor)] \in Nat
      <3>1. Typed'
        BY WriterTyped
      <3>2. bytes' \in [Inodes -> [0..Slots-1 -> Lives]]
        BY <3>1 DEF Typed, TypeOK
      <3> QED
        BY <1>r, <2>1, <3>2 DEF Lives
    <2> QED
      BY <1>r, <2>2, <2>3
  <1>6. Typed'
    BY WriterTyped
  <1>7. done' \in [Inodes -> Nat] /\ begun' \in [Inodes -> Nat] /\ write_index' \in [Inodes -> Nat]
    <2>1. 0..MaxFrames \subseteq Nat /\ 0..MaxLives \subseteq Nat
      OBVIOUS
    <2>2. /\ done' \in [Inodes -> 0..MaxLives] /\ begun' \in [Inodes -> 0..MaxLives]
          /\ write_index' \in [Inodes -> 0..MaxFrames]
      BY <1>6 DEF Typed, TypeOK
    <2> QED
      BY <2>1, <2>2
  <1>8. rfile # 0 => attached <= done'[rfile]
    BY <1>0, <1>2, <1>7, <1>r, SMTT(60) DEF ReadInv, ReaderInv
  <1>9. ReaderInv'
    BY <1>u, <1>4, <1>5, <1>8 DEF readerVars, ReadInv, ReaderInv
  <1>10. AheadOnlyIfOutlived'
    <2>1. SUFFICES ASSUME rfile # 0, cursor > LogEnd(rfile)'
                   PROVE  attached < begun'[rfile]
      BY <1>u DEF readerVars, AheadOnlyIfOutlived
    <2>2. PICK i \in Inodes : i = rfile
      BY <1>r, <2>1
    <2>3. LogEnd(rfile)' = LogEnd(i)'
      BY <1>u, <2>2 DEF readerVars, LogEnd, HalfPublished
    <2>4. /\ attached <= done[i]
          /\ cursor > LogEnd(i) => attached < begun[i]
      BY <2>1, <2>2 DEF ReadInv, ReaderInv, AheadOnlyIfOutlived
    <2>5. /\ LogEnd(i)' >= LogEnd(i) \/ done[i] < begun[i]
          /\ begun'[i] >= begun[i]
      BY <1>2, <1>3
    <2>6. LogEnd(i) \in Nat
      BY LogEndType
    <2>7. LogEnd(i)' \in Nat
      <3>1. write_index'[i] \in Nat
        BY <1>7
      <3> QED
        BY <3>1 DEF LogEnd
    <2>8. done[i] \in Nat /\ begun[i] \in Nat /\ begun'[i] \in Nat
      BY <1>0, <1>7
    <2> QED
      BY <1>r, <2>1, <2>2, <2>3, <2>4, <2>5, <2>6, <2>7, <2>8
  <1> QED
    BY <1>u, <1>9, <1>10 DEF readerVars, ReadInv, OnlyThisLife, InBounds

\* ReadInv is kept by the reader.
LEMMA ReaderKeepsRead ==
  ASSUME Typed, FileInv, ReadInv, Reader
  PROVE  ReadInv'
  <1>0. /\ slot_count \in [Inodes -> {0, Slots}] /\ name \in Nat
        /\ write_index \in [Inodes -> Nat] /\ seq \in [Inodes -> [0..Slots-1 -> Nat]]
        /\ bytes \in [Inodes -> [0..Slots-1 -> Nat]]
        /\ begun \in [Inodes -> Nat] /\ done \in [Inodes -> Nat]
    BY Types
  <1>i. \A i \in Inodes : RegionOf(i)
    BY DEF FileInv, RegionInv
  <1>r. /\ polled \in Nat /\ cursor \in Nat /\ attached \in Nat /\ rfile \in Nat
        /\ rpc \notin {"off", "failed"} => rfile \in Inodes
        /\ rpc \in {"copy", "recheck"} => SlotOf(cursor) \in 0..Slots-1
        /\ mask \in {0, Slots}
    BY DEF Typed, TypeOK, HasFile, InSlot, Lives
  <1>u. UNCHANGED fileVars
    BY DEF Reader, Open, Attach, LiveEdge, Stray, Poll, Copy, Recheck, LoadEdge
  <1>v. /\ UNCHANGED <<slot_count, write_index, seq, bytes, begun, done>>
        /\ rfile' = rfile => LogEnd(rfile)' = LogEnd(rfile)
    BY <1>u DEF fileVars, regionVars, LogEnd, HalfPublished
  <1>e. \A i \in Inodes : LogEnd(i) \in Nat /\ write_index[i] <= LogEnd(i)
    BY LogEndType
  <1> USE DEF ReadInv, ReaderInv, OnlyThisLife, InBounds, AheadOnlyIfOutlived
  <1>1. CASE Open
    <2>1. /\ rpc = "off" /\ rfile' = name /\ rpc' = IF name = 0 THEN "failed" ELSE "attach"
          /\ cursor' = cursor /\ attached' = attached /\ delivered' = delivered
      BY <1>1 DEF Open
    <2>2. cursor' = 0 /\ attached' = 0 /\ (rpc' \in {"off", "failed"} <=> rfile' = 0)
      BY <2>1
    <2>3. rfile' # 0 => rfile' \in Inodes
      BY <2>1 DEF Typed, TypeOK
    <2>4. rfile' # 0 => attached' <= done[rfile'] /\ ~(cursor' > LogEnd(rfile'))
      BY <1>0, <1>e, <2>2, <2>3, SMTT(60)
    <2>5. LogEnd(rfile)' = LogEnd(rfile') \/ rfile' = 0
      BY <1>v, <2>3 DEF LogEnd, HalfPublished
    <2> QED
      BY <1>v, <2>1, <2>2, <2>4, <2>5
  <1>2. CASE Attach
    <2>1. /\ rpc = "attach" /\ mask' = slot_count[rfile] /\ attached' = done[rfile]
          /\ rpc' \in {"dead", "edge", "poll"}
          /\ rfile' = rfile /\ cursor' = cursor /\ delivered' = delivered
      BY <1>2 DEF Attach
    <2>2. rfile \in Inodes /\ rfile # 0 /\ cursor' = 0
      BY <1>r, <2>1
    <2>3. attached' # 0 => mask' = Slots
      BY <1>i, <2>1, <2>2 DEF RegionOf
    <2>4. attached' <= done[rfile] /\ ~(cursor' > LogEnd(rfile))
      <3>1. done[rfile] \in Nat /\ LogEnd(rfile) \in Nat
        BY <1>0, <1>e, <2>2
      <3> QED
        BY <2>1, <2>2, <3>1
    <2> QED
      BY <1>v, <2>1, <2>2, <2>3, <2>4
  <1>3. CASE LiveEdge
    <2>1. /\ rpc = "edge" /\ cursor' = write_index[rfile] /\ rpc' = "poll"
          /\ UNCHANGED <<rfile, mask, attached, delivered>>
      BY <1>3 DEF LiveEdge
    <2>2. rfile \in Inodes /\ rfile # 0 /\ ~(cursor' > LogEnd(rfile))
      BY <1>0, <1>e, <1>r, <2>1
    <2> QED
      BY <1>v, <2>1, <2>2
  <1>4. CASE Stray
    <2>1. /\ rpc = "poll" /\ SlotOf(cursor) >= Slots /\ rpc' = "stray"
          /\ UNCHANGED <<rfile, mask, cursor, attached, delivered>>
      BY <1>4 DEF Stray
    <2>2. mask # Slots
      <3>1. mask = Slots => SlotOf(cursor) \in 0..Slots-1
        BY SlotOfType DEF Typed
      <3> QED
        BY <2>1, <3>1
    <2> QED
      BY <1>v, <2>1, <2>2
  <1>5. CASE Poll
    <2>1. /\ rpc = "poll" /\ SlotOf(cursor) < Slots /\ SlotSeq >= want
          /\ \/ rpc' = "copy" /\ polled' = ReadyLife(rfile)
             \/ rpc' = "lapped"
          /\ UNCHANGED <<rfile, mask, cursor, attached, delivered>>
      BY <1>5 DEF Poll
    <2>2. rfile \in Inodes /\ SlotOf(cursor) \in 0..Slots-1
      BY <1>r, <2>1, SlotOfType DEF Typed
    <2>3. polled' = ReadyLife(rfile) => polled' <= bytes[rfile][SlotOf(cursor)]
      <3>1. CASE begun[rfile] = done[rfile]
        <4>1. seq[rfile][SlotOf(cursor)] # 0
          BY <1>r, <2>1 DEF SlotSeq, want
        <4>2. bytes[rfile][SlotOf(cursor)] = done[rfile]
          BY <1>i, <2>2, <3>1, <4>1 DEF RegionOf
        <4>3. done[rfile] \in Nat
          BY <1>0, <2>2
        <4> QED
          BY <3>1, <4>2, <4>3 DEF ReadyLife
      <3>2. CASE begun[rfile] # done[rfile]
        <4>1. bytes[rfile][SlotOf(cursor)] \in Nat
          BY <1>0, <2>2, ZenonT(60)
        <4> QED
          BY <3>2, <4>1 DEF ReadyLife
      <3> QED
        BY <3>1, <3>2
    <2>4. SlotOf(cursor)' = SlotOf(cursor)
      BY <2>1 DEF SlotOf
    <2> QED
      BY <1>v, <2>1, <2>3, <2>4
  <1>6. CASE Copy
    <2>1. /\ rpc = "copy" /\ copied' = bytes[rfile][SlotOf(cursor)] /\ rpc' = "recheck"
          /\ UNCHANGED <<rfile, mask, cursor, polled, attached, delivered>>
      BY <1>6 DEF Copy
    <2> QED
      BY <1>v, <2>1
  <1>7. CASE Recheck
    <2>1. /\ rpc = "recheck" /\ rpc' \in {"poll", "lapped"}
          /\ UNCHANGED <<rfile, mask, attached>>
      BY <1>7 DEF Recheck
    <2>2. rfile \in Inodes /\ SlotOf(cursor) \in 0..Slots-1
      BY <1>r, <2>1
    <2>3. OnlyThisLife'
      BY <1>7 DEF Recheck
    <2>4. AheadOnlyIfOutlived'
      <3>1. CASE cursor' = cursor
        BY <1>v, <2>1, <2>2, <3>1
      <3>2. CASE SlotSeq = want /\ cursor' = cursor + 1
        <4>1. seq[rfile][SlotOf(cursor)] = cursor + 1
          BY <3>2 DEF SlotSeq, want
        <4>2. /\ attached <= done[rfile] /\ done[rfile] <= begun[rfile]
              /\ done[rfile] \in Nat /\ begun[rfile] \in Nat /\ LogEnd(rfile) \in Nat
          BY <1>0, <1>e, <1>i, <2>2 DEF RegionOf
        <4>3. CASE begun[rfile] = done[rfile]
          <5>1. cursor + 1 <= LogEnd(rfile)
            BY <1>i, <2>2, <4>1, <4>3, SlotsBehindEnd
          <5> QED
            BY <1>r, <1>v, <2>1, <2>2, <3>2, <4>2, <5>1
        <4>4. CASE begun[rfile] # done[rfile]
          <5>1. attached < begun[rfile]
            BY <1>r, <4>2, <4>4
          <5> QED
            BY <1>v, <2>1, <5>1
        <4> QED
          BY <4>3, <4>4
      <3> QED
        BY <1>7, <3>1, <3>2 DEF Recheck
    <2> QED
      BY <1>v, <2>1, <2>3, <2>4
  <1>8. CASE LoadEdge
    <2>1. /\ rpc = "lapped" /\ rpc' = "poll"
          /\ cursor' = resume_at(write_index[rfile], slot_count[rfile])
          /\ UNCHANGED <<rfile, mask, attached, delivered>>
      BY <1>8 DEF LoadEdge
    <2>2. rfile \in Inodes /\ write_index[rfile] \in Nat /\ slot_count[rfile] \in {0, Slots}
      BY <1>0, <1>r, <2>1
    <2>3. resume_at(write_index[rfile], slot_count[rfile]) \in 0..write_index[rfile]
      BY <2>2, ResumeAt
    <2>4. ~(cursor' > LogEnd(rfile))
      BY <1>e, <2>1, <2>2, <2>3
    <2> QED
      BY <1>v, <2>1, <2>2, <2>4
  <1> QED
    BY <1>1, <1>2, <1>3, <1>4, <1>5, <1>6, <1>7, <1>8 DEF Reader

\* ReadInv is kept by every step.
LEMMA ReadNext == Typed /\ FileInv /\ ReadInv /\ [Next]_vars => ReadInv'
  <1> SUFFICES ASSUME Typed, FileInv, ReadInv, [Next]_vars PROVE ReadInv'
    OBVIOUS
  <1>1. CASE UNCHANGED vars
    BY <1>1 DEF vars, fileVars, regionVars, readerVars, ReadInv, ReaderInv, OnlyThisLife,
                InBounds, AheadOnlyIfOutlived, SlotOf, LogEnd, HalfPublished
  <1> QED
    BY <1>1, WriterKeepsRead, ReaderKeepsRead DEF Next
-----------------------------------------------------------------------------
(* In the order of run_pair.ps1 no inode is initialised twice, so the log of *)
(* the one the reader has mapped never becomes shorter.  The sender, started *)
(* after the line, has a segment whose initialisation is over.               *)

Fresh(i) ==
  /\ i > life => done[i] = 0
  /\ done[i] = 0 => write_index[i] = 0 /\ \A k \in 0..Slots-1 : seq[i][k] = 0
  /\ done[i] # 0 => begun[i] = done[i]

FreshInv ==
  scripted # "no" =>
    /\ wfile <= life /\ (life # 0 => wfile # 0)
    /\ wpc \in {"created", "init"} => done[wfile] = 0
    /\ \A i \in Inodes : Fresh(i)
    /\ rfile # 0 => cursor <= LogEnd(rfile)

SenderInv ==
  scripted = "sender" =>
    /\ name = wfile
    /\ line => wfile # 0 /\ done[wfile] # 0
    /\ rfile # 0 => done[rfile] # 0
    /\ rpc \notin {"failed", "dead", "stray"}
    /\ rpc \notin {"off", "attach"} => attached # 0

ScriptInv == FreshInv /\ SenderInv

\* ScriptInv holds initially.
LEMMA ScriptInit == Init => ScriptInv
  BY DEF Init, ScriptInv, FreshInv, SenderInv, Fresh

\* Under the script the writer keeps the log of a fresh inode empty until its
\* initialisation is over, and never initialises it again.
LEMMA WriterKeepsFresh ==
  ASSUME Typed, FileInv, ReadInv, ScriptInv, Writer \/ SeeLine \/ Crash \/ Remove,
         scripted # "no"
  PROVE  /\ wfile' <= life' /\ (life' # 0 => wfile' # 0)
         /\ wpc' \in {"created", "init"} => done'[wfile'] = 0
         /\ \A i \in Inodes : Fresh(i)'
  <1>0. /\ life \in Nat /\ write_index \in [Inodes -> Nat]
        /\ seq \in [Inodes -> [0..Slots-1 -> Nat]]
        /\ begun \in [Inodes -> Nat] /\ done \in [Inodes -> Nat]
        /\ wpc # "off" => wfile \in Inodes
    BY Types
  <1>i. WriterInv
    BY DEF FileInv
  <1>s. /\ wfile <= life /\ (life # 0 => wfile # 0)
        /\ wpc \in {"created", "init"} => done[wfile] = 0
        /\ \A i \in Inodes : Fresh(i)
    BY DEF ScriptInv, FreshInv
  <1>1. CASE Create
    <2>1. /\ life' = life + 1 /\ wfile' = life + 1
          /\ UNCHANGED <<write_index, seq, begun, done>>
      BY <1>1 DEF Create, regionVars
    <2>2. wfile' \in Inodes
      BY <1>0, <1>1, <2>1 DEF Create
    <2>3. done[wfile'] = 0
      BY <1>0, <1>s, <2>1, <2>2 DEF Fresh
    <2>4. ASSUME NEW i \in Inodes PROVE Fresh(i)'
      <3>1. Fresh(i)
        BY <1>s
      <3> QED
        BY <1>0, <2>1, <3>1 DEF Fresh
    <2> QED
      BY <1>0, <2>1, <2>3, <2>4
  <1>2. CASE Size
    <2>1. /\ wpc = "created" /\ wfile \in Inodes /\ begun' = [begun EXCEPT ![wfile] = life]
          /\ UNCHANGED <<write_index, seq, done, life, wfile>>
      BY <1>0, <1>2 DEF Size, regionVars
    <2>2. ASSUME NEW i \in Inodes PROVE Fresh(i)'
      <3>1. Fresh(i)
        BY <1>s
      <3>2. done[i] # 0 => begun'[i] = begun[i]
        BY <1>0, <1>s, <2>1
      <3> QED
        BY <2>1, <3>1, <3>2 DEF Fresh
    <2> QED
      BY <1>s, <2>1, <2>2
  <1>3. ASSUME NEW x \in InitStores, InitStore(x)
        PROVE  /\ wfile' <= life' /\ (life' # 0 => wfile' # 0)
               /\ wpc' \in {"created", "init"} => done'[wfile'] = 0
               /\ \A i \in Inodes : Fresh(i)'
    <2>1. wpc = "init" /\ wfile \in Inodes /\ UNCHANGED <<begun, done, life, wfile, wpc>>
      BY <1>0, <1>3 DEF InitStore
    <2>2. Fresh(wfile) /\ done[wfile] = 0
      BY <1>s, <2>1
    <2>3. write_index' = [write_index EXCEPT ![wfile] = 0] \/ write_index' = write_index
      BY <1>3 DEF InitStore
    <2>4. ASSUME NEW i \in Inodes PROVE write_index'[i] = write_index[i]
      BY <1>0, <2>1, <2>2, <2>3 DEF Fresh
    <2>5. ASSUME NEW i \in Inodes, NEW k \in 0..Slots-1 PROVE seq'[i][k] = seq[i][k]
      <3>1. CASE seq' = seq
        BY <3>1
      <3>2. CASE x \notin {CountStore, IndexStore}
        <4>1. PICK j \in 0..Slots-1 : x = <<"seq", j>>
          BY <1>3, <3>2 DEF InitStores, SeqStore
        <4>2. seq' = [seq EXCEPT ![wfile][j] = 0]
          BY <1>3, <3>2, <4>1 DEF InitStore, ClearSlot
        <4>3. seq[wfile][k] = 0
          BY <2>2 DEF Fresh
        <4> QED
          BY <1>0, <2>1, <4>2, <4>3
      <3> QED
        BY <1>3, <3>1, <3>2 DEF InitStore
    <2>6. ASSUME NEW i \in Inodes PROVE Fresh(i)'
      <3>1. Fresh(i)
        BY <1>s
      <3> QED
        BY <2>1, <2>4, <2>5, <3>1 DEF Fresh
    <2> QED
      BY <1>s, <2>1, <2>6
  <1>4. CASE InitEnd
    <2>1. /\ wpc' = "run" /\ wfile \in Inodes /\ done' = [done EXCEPT ![wfile] = life]
          /\ begun[wfile] = life
          /\ UNCHANGED <<write_index, seq, begun, life, wfile>>
      BY <1>0, <1>4, <1>i DEF InitEnd, regionVars, WriterInv, Initialising
    <2>2. life # 0 /\ wfile <= life
      BY <1>0, <1>s, <2>1
    <2>3. ASSUME NEW i \in Inodes PROVE Fresh(i)'
      <3>1. Fresh(i)
        BY <1>s
      <3>2. CASE i = wfile
        <4>1. done'[i] = life
          BY <1>0, <2>1, <3>2
        <4> QED
          BY <1>0, <2>1, <2>2, <3>2, <4>1 DEF Fresh
      <3>3. CASE i # wfile
        <4>1. done'[i] = done[i]
          BY <1>0, <2>1, <3>3
        <4> QED
          BY <2>1, <3>1, <4>1 DEF Fresh
      <3> QED
        BY <3>2, <3>3
    <2> QED
      BY <1>s, <2>1, <2>3
  <1>5. CASE StoreBytes \/ StoreSeq \/ StoreIndex
    <2>1. /\ wfile \in Inodes /\ done[wfile] = life
          /\ wpc' \in {"run", "seq", "index"} /\ UNCHANGED <<begun, done, life, wfile>>
      BY <1>0, <1>5, <1>i DEF StoreBytes, StoreSeq, StoreIndex, WriterInv
    <2>2. done[wfile] # 0
      BY <1>0, <1>s, <2>1
    <2>3. ASSUME NEW i \in Inodes PROVE Fresh(i)'
      <3>1. Fresh(i)
        BY <1>s
      <3>2. CASE i = wfile
        BY <2>1, <2>2, <3>1, <3>2 DEF Fresh
      <3>3. CASE i # wfile
        <4>1. write_index'[i] = write_index[i] /\ seq'[i] = seq[i]
          BY <1>0, <1>5, <2>1, <3>3 DEF StoreBytes, StoreSeq, StoreIndex
        <4> QED
          BY <2>1, <3>1, <4>1 DEF Fresh
      <3> QED
        BY <3>2, <3>3
    <2> QED
      BY <1>s, <2>1, <2>3
  <1>6. CASE Exit \/ SeeLine \/ Crash \/ Remove
    <2>1. /\ wpc' = "off" \/ wpc' = wpc
          /\ UNCHANGED <<write_index, seq, begun, done, life, wfile>>
      BY <1>6 DEF Exit, SeeLine, Crash, Remove, regionVars, fileVars, writerVars
    <2> QED
      BY <1>s, <2>1 DEF Fresh
  <1> QED
    BY <1>1, <1>2, <1>3, <1>4, <1>5, <1>6 DEF Writer

\* ScriptInv is kept by the writer.
LEMMA WriterKeepsScript ==
  ASSUME Typed, FileInv, ReadInv, ScriptInv, Writer \/ SeeLine \/ Crash \/ Remove
  PROVE  ScriptInv'
  <1>1. UNCHANGED <<scripted, rfile, rpc, cursor, attached>>
    BY DEF Writer, Create, Size, InitStore, InitEnd, StoreBytes, StoreSeq, StoreIndex, Exit,
           SeeLine, Crash, Remove, options, readerVars
  <1>2. CASE scripted = "no"
    BY <1>1, <1>2 DEF ScriptInv, FreshInv, SenderInv
  <1>3. CASE scripted # "no"
    <2>0. /\ life \in Nat /\ done \in [Inodes -> Nat] /\ begun \in [Inodes -> Nat]
          /\ wpc # "off" => wfile \in Inodes
      BY Types
    <2>1. /\ wfile' <= life' /\ (life' # 0 => wfile' # 0)
          /\ wpc' \in {"created", "init"} => done'[wfile'] = 0
          /\ \A i \in Inodes : Fresh(i)'
      BY <1>3, WriterKeepsFresh
    <2>2. ASSUME rfile # 0 PROVE cursor <= LogEnd(rfile)'
      <3>1. PICK i \in Inodes : i = rfile
        BY <2>2 DEF Typed, TypeOK
      <3>2. LogEnd(rfile)' = LogEnd(i)'
        BY <1>1, <3>1 DEF LogEnd, HalfPublished
      <3>3. cursor <= LogEnd(i) /\ cursor \in Nat /\ Fresh(i)
        BY <1>3, <2>2, <3>1 DEF ScriptInv, FreshInv, Typed, TypeOK
      <3>4. LogEnd(i) \in Nat
        BY LogEndType
      <3>5. LogEnd(i)' \in Nat
        <4>1. Typed'
          BY WriterTyped
        <4>2. write_index' \in [Inodes -> 0..MaxFrames]
          BY <4>1 DEF Typed, TypeOK
        <4>3. write_index'[i] \in Nat
          BY <4>2
        <4> QED
          BY <4>3 DEF LogEnd
      <3>6. CASE LogEnd(i)' >= LogEnd(i)
        BY <3>2, <3>3, <3>4, <3>5, <3>6
      <3>7. CASE done[i] < begun[i]
        <4>1. done[i] = 0
          BY <2>0, <3>3, <3>7 DEF Fresh
        <4>2. write_index[i] = 0 /\ seq[i][0 % Slots] = 0
          <5>1. 0 % Slots \in 0..Slots-1
            BY Modulo
          <5> QED
            BY <3>3, <4>1, <5>1 DEF Fresh
        <4>3. LogEnd(i) = 0
          BY <4>2 DEF LogEnd, HalfPublished
        <4> QED
          BY <3>2, <3>3, <3>5, <4>3
      <3> QED
        BY <3>6, <3>7, LogGrows
    <2>3. FreshInv'
      BY <1>1, <2>1, <2>2 DEF FreshInv
    <2>4. CASE scripted = "sender"
      <3>1. /\ name = wfile /\ (line => wfile # 0 /\ done[wfile] # 0)
            /\ rfile # 0 => done[rfile] # 0
            /\ rpc \notin {"failed", "dead", "stray"}
            /\ rpc \notin {"off", "attach"} => attached # 0
            /\ life # 0 => wfile # 0
        BY <2>4 DEF ScriptInv, SenderInv, FreshInv
      <3>2. wfile # 0 => wfile \in Inodes
        BY DEF Typed, TypeOK
      <3>3. ASSUME NEW i \in Inodes, done[i] # 0 PROVE done'[i] # 0
        <4>1. CASE InitEnd
          <5>1. wfile \in Inodes /\ done' = [done EXCEPT ![wfile] = life]
            BY <2>0, <4>1 DEF InitEnd
          <5>2. wfile <= life
            BY <1>3 DEF ScriptInv, FreshInv
          <5> QED
            BY <2>0, <3>3, <5>1, <5>2
        <4>2. CASE ~InitEnd
          <5>1. done' = done
            BY <4>2 DEF Writer, Create, Size, InitStore, StoreBytes, StoreSeq, StoreIndex, Exit,
                        SeeLine, Crash, Remove, fileVars
          <5> QED
            BY <3>3, <5>1
        <4> QED
          BY <4>1, <4>2
      <3>4. rfile # 0 => done'[rfile] # 0
        BY <3>1, <3>3 DEF Typed, TypeOK
      <3>5. name' = wfile'
        BY <2>4, <3>1 DEF Writer, Create, Size, InitStore, InitEnd, StoreBytes, StoreSeq,
                          StoreIndex, Exit, SeeLine, Crash, Remove, fileVars, writerVars
      <3>6. line' => wfile' # 0 /\ done'[wfile'] # 0
        <4>1. CASE Create
          BY <4>1 DEF Create
        <4>2. CASE SeeLine
          BY <3>1, <4>2 DEF SeeLine, writerVars, fileVars
        <4>3. CASE ~Create /\ ~SeeLine
          <5>1. line' = line /\ wfile' = wfile
            BY <4>3 DEF Writer, Size, InitStore, InitEnd, StoreBytes, StoreSeq, StoreIndex,
                        Exit, Crash, Remove, writerVars
          <5> QED
            BY <3>1, <3>2, <3>3, <5>1
        <4> QED
          BY <4>1, <4>2, <4>3
      <3>7. SenderInv'
        BY <1>1, <3>1, <3>4, <3>5, <3>6 DEF SenderInv
      <3> QED
        BY <2>3, <3>7 DEF ScriptInv
    <2>5. CASE scripted # "sender"
      BY <1>1, <2>3, <2>5 DEF ScriptInv, SenderInv
    <2> QED
      BY <2>4, <2>5
  <1> QED
    BY <1>2, <1>3

\* ScriptInv is kept by the reader.
LEMMA ReaderKeepsScript ==
  ASSUME Typed, FileInv, ReadInv, ScriptInv, Reader
  PROVE  ScriptInv'
  <1>1. UNCHANGED <<scripted, line, life, wpc, wfile, name, write_index, seq, begun, done>>
    BY DEF Reader, Open, Attach, LiveEdge, Stray, Poll, Copy, Recheck, LoadEdge,
           options, fileVars, regionVars, writerVars
  <1>2. CASE scripted = "no"
    BY <1>1, <1>2 DEF ScriptInv, FreshInv, SenderInv
  <1>3. CASE scripted # "no"
    <2>1. ASSUME rfile' # 0 PROVE cursor' <= LogEnd(rfile)'
      <3>0. \A i \in Inodes : LogEnd(i) \in Nat /\ write_index[i] \in Nat
                               /\ write_index[i] <= LogEnd(i)
        BY LogEndType
      <3>1. Typed'
        BY ReaderTyped
      <3>2. rfile' \in Inodes /\ cursor' \in Nat
        BY <2>1, <3>1 DEF Typed, TypeOK
      <3>3. LogEnd(rfile)' = LogEnd(rfile')
        BY <1>1 DEF LogEnd, HalfPublished
      <3>4. CASE Open
        <4>1. cursor' = 0
          BY <3>4 DEF Open, ReadInv, ReaderInv
        <4> QED
          BY <3>0, <3>2, <3>3, <4>1
      <3>5. CASE LiveEdge
        <4>1. rfile' = rfile /\ cursor' = write_index[rfile]
          BY <3>5 DEF LiveEdge
        <4> QED
          BY <3>0, <3>2, <3>3, <4>1
      <3>6. CASE LoadEdge
        <4>1. rfile' = rfile /\ cursor' = resume_at(write_index[rfile], slot_count[rfile])
          BY <3>6 DEF LoadEdge
        <4>2. write_index[rfile] \in Nat /\ slot_count[rfile] \in {0, Slots}
          BY <3>2, <4>1, Types
        <4>3. cursor' \in 0..write_index[rfile]
          BY <4>1, <4>2, ResumeAt
        <4> QED
          BY <3>0, <3>2, <3>3, <4>1, <4>3
      <3>7. CASE Recheck /\ cursor' # cursor
        <4>1. /\ rpc = "recheck" /\ rfile' = rfile /\ cursor' = cursor + 1
              /\ seq[rfile][SlotOf(cursor)] = cursor + 1
          BY <3>7 DEF Recheck, SlotSeq, want
        <4>2. SlotOf(cursor) \in 0..Slots-1 /\ cursor \in Nat
          BY <4>1 DEF Typed, InSlot, TypeOK
        <4>3. Fresh(rfile) /\ RegionOf(rfile)
          BY <1>3, <3>2, <4>1 DEF ScriptInv, FreshInv, FileInv, RegionInv
        <4>4. begun[rfile] = done[rfile]
          BY <4>1, <4>2, <4>3 DEF Fresh
        <4>5. cursor + 1 <= LogEnd(rfile)
          BY <3>2, <4>1, <4>2, <4>3, <4>4, SlotsBehindEnd
        <4> QED
          BY <3>3, <4>1, <4>5
      <3>8. CASE Attach \/ Stray \/ Poll \/ Copy \/ (Recheck /\ cursor' = cursor)
        <4>1. rfile' = rfile /\ cursor' = cursor
          BY <3>8 DEF Attach, Stray, Poll, Copy, Recheck
        <4>2. cursor <= LogEnd(rfile)
          BY <1>3, <2>1, <4>1 DEF ScriptInv, FreshInv
        <4> QED
          BY <3>3, <4>1, <4>2
      <3> QED
        BY <3>4, <3>5, <3>6, <3>7, <3>8 DEF Reader
    <2>2. FreshInv'
      BY <1>1, <1>3, <2>1 DEF FreshInv, ScriptInv, Fresh
    <2>3. CASE scripted = "sender"
      <3>1. /\ name = wfile /\ (line => wfile # 0 /\ done[wfile] # 0)
            /\ rfile # 0 => done[rfile] # 0
            /\ rpc \notin {"failed", "dead", "stray"}
            /\ rpc \notin {"off", "attach"} => attached # 0
        BY <2>3 DEF ScriptInv, SenderInv
      <3>2. SUFFICES /\ rfile' # 0 => done[rfile'] # 0
                     /\ rpc' \notin {"failed", "dead", "stray"}
                     /\ rpc' \notin {"off", "attach"} => attached' # 0
        BY <1>1, <2>2, <3>1 DEF ScriptInv, SenderInv
      <3>3. CASE Open
        BY <2>3, <3>1, <3>3 DEF Open, MayOpen
      <3>4. CASE Attach
        <4>1. /\ rpc = "attach" /\ rfile' = rfile /\ attached' = done[rfile]
              /\ rpc' = IF ~sized[rfile] THEN "dead" ELSE IF from_edge THEN "edge" ELSE "poll"
          BY <3>4 DEF Attach
        <4>2. rfile \in Inodes /\ done[rfile] # 0
          BY <3>1, <4>1 DEF Typed, HasFile
        <4>3. RegionOf(rfile) /\ done[rfile] \in Nat /\ begun[rfile] \in Nat
          BY <4>2, Types DEF FileInv, RegionInv
        <4>4. sized[rfile]
          BY <4>2, <4>3 DEF RegionOf
        <4> QED
          BY <4>1, <4>2, <4>4
      <3>5. CASE Stray
        <4>1. rpc = "poll" /\ SlotOf(cursor) >= Slots
          BY <3>5 DEF Stray
        <4>2. attached # 0
          BY <3>1, <4>1
        <4>3. SlotOf(cursor) \in 0..Slots-1
          BY <4>2, SlotOfType DEF ReadInv, ReaderInv, Typed
        <4> QED
          BY <4>1, <4>3
      <3>6. CASE LiveEdge \/ Poll \/ Copy \/ Recheck \/ LoadEdge
        <4>1. /\ rpc \notin {"off", "attach"}
              /\ rpc' \notin {"off", "attach", "failed", "dead", "stray"}
              /\ rfile' = rfile /\ attached' = attached
          BY <3>6 DEF LiveEdge, Poll, Copy, Recheck, LoadEdge
        <4> QED
          BY <3>1, <4>1
      <3> QED
        BY <3>3, <3>4, <3>5, <3>6 DEF Reader
    <2>4. CASE scripted # "sender"
      BY <1>1, <2>2, <2>4 DEF ScriptInv, SenderInv
    <2> QED
      BY <2>3, <2>4
  <1> QED
    BY <1>2, <1>3

\* ScriptInv is kept by every step.
LEMMA ScriptNext == Typed /\ FileInv /\ ReadInv /\ ScriptInv /\ [Next]_vars => ScriptInv'
  <1> SUFFICES ASSUME Typed, FileInv, ReadInv, ScriptInv, [Next]_vars PROVE ScriptInv'
    OBVIOUS
  <1>1. CASE UNCHANGED vars
    BY <1>1 DEF vars, options, fileVars, regionVars, writerVars, readerVars, ScriptInv,
                FreshInv, SenderInv, Fresh, LogEnd, HalfPublished
  <1> QED
    BY <1>1, WriterKeepsScript, ReaderKeepsScript DEF Next

-----------------------------------------------------------------------------
IInv == Typed /\ FileInv /\ ReadInv /\ ScriptInv

\* The inductive invariant: what a region holds while and once it is
\* initialised, what the reader has of it, and what the script rules out.
THEOREM Invariant == Spec => []IInv
  <1>1. Init => IInv
    BY TypedInit, FileInit, ReadInit, ScriptInit DEF IInv
  <1>2. IInv /\ [Next]_vars => IInv'
    BY TypedNext, FileNext, ReadNext, ScriptNext DEF IInv
  <1> QED
    BY <1>1, <1>2, PTL DEF Spec

\* A read of an initialised segment returns a frame of the life it polled in
\* or of a later one, whatever the slots held before.
THEOREM ThisLife == Spec => []OnlyThisLife
  <1>1. IInv => OnlyThisLife
    BY DEF IInv, ReadInv
  <1> QED
    BY Invariant, <1>1, PTL

\* A reader that attached to an initialised segment indexes inside it for as
\* long as it lives, through every restart of the writer.
THEOREM Bounds == Spec => []InBounds
  <1>1. IInv => InBounds
    BY DEF IInv, ReadInv
  <1> QED
    BY Invariant, <1>1, PTL

\* Only a reader whose segment was initialised again can be ahead of its log.
THEOREM Ahead == Spec => []AheadOnlyIfOutlived
  <1>1. IInv => AheadOnlyIfOutlived
    BY DEF IInv, ReadInv
  <1> QED
    BY Invariant, <1>1, PTL

\* The order of run_pair.ps1 rules out, for the sender, a missing file, a file
\* without its size and a bad mask, although it opens any time after the
\* producer's line; and for both readers a cursor ahead of the log.
THEOREM Script == Spec => []ScriptIsSafe
  <1>1. IInv => ScriptIsSafe
    BY DEF IInv, ScriptInv, FreshInv, SenderInv, ScriptIsSafe
  <1> QED
    BY Invariant, <1>1, PTL
=============================================================================
