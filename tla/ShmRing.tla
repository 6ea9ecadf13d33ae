------------------------------ MODULE ShmRing ------------------------------
(***************************************************************************)
(* The shared-memory broadcast ring (shm::Ring, harness/include/           *)
(* shm_ring.h), one step per access to shared memory: a single producer in *)
(* publish() and any number of readers in read(), each with its own        *)
(* cursor.  Nothing is locked; the per-slot sequence number is all that    *)
(* tells a reader what it copied.                                          *)
(*                                                                         *)
(* A frame is represented by its number: a word of a slot, or of a         *)
(* reader's copy, holds the number of the frame whose publication stored   *)
(* it.  frame_len is one more word of the slot that is stored apart from   *)
(* the bytes; the order of plain stores and of the loads inside one memcpy *)
(* is left open.  Atomics take effect in program order (x86-64).           *)
(***************************************************************************)
EXTENDS Integers

CONSTANTS Slots,       \* slot_count; a power of two, so idx & mask_ is idx % Slots
          Readers,     \* processes that attached with init = false
          FromEdge,    \* readers that start at live_edge() instead of 0
          Words,       \* the separately copied words of Slot::frame
          frame_len,   \* Slot::frame_len, as a field beside the words
          MaxPublish   \* bound: frames published in a behaviour

ASSUME SlotsAssumption == Slots \in Nat \ {0}
ASSUME ReadersAssumption == FromEdge \subseteq Readers
ASSUME FieldsAssumption == frame_len \notin Words

Fields == Words \cup {frame_len}
Nil == -1                                  \* nothing stored, or not copied yet
Blank == [f \in Fields |-> Nil]

VARIABLES seq,          \* Slot::seq, per slot
          frame,        \* Slot::frame_len and Slot::frame, per slot
          write_index,  \* Header::write_index
          ppc,          \* producer: before publish(), before 77, before 78
          rpc,          \* reader r: where in attach/read() it is
          read_index,   \* reader r: the position it asks for next
          out,          \* reader r: the buffer read() copies into
          status,       \* reader r: what its last read() returned
          delivered     \* reader r: the last frame returned with kOk

producerVars == <<seq, frame, write_index, ppc>>
readerVars == <<rpc, read_index, out, status, delivered>>
vars == <<producerVars, readerVars>>

SlotOf(idx) == idx % Slots

\* Frames committed so far: write_index lags while publish() is between its
\* two release stores.
Committed == IF ppc = "index" THEN write_index + 1 ELSE write_index

Init ==
  /\ seq = [k \in 0..Slots-1 |-> 0]
  /\ frame = [k \in 0..Slots-1 |-> Blank]
  /\ write_index = 0
  /\ ppc = "idle"
  /\ rpc = [r \in Readers |-> IF r \in FromEdge THEN "attach" ELSE "poll"]
  /\ read_index = [r \in Readers |-> 0]
  /\ out = [r \in Readers |-> Blank]
  /\ status = [r \in Readers |-> "none"]
  /\ delivered = [r \in Readers |-> [index |-> Nil, frame |-> Blank]]
-----------------------------------------------------------------------------
(* publish() *)

PublishBegin ==
  /\ ppc = "idle"
  /\ write_index < MaxPublish
  /\ ppc' = "store"
  /\ UNCHANGED <<seq, frame, write_index, readerVars>>

\* The fields of the slot that publish() has not overwritten yet.
Unstored == {f \in Fields : frame[SlotOf(write_index)][f] # write_index}

StoreField(f) ==
  /\ ppc = "store"
  /\ f \in Unstored
  /\ frame' = [frame EXCEPT ![SlotOf(write_index)][f] = write_index]
  /\ UNCHANGED <<seq, write_index, ppc, readerVars>>

StoreSeq ==
  /\ ppc = "store"
  /\ Unstored = {}
  /\ seq' = [seq EXCEPT ![SlotOf(write_index)] = write_index + 1]
  /\ ppc' = "index"
  /\ UNCHANGED <<frame, write_index, readerVars>>

StoreIndex ==
  /\ ppc = "index"
  /\ write_index' = write_index + 1
  /\ ppc' = "idle"
  /\ UNCHANGED <<seq, frame, readerVars>>
-----------------------------------------------------------------------------
(* live_edge(), read(), and what every caller does with the result *)

Attach(r) ==
  /\ rpc[r] = "attach"
  /\ read_index' = [read_index EXCEPT ![r] = write_index]
  /\ rpc' = [rpc EXCEPT ![r] = "poll"]
  /\ UNCHANGED <<producerVars, out, status, delivered>>

want(r) == read_index[r] + 1
SlotSeq(r) == seq[SlotOf(read_index[r])]

\* Mutant of PollEmpty: any other sequence number counts as empty.
PollEmptyIfNotWanted(r) ==
  /\ rpc[r] = "poll"
  /\ SlotSeq(r) # want(r)
  /\ status' = [status EXCEPT ![r] = "kEmpty"]
  /\ UNCHANGED <<producerVars, rpc, read_index, out, delivered>>

PollEmpty(r) ==
  /\ rpc[r] = "poll"
  /\ SlotSeq(r) < want(r)
  /\ status' = [status EXCEPT ![r] = "kEmpty"]
  /\ UNCHANGED <<producerVars, rpc, read_index, out, delivered>>

PollLapped(r) ==
  /\ rpc[r] = "poll"
  /\ SlotSeq(r) > want(r)
  /\ rpc' = [rpc EXCEPT ![r] = "lapped"]
  /\ UNCHANGED <<producerVars, read_index, out, status, delivered>>

\* Mutant of PollReady: a slot that holds an earlier frame is copied too.
PollReadyIfNotLapped(r) ==
  /\ rpc[r] = "poll"
  /\ SlotSeq(r) <= want(r)
  /\ rpc' = [rpc EXCEPT ![r] = "copy"]
  /\ UNCHANGED <<producerVars, read_index, out, status, delivered>>

PollReady(r) ==
  /\ rpc[r] = "poll"
  /\ SlotSeq(r) = want(r)
  /\ rpc' = [rpc EXCEPT ![r] = "copy"]
  /\ UNCHANGED <<producerVars, read_index, out, status, delivered>>

Uncopied(r) == {f \in Fields : out[r][f] = Nil}

\* The length is loaded first: memcpy needs it.
CopyField(r, f) ==
  /\ rpc[r] = "copy"
  /\ f \in Uncopied(r)
  /\ f = frame_len \/ frame_len \notin Uncopied(r)
  /\ out' = [out EXCEPT ![r][f] = frame[SlotOf(read_index[r])][f]]
  /\ UNCHANGED <<producerVars, rpc, read_index, status, delivered>>

\* Mutant of RecheckPasses: the copy is not checked.
RecheckDropped(r) == TRUE

RecheckPasses(r) == SlotSeq(r) = want(r)

RecheckOk(r) ==
  /\ rpc[r] = "copy"
  /\ Uncopied(r) = {}
  /\ RecheckPasses(r)
  /\ delivered' = [delivered EXCEPT ![r] = [index |-> read_index[r],
                                            frame |-> out[r]]]
  /\ read_index' = [read_index EXCEPT ![r] = @ + 1]
  /\ status' = [status EXCEPT ![r] = "kOk"]
  /\ rpc' = [rpc EXCEPT ![r] = "poll"]
  /\ out' = [out EXCEPT ![r] = Blank]
  /\ UNCHANGED producerVars

RecheckLapped(r) ==
  /\ rpc[r] = "copy"
  /\ Uncopied(r) = {}
  /\ ~ RecheckPasses(r)
  /\ rpc' = [rpc EXCEPT ![r] = "lapped"]
  /\ out' = [out EXCEPT ![r] = Blank]
  /\ UNCHANGED <<producerVars, read_index, status, delivered>>

\* Mutant of resume_at: back to the first frame.
resume_at_start(edge) == 0

resume_at(edge) == IF edge > Slots THEN edge - Slots ELSE 0

LoadEdge(r) ==
  /\ rpc[r] = "lapped"
  /\ read_index' = [read_index EXCEPT ![r] = resume_at(write_index)]
  /\ status' = [status EXCEPT ![r] = "kLapped"]
  /\ rpc' = [rpc EXCEPT ![r] = "poll"]
  /\ UNCHANGED <<producerVars, out, delivered>>
-----------------------------------------------------------------------------
Store == (\E f \in Fields : StoreField(f)) \/ StoreSeq \/ StoreIndex

Read(r) ==
  \/ Attach(r)
  \/ PollEmpty(r) \/ PollLapped(r) \/ PollReady(r)
  \/ \E f \in Fields : CopyField(r, f)
  \/ RecheckOk(r) \/ RecheckLapped(r)
  \/ LoadEdge(r)

Next == PublishBegin \/ Store \/ \E r \in Readers : Read(r)

Spec == Init /\ [][Next]_vars

\* publish() never waits, so once entered it returns; every reader spins.
\* Nothing obliges the producer to publish.
Fairness == WF_vars(Store) /\ \A r \in Readers : WF_vars(Read(r))

FairSpec == Spec /\ Fairness
-----------------------------------------------------------------------------
(* Properties.  Log is the log that the ring implements. *)

Log == INSTANCE BroadcastLog WITH published <- Committed,
                                  attached <- [r \in Readers |-> rpc[r] # "attach"],
                                  cursor <- read_index

TypeOK ==
  /\ seq \in [0..Slots-1 -> Nat]
  /\ frame \in [0..Slots-1 -> [Fields -> Nat \cup {Nil}]]
  /\ write_index \in Nat
  /\ ppc \in {"idle", "store", "index"}
  /\ rpc \in [Readers -> {"attach", "poll", "copy", "lapped"}]
  /\ read_index \in [Readers -> Nat]
  /\ out \in [Readers -> [Fields -> Nat \cup {Nil}]]
  /\ status \in [Readers -> {"none", "kOk", "kEmpty", "kLapped"}]
  /\ delivered \in [Readers -> [index : Nat \cup {Nil},
                                frame : [Fields -> Nat \cup {Nil}]]]

\* What a slot's sequence number says about the log (lines 70-79): slot k
\* carries the last committed frame that maps to it, hence the ring as a whole
\* carries the last Slots committed frames and no other.
SlotCarriesLastFrame ==
  \A k \in 0..Slots-1 :
    /\ seq[k] <= Committed
    /\ seq[k] = 0 => Committed <= k
    /\ seq[k] > 0 => SlotOf(seq[k] - 1) = k /\ Committed < seq[k] + Slots

\* What the bytes of a slot can be (lines 72-77): those of the frame its
\* sequence number names, or, in the one slot publish() is busy with, of the
\* frame being written, which the sequence number does not reveal.
BytesFollowSeq ==
  \A k \in 0..Slots-1, f \in Fields :
    \/ frame[k][f] = seq[k] - 1
    \/ ppc = "store" /\ k = SlotOf(write_index) /\ frame[k][f] = write_index

\* A reader that has decided it was lapped (97-101, 106-110) still is when it
\* loads the write index, also when that load misses the newest frame, so that
\* the subtraction cannot take it back.
LappedStaysLapped ==
  \A r \in Readers : rpc[r] = "lapped" => Log!IsLapped(Committed, read_index[r])

\* While the sequence number still is the wanted one, what read() has copied
\* (103-104) belongs to the wanted frame or to the frame being published.
CopyIsOfHolders ==
  \A r \in Readers :
    /\ rpc[r] = "copy" =>
         /\ want(r) <= SlotSeq(r)
         /\ SlotSeq(r) = want(r) =>
              \A f \in Fields : out[r][f] \in {Nil} \cup Log!Holders(Committed, read_index[r])
    /\ rpc[r] # "copy" => out[r] = Blank

\* Cursors stay inside the log, and the last delivered frame is behind the cursor.
CursorInLog ==
  \A r \in Readers : /\ read_index[r] <= Committed
                     /\ delivered[r].index < read_index[r]
                     /\ rpc[r] = "attach" => read_index[r] = 0 /\ delivered[r].index = Nil

\* The ring implements the broadcast log: every kOk is for a frame in the
\* window, with bytes of that frame or of the one being published; every skip
\* is of a reader that was lapped, to the oldest frame it can still get.
ImplementsLog == Log!Spec

\* kEmpty is returned only for a frame that is not committed (line 96): a
\* reader never takes an overwritten slot for an empty one.
EmptyIsTruthful ==
  [][\A r \in Readers : status'[r] = "kEmpty" /\ status[r] # "kEmpty"
                          => read_index[r] >= Committed]_vars

\* However reads and laps interleave, a reader is given frames in the order of
\* publication and none of them twice.
DeliveredInOrder ==
  [][\A r \in Readers : delivered'[r] # delivered[r]
                          => delivered[r].index < delivered'[r].index]_vars

\* Once the producer has stopped, every reader reaches the write index and
\* stays there, whatever it was lapped by before.
CatchUp == \A r \in Readers : <>[](rpc[r] = "poll" /\ read_index[r] = write_index)

\* "If the producer began overwriting mid-copy, we were lapped" (line 105):
\* a kOk read returns bytes of the frame asked for only.
ConsistentCopy ==
  \A r \in Readers, f \in Fields : delivered[r].frame[f] \in {Nil, delivered[r].index}

==============================================================================
