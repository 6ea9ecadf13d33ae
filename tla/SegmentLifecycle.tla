-------------------------- MODULE SegmentLifecycle --------------------------
(***************************************************************************)
(* The life of a shared-memory segment across starts, exits and crashes of *)
(* the process that writes it (producer, or receiver through               *)
(* ReceiverShmWriter), seen by one process that reads it (sender through   *)
(* SenderShmReader, or consumer): Segment::open, Ring::attach, unlink.     *)
(*                                                                         *)
(* Files are inodes: a name that is still linked is opened and initialised *)
(* again in place, under any reader that has it mapped; a name that was    *)
(* unlinked gives a new inode, of size 0 until ftruncate.  Only a clean    *)
(* exit unlinks.  The stores of the initialisation are plain or relaxed    *)
(* and may appear in any order.  magic and slot_size are left out: nothing *)
(* reads them.  A kill may fall between any two steps of publish(); its    *)
(* payload is one step here, ShmRing has it word by word.                  *)
(***************************************************************************)
EXTENDS Integers

CONSTANTS Slots,      \* slot_count of every life
          MaxLives,   \* bound: starts of the writer
          MaxFrames   \* bound: frames published in one life

ASSUME SegmentAssumption ==
  /\ Slots \in Nat \ {0} /\ MaxLives \in Nat /\ MaxFrames \in Nat

Inodes == 1..MaxLives
Lives == 0..MaxLives    \* 0: none
CountStore == <<"slot_count", 0>>
IndexStore == <<"write_index", 0>>
SeqStore(k) == <<"seq", k>>
InitStores == {CountStore, IndexStore} \cup {SeqStore(k) : k \in 0..Slots-1}

VARIABLES scripted,     \* "sender", "consumer": reader started by run_pair.ps1; or "no"
          line,         \* the script has read the line of the producer it started
          from_edge,    \* the reader starts at live_edge() instead of 0
          name,         \* the inode the name is linked to, or 0
          sized,        \* inode i: ftruncate has given it its size
          slot_count, write_index, seq,   \* inode i: the region
          bytes,        \* inode i, slot k: the life whose frame its payload is
          begun, done,  \* inode i: last life whose initialisation began, ended
          life, wpc, wfile, todo,   \* the writer; todo: stores still to come
          rpc, rfile, mask, cursor, \* the reader; mask 0: slot_count was 0
          polled, copied,           \* during its read(): life polled in, life copied
          delivered,    \* the last kOk: life of its frame, life polled in
          attached      \* the life the reader attached to; 0: none was ready

options == <<scripted, from_edge>>
regionVars == <<slot_count, write_index, seq, bytes>>
fileVars == <<name, sized, regionVars, begun, done>>
writerVars == <<life, wpc, wfile, todo>>
readerVars == <<rpc, rfile, mask, cursor, polled, copied, delivered, attached>>
vars == <<options, line, fileVars, writerVars, readerVars>>

Init ==
  /\ scripted \in {"no", "sender", "consumer"} /\ from_edge \in BOOLEAN
  /\ line = FALSE
  /\ name = 0
  /\ sized = [i \in Inodes |-> FALSE]
  /\ slot_count = [i \in Inodes |-> 0]
  /\ write_index = [i \in Inodes |-> 0]
  /\ seq = [i \in Inodes |-> [k \in 0..Slots-1 |-> 0]]
  /\ bytes = [i \in Inodes |-> [k \in 0..Slots-1 |-> 0]]
  /\ begun = [i \in Inodes |-> 0]
  /\ done = [i \in Inodes |-> 0]
  /\ life = 0 /\ wpc = "off" /\ wfile = 0 /\ todo = {}
  /\ rpc = "off" /\ rfile = 0 /\ mask = 0 /\ cursor = 0
  /\ polled = 0 /\ copied = 0 /\ attached = 0
  /\ delivered = [life |-> 0, polled |-> 0]

\* The life that has the region to itself; 0 while it is being initialised.
ReadyLife(i) == IF begun[i] = done[i] THEN done[i] ELSE 0
-----------------------------------------------------------------------------
(* The writer *)

\* shm_open(O_CREAT): the linked inode, or one nobody used.  The script does rm -f
\* before it starts the writer of a run.
Create ==
  /\ wpc = "off"
  /\ life < MaxLives
  /\ life' = life + 1
  /\ wfile' = IF name = 0 \/ scripted # "no" THEN life + 1 ELSE name
  /\ name' = wfile'
  /\ line' = FALSE
  /\ wpc' = "created"
  /\ UNCHANGED <<options, sized, regionVars, begun, done, todo, readerVars>>

\* Mutant of Size: a region that is zeroed first, as if opened with O_TRUNC.
SizeZeroed ==
  /\ wpc = "created"
  /\ sized' = [sized EXCEPT ![wfile] = TRUE]
  /\ slot_count' = [slot_count EXCEPT ![wfile] = 0]
  /\ begun' = [begun EXCEPT ![wfile] = life]
  /\ wpc' = "init"
  /\ todo' = InitStores
  /\ UNCHANGED <<options, line, name, write_index, seq, bytes, done, life, wfile,
                 readerVars>>

\* ftruncate and mmap: an inode that has its size keeps its content.
Size ==
  /\ wpc = "created"
  /\ sized' = [sized EXCEPT ![wfile] = TRUE]
  /\ begun' = [begun EXCEPT ![wfile] = life]
  /\ wpc' = "init"
  /\ todo' = InitStores
  /\ UNCHANGED <<options, line, name, regionVars, done, life, wfile, readerVars>>

\* Mutant of ClearSlot: the slots keep what the last life left.
ClearSlotNot(k) == seq' = seq

ClearSlot(k) == seq' = [seq EXCEPT ![wfile][k] = 0]

InitStore(x) ==
  /\ wpc = "init"
  /\ x \in todo
  /\ todo' = todo \ {x}
  /\ IF x = CountStore THEN slot_count' = [slot_count EXCEPT ![wfile] = Slots]
                       ELSE slot_count' = slot_count
  /\ IF x = IndexStore THEN write_index' = [write_index EXCEPT ![wfile] = 0]
                       ELSE write_index' = write_index
  /\ IF x \in {CountStore, IndexStore} THEN seq' = seq ELSE ClearSlot(x[2])
  /\ UNCHANGED <<options, line, name, sized, bytes, begun, done, life, wpc, wfile,
                 readerVars>>

\* Mutant of InitEnd: the header is published before the slots are cleared.
InitEndEarly ==
  /\ wpc = "init"
  /\ CountStore \notin todo
  /\ done' = [done EXCEPT ![wfile] = life]
  /\ wpc' = "run"
  /\ UNCHANGED <<options, line, name, sized, regionVars, begun, life, wfile, todo,
                 readerVars>>

InitEnd ==
  /\ wpc = "init"
  /\ todo = {}
  /\ done' = [done EXCEPT ![wfile] = life]
  /\ wpc' = "run"
  /\ UNCHANGED <<options, line, name, sized, regionVars, begun, life, wfile, todo,
                 readerVars>>

\* publish(), in the three steps a kill can separate: frame_len and memcpy, the
\* store to seq, the store to write_index.
Slot == write_index[wfile] % Slots

StoreBytes ==
  /\ wpc = "run"
  /\ write_index[wfile] < MaxFrames
  /\ bytes' = [bytes EXCEPT ![wfile][Slot] = life]
  /\ wpc' = "seq"
  /\ UNCHANGED <<options, line, name, sized, slot_count, write_index, seq, begun, done,
                 life, wfile, todo, readerVars>>

StoreSeq ==
  /\ wpc = "seq"
  /\ seq' = [seq EXCEPT ![wfile][Slot] = write_index[wfile] + 1]
  /\ wpc' = "index"
  /\ UNCHANGED <<options, line, name, sized, slot_count, write_index, bytes, begun, done,
                 life, wfile, todo, readerVars>>

StoreIndex ==
  /\ wpc = "index"
  /\ write_index' = [write_index EXCEPT ![wfile] = @ + 1]
  /\ wpc' = "run"
  /\ UNCHANGED <<options, line, name, sized, slot_count, seq, bytes, begun, done,
                 life, wfile, todo, readerVars>>

\* The end of main(): unlink, whichever inode has the name.  The script's producer
\* runs with --count 0 and has no end.
Exit ==
  /\ wpc = "run"
  /\ scripted # "sender"
  /\ name' = 0
  /\ wpc' = "off"
  /\ UNCHANGED <<options, line, sized, regionVars, begun, done, life, wfile, todo,
                 readerVars>>

\* A kill, or SIGINT for the producer, which has no handler.
Crash ==
  /\ wpc # "off"
  /\ wpc' = "off"
  /\ todo' = {}
  /\ UNCHANGED <<options, line, fileVars, life, wfile, readerVars>>

\* rm -f /dev/shm/<name> by hand.
Remove ==
  /\ wpc = "off"
  /\ scripted = "no"
  /\ name # 0
  /\ name' = 0
  /\ UNCHANGED <<options, line, sized, regionVars, begun, done, writerVars, readerVars>>
-----------------------------------------------------------------------------
(* The reader *)

\* The producer prints its line once its segment is initialised; the script reads
\* it some time later, when the producer may be dead.
SeeLine ==
  /\ scripted = "sender" /\ ~line
  /\ life # 0 /\ done[wfile] = life
  /\ line' = TRUE
  /\ UNCHANGED <<options, fileVars, writerVars, readerVars>>

\* Mutant of MayOpen: the script waits for the file instead of for the line
\* the producer prints.
MayOpenLinked == scripted = "sender" => name # 0

\* The sender's process is started after the line, and opens after EAL and its
\* port are set up.  Nothing is awaited for the consumer.
MayOpen == scripted = "sender" => line

\* shm_open without O_CREAT; exit(1) when the name is not there.
Open ==
  /\ rpc = "off"
  /\ MayOpen
  /\ rfile' = name
  /\ rpc' = IF name = 0 THEN "failed" ELSE "attach"
  /\ UNCHANGED <<options, line, fileVars, writerVars, mask, cursor, polled, copied,
                 delivered, attached>>

\* The first access to the mapping: SIGBUS beyond the end of the file.
Attach ==
  /\ rpc = "attach"
  /\ mask' = slot_count[rfile]
  /\ attached' = done[rfile]
  /\ rpc' = IF ~sized[rfile] THEN "dead" ELSE IF from_edge THEN "edge" ELSE "poll"
  /\ UNCHANGED <<options, line, fileVars, writerVars, rfile, cursor, polled, copied,
                 delivered>>

LiveEdge ==
  /\ rpc = "edge"
  /\ cursor' = write_index[rfile]
  /\ rpc' = "poll"
  /\ UNCHANGED <<options, line, fileVars, writerVars, rfile, mask, polled, copied,
                 delivered, attached>>

\* read_index & mask_, where a slot_count of 0 has made mask_ all ones.
SlotOf(idx) == IF mask = 0 THEN idx ELSE idx % mask
SlotSeq == seq[rfile][SlotOf(cursor)]
want == cursor + 1

Stray ==
  /\ rpc = "poll"
  /\ SlotOf(cursor) >= Slots
  /\ rpc' = "stray"
  /\ UNCHANGED <<options, line, fileVars, writerVars, rfile, mask, cursor, polled,
                 copied, delivered, attached>>

\* read() up to its first decision; kEmpty changes nothing.
Poll ==
  /\ rpc = "poll"
  /\ SlotOf(cursor) < Slots
  /\ SlotSeq >= want
  /\ IF SlotSeq = want THEN rpc' = "copy" /\ polled' = ReadyLife(rfile)
                       ELSE rpc' = "lapped" /\ UNCHANGED polled
  /\ UNCHANGED <<options, line, fileVars, writerVars, rfile, mask, cursor, copied,
                 delivered, attached>>

Copy ==
  /\ rpc = "copy"
  /\ copied' = bytes[rfile][SlotOf(cursor)]
  /\ rpc' = "recheck"
  /\ UNCHANGED <<options, line, fileVars, writerVars, rfile, mask, cursor, polled,
                 delivered, attached>>

Recheck ==
  /\ rpc = "recheck"
  /\ IF SlotSeq = want
       THEN /\ delivered' = [life |-> copied, polled |-> polled]
            /\ cursor' = cursor + 1
            /\ rpc' = "poll"
       ELSE /\ rpc' = "lapped"
            /\ UNCHANGED <<delivered, cursor>>
  /\ polled' = 0 /\ copied' = 0
  /\ UNCHANGED <<options, line, fileVars, writerVars, rfile, mask, attached>>

\* Mutant of resume_at: always the start of the log.
resume_at_start(edge, slots) == 0

resume_at(edge, slots) == IF edge > slots THEN edge - slots ELSE 0

LoadEdge ==
  /\ rpc = "lapped"
  /\ cursor' = resume_at(write_index[rfile], slot_count[rfile])
  /\ rpc' = "poll"
  /\ UNCHANGED <<options, line, fileVars, writerVars, rfile, mask, polled, copied,
                 delivered, attached>>
-----------------------------------------------------------------------------
Writer == Create \/ Size \/ (\E x \in InitStores : InitStore(x)) \/ InitEnd
            \/ StoreBytes \/ StoreSeq \/ StoreIndex \/ Exit
Reader == Open \/ Attach \/ LiveEdge \/ Stray \/ Poll \/ Copy \/ Recheck \/ LoadEdge
Next == Writer \/ SeeLine \/ Reader \/ Crash \/ Remove
Spec == Init /\ [][Next]_vars
\* The reader polls on, and a publication that has begun goes on unless the writer is
\* killed in it; nothing makes the writer start, publish or end.
FairSpec == Spec /\ WF_vars(Reader) /\ WF_vars(StoreSeq \/ StoreIndex)
-----------------------------------------------------------------------------
\* Type invariant.
TypeOK ==
  /\ scripted \in {"no", "sender", "consumer"} /\ from_edge \in BOOLEAN
  /\ line \in BOOLEAN
  /\ name \in 0..MaxLives
  /\ sized \in [Inodes -> BOOLEAN]
  /\ slot_count \in [Inodes -> {0, Slots}]
  /\ write_index \in [Inodes -> 0..MaxFrames]
  /\ seq \in [Inodes -> [0..Slots-1 -> 0..MaxFrames]]
  /\ bytes \in [Inodes -> [0..Slots-1 -> Lives]]
  /\ begun \in [Inodes -> 0..MaxLives]
  /\ done \in [Inodes -> 0..MaxLives]
  /\ life \in 0..MaxLives
  /\ wpc \in {"off", "created", "init", "run", "seq", "index"}
  /\ wfile \in 0..MaxLives
  /\ todo \subseteq InitStores
  /\ rpc \in {"off", "failed", "attach", "dead", "edge", "poll", "stray",
              "copy", "recheck", "lapped"}
  /\ rfile \in 0..MaxLives
  /\ mask \in {0, Slots}
  /\ cursor \in 0..MaxFrames
  /\ polled \in Lives
  /\ copied \in Lives
  /\ delivered \in [life : Lives, polled : Lives]
  /\ attached \in 0..MaxLives

\* A read that finds its sequence number in a segment whose initialisation is
\* over returns a frame of that life or, when the writer restarts during the
\* copy, of a later one: never what an earlier life left in the slots, also
\* when the reader attached in that earlier life and kept its cursor.
OnlyThisLife == delivered.life >= delivered.polled

\* A reader leaves the mapping only when it attached before the first
\* initialisation of the inode had ended: restarting the writer under a
\* reader, or attaching during a second initialisation, keeps the mask good.
InBounds == rpc = "stray" => attached = 0

\* The writer is between the last two stores of publish(), or was killed there: the
\* frame can be read and the edge does not count it.
HalfPublished(i) == seq[i][write_index[i] % Slots] = write_index[i] + 1
LogEnd(i) == IF HalfPublished(i) THEN write_index[i] + 1 ELSE write_index[i]

\* A reader's cursor is ahead of what was published, so that it waits for frames
\* it will then take as consecutive, only when the log was initialised again
\* after the reader attached.
AheadOnlyIfOutlived ==
  rfile # 0 /\ cursor > LogEnd(rfile) => attached < begun[rfile]

\* What the order of run_pair.ps1 guarantees.  The sender is started after the
\* producer's line and opens later, perhaps after the producer was killed: it
\* finds the segment, of its size and with its mask.  The consumer may find no
\* segment or an unfinished one.  Both have a segment that is initialised once
\* and never wait for a frame number of an earlier run.
ScriptIsSafe ==
  /\ scripted = "sender" => rpc \notin {"failed", "dead", "stray"}
  /\ scripted # "no" /\ rfile # 0 => cursor <= LogEnd(rfile)

\* The writer was killed between the last two stores of publish() and the reader is
\* one ring behind: its slot has the new frame, it is lapped, and resume_at() of the
\* old edge is where it already is.
LappedForEver ==
  /\ HalfPublished(rfile) /\ ~(wfile = rfile /\ wpc = "index")
  /\ cursor = write_index[rfile] - Slots

\* Once the starts, crashes and publications are over, a reader of a segment
\* whose last initialisation went through has caught up with its log, however
\* often and at whatever step of a read the segment was initialised under it,
\* unless a kill in publish() has it LappedForEver.
CatchUpUnlessHalfPublished ==
  <>[](rpc \in {"poll", "copy", "recheck", "lapped"} /\ ReadyLife(rfile) # 0
         => cursor >= write_index[rfile] \/ LappedForEver)
=============================================================================
