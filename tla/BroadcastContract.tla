-------------------------- MODULE BroadcastContract --------------------------
(***************************************************************************)
(* What one read of a shm::Ring promises, as a function of two numbers     *)
(* only: how many frames have been committed to the ring (published) and   *)
(* the logical position the reader asks for (cursor).                      *)
(*                                                                         *)
(* ShmRing models the ring word by word; BroadcastLog is the state machine *)
(* that these operators span and ShmRing is shown to implement it.  The    *)
(* modules of the programs that read a ring (Sender and Consumer)         *)
(* use the operators instead of the words.                                 *)
(***************************************************************************)
EXTENDS Integers

CONSTANT Slots      \* slot_count of the ring

ASSUME SlotsAssumption == Slots \in Nat \ {0}

\* kEmpty: the frame at cursor is not committed yet.
IsEmpty(published, cursor) == cursor >= published

\* kLapped: a later frame has been committed to the slot of cursor.
IsLapped(published, cursor) == cursor + Slots < published

\* kOk: the slot of cursor still carries the sequence number of cursor.
IsReadable(published, cursor) ==
  /\ cursor < published
  /\ published <= cursor + Slots

(***************************************************************************)
(* The frames whose bytes a kOk read at cursor may return.  The producer   *)
(* starts to overwrite a slot without touching its sequence number, so a   *)
(* reader that is exactly one ring behind can copy bytes of the frame that *)
(* is being written, frame number published.                               *)
(***************************************************************************)
Holders(published, cursor) ==
  {cursor} \cup {n \in {published} : n = cursor + Slots}

(***************************************************************************)
(* Where a lapped reader goes on: the oldest frame of the ring, computed   *)
(* from a write_index that may not count the newest frame yet.             *)
(***************************************************************************)
ResumePoints(published) == {published - Slots - 1, published - Slots}

\* What live_edge() may return: write_index trails the newest frame by one
\* between the two stores that end a publication.
LiveEdges(published) == {published - 1, published} \cap Nat
==============================================================================
