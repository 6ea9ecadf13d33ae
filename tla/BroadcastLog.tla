---------------------------- MODULE BroadcastLog ----------------------------
(***************************************************************************)
(* The abstract specification of the shared-memory broadcast ring: an      *)
(* endless log of frames with one cursor per reader.  The producer never   *)
(* waits.  A reader takes the frame at its cursor while that frame is one  *)
(* of the last Slots frames, and jumps forward once it is not.             *)
(***************************************************************************)
EXTENDS BroadcastContract

CONSTANTS Readers,     \* the processes that read the ring
          FromEdge,    \* those that start at the live edge, not at frame 0
          Fields       \* the separately copied parts of a frame

VARIABLES published,   \* number of frames committed to the log
          attached,    \* attached[r]: r has chosen its first cursor
          cursor,      \* cursor[r]: the next frame r asks for
          delivered    \* delivered[r]: the last frame r was given

logVars == <<published, attached, cursor, delivered>>

NoFrame == [index |-> -1, frame |-> [f \in Fields |-> -1]]

Init ==
  /\ published = 0
  /\ attached = [r \in Readers |-> r \notin FromEdge]
  /\ cursor = [r \in Readers |-> 0]
  /\ delivered = [r \in Readers |-> NoFrame]

Publish ==
  /\ published' = published + 1
  /\ UNCHANGED <<attached, cursor, delivered>>

Attach(r) ==
  /\ ~attached[r]
  /\ attached' = [attached EXCEPT ![r] = TRUE]
  /\ \E edge \in LiveEdges(published) : cursor' = [cursor EXCEPT ![r] = edge]
  /\ UNCHANGED <<published, delivered>>

\* The reader gets the frame at its cursor; each field belongs to that frame
\* unless the reader is exactly one ring behind the producer.
Deliver(r) ==
  /\ attached[r]
  /\ IsReadable(published, cursor[r])
  /\ \E got \in [Fields -> Holders(published, cursor[r])] :
       delivered' = [delivered EXCEPT ![r] = [index |-> cursor[r], frame |-> got]]
  /\ cursor' = [cursor EXCEPT ![r] = @ + 1]
  /\ UNCHANGED <<published, attached>>

\* A lapped reader never goes back and never skips a frame it could still read.
Skip(r) ==
  /\ attached[r]
  /\ IsLapped(published, cursor[r])
  /\ \E n \in ResumePoints(published) : cursor' = [cursor EXCEPT ![r] = n]
  /\ UNCHANGED <<published, attached, delivered>>

Next ==
  \/ Publish
  \/ \E r \in Readers : Attach(r) \/ Deliver(r) \/ Skip(r)

Spec == Init /\ [][Next]_logVars
==============================================================================
