------------------------- MODULE MCSegmentLifecycle -------------------------
(***************************************************************************)
(* Instance of SegmentLifecycle: three lives of a writer, a ring of two    *)
(* slots that each life may wrap once, one reader.                         *)
(***************************************************************************)
EXTENDS SegmentLifecycle
=============================================================================
