----------------------------- MODULE MCShmRing -----------------------------
(***************************************************************************)
(* Instance of ShmRing: one reader from the live edge and one from frame   *)
(* 0; the .cfg files give every constant its value.                        *)
(***************************************************************************)
EXTENDS ShmRing
==============================================================================
