----------------------------- MODULE MCReceiver -----------------------------
(***************************************************************************)
(* Receiver for TLC.                                                       *)
(***************************************************************************)
EXTENDS Receiver

\* Packets with one and with two frames take turns.
OneOrTwoRecords == <<2, 1>>
==============================================================================
