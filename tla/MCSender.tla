------------------------------ MODULE MCSender ------------------------------
(***************************************************************************)
(* Sender for TLC.                                                         *)
(***************************************************************************)
EXTENDS Sender

\* Trade, BBO and book frames of the raw profile, 192, 192 and 576 bytes, in
\* units of 192.
RawSizes == 0 :> 1 @@ 1 :> 1 @@ 2 :> 3
==============================================================================
