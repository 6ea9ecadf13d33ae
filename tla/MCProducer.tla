----------------------------- MODULE MCProducer -----------------------------
(***************************************************************************)
(* Instance of Producer: every interleaving of a few paced frames with a   *)
(* clock that may be set back; and a run of three thousand frames without  *)
(* pace, after which every field has taken every value.                    *)
(***************************************************************************)
EXTENDS Producer

MCOptions == {<<4, 1>>, <<3000, 0>>}
=============================================================================
