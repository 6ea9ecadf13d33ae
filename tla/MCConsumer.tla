----------------------------- MODULE MCConsumer -----------------------------
(***************************************************************************)
(* Consumer for TLC; the .cfg files give every constant its value.         *)
(***************************************************************************)
EXTENDS Consumer
==============================================================================
