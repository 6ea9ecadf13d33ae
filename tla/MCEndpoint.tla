----------------------------- MODULE MCEndpoint -----------------------------
(***************************************************************************)
(* Instance of Endpoint: two receivers with one segment name and a sender, *)
(* in any order and overlap.  The receivers are interchangeable.            *)
(***************************************************************************)
EXTENDS Endpoint, TLC

CONSTANTS a, b, s

MCRole == (a :> "receiver") @@ (b :> "receiver") @@ (s :> "sender")
Symmetry == Permutations({a, b})
=============================================================================
