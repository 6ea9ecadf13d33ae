---------------------------- MODULE LossyChannel ----------------------------
(***************************************************************************)
(* What the receiver makes of the network: a channel that loses packets    *)
(* and does nothing else.  Packets come out in the order of their data_seq *)
(* and none of them twice, although the network below may duplicate and    *)
(* reorder them.                                                           *)
(***************************************************************************)
EXTENDS Integers, Sequences

VARIABLES sent,     \* number of data sequences the sender has consumed
          accepted  \* the data sequences that came out, in order

channelVars == <<sent, accepted>>

Init == sent = 0 /\ accepted = <<>>

Send == sent' = sent + 1 /\ UNCHANGED accepted

\* The packet that comes out is any one after the last.
Accept ==
  /\ \E s \in 0..sent-1 :
       /\ \A i \in 1..Len(accepted) : accepted[i] < s
       /\ accepted' = Append(accepted, s)
  /\ UNCHANGED sent

Next == Send \/ Accept

Spec == Init /\ [][Next]_channelVars
==============================================================================
