---------------------------- MODULE MCDataPacket ----------------------------
(***************************************************************************)
(* DataPacket with the frame sizes of the Raw build: Trade and Bbo 192,    *)
(* OrderBook 576.                                                          *)
(***************************************************************************)
EXTENDS DataPacket
=============================================================================
