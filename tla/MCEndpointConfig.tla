-------------------------- MODULE MCEndpointConfig --------------------------
(***************************************************************************)
(* Every command line over numbers at the edges of a 4-bit slot count and  *)
(* ports up to 7, two IPv4 addresses, and MAC addresses at the edges of    *)
(* what is allowed.                                                        *)
(***************************************************************************)
EXTENDS EndpointConfig

MCMacs ==
  {<<0, 0, 0, 0, 0, 0>>,    \* refused: zero
   <<1, 0, 94, 0, 0, 1>>,   \* refused: multicast
   <<2, 0, 0, 0, 0, -1>>,   \* refused: the last octet is not hexadecimal
   <<0, 0, 0, 0, 0, 1>>,
   <<254, 255, 255, 255, 255, 255>>}
=============================================================================
