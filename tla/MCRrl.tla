------------------------------- MODULE MCRrl --------------------------------
(* Every small address: IPv4 of 2 bits with a prefix of none, IPv6 of 3     *)
(* bits, of which the lowest is ignored, with a prefix of one.              *)
EXTENDS Rrl

EveryAddr == Address
=============================================================================
