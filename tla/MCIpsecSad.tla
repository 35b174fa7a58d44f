------------------------------ MODULE MCIpsecSad ------------------------------
(***************************************************************************)
(* Instances of IpsecSad for TLC.  Two numbers serve as VNI and as SPI,    *)
(* so that an egress and an ingress association can want the same key; the *)
(* remote prefix may be the local one.  There are more heap addresses than *)
(* slots, so a replacement can be built at the limit and freed addresses   *)
(* are reused.                                                             *)
(***************************************************************************)
EXTENDS IpsecSad, TLC

CONSTANTS h1, h2, h3, s1, s2, local, peer, k1

MCSuffix == {0, 1}
Symmetry == Permutations(Handle) \cup Permutations(Session)
===============================================================================
