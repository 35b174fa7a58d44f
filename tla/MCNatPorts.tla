------------------------------ MODULE MCNatPorts ------------------------------
(***************************************************************************)
(* Two interfaces may share a NAT address, with ranges that overlap.       *)
(***************************************************************************)
EXTENDS NatPorts

MCRange  == {<<1, 3>>}
MCRanges == {<<1, 3>>, <<2, 4>>}

\* Source ports of an interface collide; interfaces start at different ports.
MCHash     == [k \in PortmapKey |-> IF k.iface = "i1" THEN 0 ELSE 1]
===============================================================================
