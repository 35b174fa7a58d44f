---------------------------- MODULE MCIpsecTunnel ----------------------------
(***************************************************************************)
(* Host A sends from one interface to host B, which has two interfaces,    *)
(* one in the sender's tenant network and one in another.                  *)
(***************************************************************************)
EXTENDS IpsecTunnel

MCHost      == {"A", "B"}
MCHostOf    == [i \in Iface |-> IF i = "a1" THEN "A" ELSE "B"]
MCVniOf     == [i \in Iface |-> IF i = "b2" THEN 2 ELSE 1]
MCRoute     == {"a1"} \X (Iface \ {"a1"})
MCKeyTunnel == [k \in KeyMaterial |-> [from |-> "A", vni |-> 1, to |-> "B"]]

\* The second key serves to replace the first; behaviours that use it have few packets.
MCBound == "k2" \in outKeys \/ inKeys["k2"] # NONE => packets <= 1
===============================================================================
