-------------------------------- MODULE SaTable --------------------------------
(***************************************************************************)
(* What the Security Association database promises its users, without     *)
(* keys, slots, memory or sessions (docs/concepts/ipsec.md, ADR 4 and 6):  *)
(* a set of associations; at most one outbound association per VNI and     *)
(* host pair and at most one inbound association per wire SPI and host     *)
(* pair; an update swaps an outbound association for one that serves the   *)
(* same traffic, in one step; a request that fails changes nothing.        *)
(***************************************************************************)
CONSTANT Sa          \* associations, with the addresses masked to their prefix
VARIABLE table

\* Two associations that would serve the same traffic.
Collide(a, b) ==
  /\ a.dir = b.dir /\ a.src = b.src /\ a.dst = b.dst
  /\ IF a.dir = "EGRESS" THEN a.vni = b.vni ELSE a.spi = b.spi

Init == table = {}

Create(a) ==
  /\ \A b \in table : ~Collide(a, b)
  /\ table' = table \cup {a}

\* Of the five fields that name an association only the wire SPI may change.
Update(a, b) ==
  /\ a.dir = "EGRESS"
  /\ b.dir = a.dir /\ b.vni = a.vni /\ b.src = a.src /\ b.dst = a.dst
  /\ table' = (table \ {a}) \cup {b}

Delete(a) == table' = table \ {a}

Shutdown == table' = {}

\* A request that fails, and one that only reads.
Unaffected == UNCHANGED table

Next ==
  \/ Unaffected
  \/ \E a \in Sa : Create(a)
  \/ \E a \in table : Delete(a) \/ \E b \in Sa : Update(a, b)
  \/ Shutdown

Spec == Init /\ [][Next]_table
===============================================================================
