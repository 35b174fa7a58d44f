----------------------------- MODULE MCInterfaces -----------------------------
(***************************************************************************)
(* Two ports, two VNIs, one address per family and one prefix, so that     *)
(* every request meets the leavings of the others.  The first VNI sees     *)
(* dual-stack and IPv6-only interfaces, the second an IPv4-only one.       *)
(***************************************************************************)
EXTENDS Interfaces, TLC

CONSTANTS V1, V2, A4, A6

MCIfaceReq ==
  [id : Id, vni : {V1}, v4 : {A4, Zero4}, v6 : {A6}] \cup [id : Id, vni : {V2}, v4 : {A4}, v6 : {Zero6}]

MCSymmetry == Permutations(Id) \cup Permutations(Ul)
===============================================================================
