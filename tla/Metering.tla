------------------------------ MODULE Metering ------------------------------
(***************************************************************************)
(* The rate limits of an interface: dp_port_meter_config() and what it     *)
(* calls (dp_port.c, dp_util.c), as CreateInterface and DeleteInterface    *)
(* use it (dp_grpc_impl.c), on a NIC that supports limits.  The total rate *)
(* is kept by the NIC and set over netlink; the public rate is a software  *)
(* meter that snat_node.c asks when the recorded cap is not 0.             *)
(*                                                                         *)
(* Rates are in Mbit/s.  The meter's rate is counted in units of 1 MiB/s:  *)
(* the code multiplies by 2^20 in 32 bits, so 2^12 units wrap to 0.        *)
(***************************************************************************)
EXTENDS Integers

CONSTANTS
  MtPort,
  MtRates,      \* rates a request may ask for
  MtLimit       \* UINT32_MAX, or a smaller number that plays its part

ASSUME MtRatesAssumption == MtRates \subseteq Nat /\ 0 \in MtRates /\ MtLimit \in Nat

VARIABLES
  mt_up,        \* interface exists
  limits,       \* see Limits
  mt_asked      \* what the last successful CreateInterface asked for

mtVars == <<mt_up, limits, mt_asked>>

(* nic: the rate the NIC enforces; meter: the rate of the port's meter     *)
(* profile; total, public: the caps recorded in port->iface; 0: no limit.  *)
Limits == [nic : Nat, meter : Nat, total : Nat, public : Nat]
Lim(n, m, t, u) == [nic |-> n, meter |-> m, total |-> t, public |-> u]

cir(cap) == (cap \div 8) % 4096

(* dp_port_public_flow_meter_config(): a profile of rate 0 is refused. *)
PublicRefused(cap) == cap # 0 /\ cir(cap) = 0

(* Mutant: a total rate of 0 is not sent to the NIC. *)
meter_configKeepsTotal(l, t, u) ==
  IF t > MtLimit \/ u > t THEN {[ok |-> FALSE, lim |-> l]}
  ELSE IF PublicRefused(u) THEN {[ok |-> TRUE, lim |-> Lim(0, l.meter, 0, l.public)]}
  ELSE {[ok |-> TRUE, lim |-> Lim(IF t = 0 THEN l.nic ELSE t, cir(u), t, u)]}

(* dp_port_meter_config(): what becomes of the limits l of a port asked    *)
(* for t and u, and the result.  Either netlink request may fail.  When    *)
(* the public rate is refused the result is that of resetting the total.   *)
meter_config(l, t, u) ==
  {[ok |-> FALSE, lim |-> l]}
  \cup IF t > MtLimit \/ u > t THEN {}
       ELSE IF PublicRefused(u)
       THEN {[ok |-> TRUE, lim |-> Lim(0, l.meter, 0, l.public)],
             [ok |-> FALSE, lim |-> Lim(t, l.meter, t, l.public)]}
       ELSE {[ok |-> TRUE, lim |-> Lim(t, cir(u), t, u)]}

(* dp_delete_iface() clears port->iface, and only that. *)
Forgotten(l) == Lim(l.nic, l.meter, 0, 0)

-----------------------------------------------------------------------------
MtInit ==
  /\ mt_up = [p \in MtPort |-> FALSE]
  /\ limits = [p \in MtPort |-> Lim(0, 0, 0, 0)]
  /\ mt_asked = [p \in MtPort |-> [total |-> 0, public |-> 0]]

(* CreateInterface; when the port does not start the limits are reset. *)
MtCreate(p, t, u) ==
  /\ ~mt_up[p]
  /\ \E o \in meter_config(limits[p], t, u) :
       \/ /\ o.ok
          /\ limits' = [limits EXCEPT ![p] = o.lim]
          /\ mt_up' = [mt_up EXCEPT ![p] = TRUE]
          /\ mt_asked' = [mt_asked EXCEPT ![p] = [total |-> t, public |-> u]]
       \/ /\ o.ok
          /\ \E reset \in meter_config(o.lim, 0, 0) :
               limits' = [limits EXCEPT ![p] = Forgotten(reset.lim)]
          /\ UNCHANGED <<mt_up, mt_asked>>
       \/ /\ ~o.ok
          /\ limits' = [limits EXCEPT ![p] = Forgotten(o.lim)]
          /\ UNCHANGED <<mt_up, mt_asked>>

(* DeleteInterface goes on when the limits cannot be reset. *)
MtDelete(p) ==
  /\ mt_up[p]
  /\ \E o \in meter_config(limits[p], 0, 0) :
       limits' = [limits EXCEPT ![p] = Forgotten(o.lim)]
  /\ mt_up' = [mt_up EXCEPT ![p] = FALSE]
  /\ UNCHANGED mt_asked

MtNext == \E p \in MtPort : MtDelete(p) \/ \E t, u \in MtRates : MtCreate(p, t, u)

MtSpec == MtInit /\ [][MtNext]_mtVars

-----------------------------------------------------------------------------
(* The type of the limits. *)
MtTypeOK ==
  /\ mt_up \in [MtPort -> BOOLEAN]
  /\ limits \in [MtPort -> Limits]
  /\ mt_asked \in [MtPort -> [total : MtRates, public : MtRates]]

Representable(u) == u = 0 \/ (8 <= u /\ u < 32768)

(***************************************************************************)
(* An interface whose public rate was representable has the limits its     *)
(* CreateInterface asked for in force: the NIC keeps its total rate, and   *)
(* the meter, which counts in steps of 8 Mbit/s, never lets more than its  *)
(* public rate pass.  What an earlier interface of the port left behind,   *)
(* or an earlier failed request, does not matter.                          *)
(***************************************************************************)
LimitsInForce ==
  \A p \in MtPort : mt_up[p] /\ Representable(mt_asked[p].public) =>
    /\ limits[p].nic = mt_asked[p].total
    /\ limits[p].public = mt_asked[p].public
    /\ limits[p].meter * 8 <= mt_asked[p].public
    /\ mt_asked[p].public < limits[p].meter * 8 + 8

(***************************************************************************)
(* The limits recorded for a running interface, which ListInterfaces and   *)
(* snat_node.c go by, are the ones in force, whatever was asked for: a     *)
(* recorded public rate has a meter, no record means no limit on the NIC.  *)
(***************************************************************************)
RecordedIsInForce ==
  \A p \in MtPort :
    /\ mt_up[p] => limits[p].nic = limits[p].total
    /\ limits[p].public # 0 => mt_up[p] /\ limits[p].meter = cir(limits[p].public)
                               /\ limits[p].meter # 0
=============================================================================
