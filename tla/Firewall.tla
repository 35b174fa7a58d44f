------------------------------ MODULE Firewall ------------------------------
(***************************************************************************)
(* The firewall of the interfaces: dp_firewall.c, firewall_node.c, the     *)
(* handlers of the firewall rules and the conversion of a rule from and to *)
(* its protobuf message.                                                   *)
(*                                                                         *)
(* Every interface has a list of rules in the order they were created.     *)
(* The first packet of a flow is judged by these lists; the verdict stays  *)
(* with the flow in conntrack.  (The node computes and stores verdicts but *)
(* does not yet drop packets.)                                             *)
(*                                                                         *)
(* An address prefix is a record of its family, its length and the set of  *)
(* hosts it covers.  The filter of a rule is a union of four words: lower  *)
(* and upper source port, lower and upper destination port; ICMP type and  *)
(* code are the first two of them.                                         *)
(***************************************************************************)
EXTENDS Integers, Sequences

CONSTANTS
  FwPort,       \* ports; the ones in FwPf are physical
  FwPf,
  FwRequest,    \* CreateFirewallRule messages
  FwFlow,       \* flows: [in, out, pkt]
  MaxRules,     \* bound: rules of an interface
  UNJUDGED      \* a flow without DP_FLOW_FLAG_FIREWALL

VARIABLES
  fwall_head,   \* port -> list of rules
  fw_flow,      \* flow -> verdict, UNJUDGED, or "gone" when not tracked
  fw_allowed,   \* flow -> what the set of rules said when it was judged
  fw_alive      \* the worker has not crashed

fwVars == <<fwall_head, fw_flow, fw_allowed, fw_alive>>

ASSUME FwAssumption ==
  /\ FwPf \subseteq FwPort /\ MaxRules \in Nat
  /\ UNJUDGED \notin {"ACCEPT", "DROP", "gone"}
  /\ \A r \in FwRequest : /\ r.action \in {"ACCEPT", "DROP"} /\ r.w \in [1 .. 4 -> Int]
                         /\ r.src.len \in Nat /\ r.dst.len \in Nat
  /\ \A f \in FwFlow : {f.in, f.out} \subseteq FwPort /\ f.in # f.out

ANY == 65536    \* DP_FWALL_MATCH_ANY_*: 0xFFFFFFFF, above every port
Vfs == FwPort \ FwPf
Icmp == {"ICMP", "ICMPV6"}

-----------------------------------------------------------------------------
(* GrpcToDpFwallPort() and the casts of the ICMP fields: -1 is ANY. *)
GrpcToDpFwallPort(x) == IF x = -1 THEN ANY ELSE x
WordOK(x, limit) == x = -1 \/ x \in 0 .. limit

(* Ipv4PrefixLenToMask(), Ipv6PrefixLenToMask(): the ones of the mask, in  *)
(* the first 32 bits (which the IPv4 member of the union overlays) and in  *)
(* all of them.                                                            *)
PrefixLenOK(p) == p.len <= (IF p.v6 THEN 128 ELSE 32)
PrefixLenToMask(p) == [ip4 |-> IF p.len < 32 THEN p.len ELSE 32, ip6 |-> p.len]

(* CreateFirewallRuleCall::FillRequest(): what it accepts, and the rule.   *)
FwRequestOK(r) ==
  LET w == [i \in 1 .. 4 |-> GrpcToDpFwallPort(r.w[i])]
      Range2(lo, up) == lo # ANY => up >= lo
  IN  /\ PrefixLenOK(r.src) /\ PrefixLenOK(r.dst)
      /\ r.priority <= 65535
      /\ r.proto \in {"TCP", "UDP"} =>
           /\ \A i \in 1 .. 4 : WordOK(r.w[i], 65535)
           /\ Range2(w[1], w[2]) /\ Range2(w[3], w[4])
      /\ r.proto = "ICMP" => \A i \in 1 .. 2 : WordOK(r.w[i], 255)

FwRule(r) ==
  [id |-> r.id, dir |-> r.dir, action |-> r.action, proto |-> r.proto,
   src |-> r.src, src_mask |-> PrefixLenToMask(r.src),
   dst |-> r.dst, dst_mask |-> PrefixLenToMask(r.dst),
   w |-> CASE r.proto \in {"TCP", "UDP"} -> [i \in 1 .. 4 |-> GrpcToDpFwallPort(r.w[i])]
           [] r.proto = "ICMP" -> <<GrpcToDpFwallPort(r.w[1]), GrpcToDpFwallPort(r.w[2]), 0, 0>>
           [] OTHER            -> <<ANY, 0, ANY, 0>>]

(* SetupIpAndPrefix() and DpToGrpcFwrule(): what a Get or List shows of a  *)
(* stored rule.  The two families are swapped: the length of an IPv6       *)
(* prefix is counted in the IPv4 member.                                   *)
SetupIpAndPrefix(p, mask) == IF ~p.v6 THEN mask.ip6 ELSE mask.ip4

DpToGrpcFwrule(rule) ==
  [id |-> rule.id, dir |-> rule.dir, action |-> rule.action, proto |-> rule.proto,
   src_len |-> SetupIpAndPrefix(rule.src, rule.src_mask),
   dst_len |-> SetupIpAndPrefix(rule.dst, rule.dst_mask),
   w |-> [i \in 1 .. 4 |-> IF rule.w[i] = ANY THEN -1 ELSE rule.w[i]]]

-----------------------------------------------------------------------------
(* The ports of an ICMP packet are what the union l4_info reads as such.   *)
SrcPort(p) == IF p.l4 \in Icmp THEN p.id ELSE p.sport
DstPort(p) == IF p.l4 \in Icmp THEN 256 * p.type + p.code ELSE p.dport

(* dp_is_rule_matching().  An ICMP packet that meets the ICMP filter of a  *)
(* rule matches it whatever its addresses; one that does not is compared   *)
(* like the others.                                                        *)
rule_matching(rule, p) ==
  LET protocol == IF p.l4 \in Icmp /\ p.v6 THEN "ICMP" ELSE p.l4
      Within(port, lo, up) == lo = ANY \/ port \in lo .. up
  IN  /\ p.l4 \in {"TCP", "UDP"} \cup Icmp
      /\ rule.proto \in {"any", protocol}
      /\ \/ /\ p.l4 \in Icmp
            /\ rule.w[1] \in {ANY, p.type}
            /\ rule.w[2] \in {ANY, p.code}
         \/ /\ p.src \in rule.src.hosts /\ p.dst \in rule.dst.hosts
            /\ Within(SrcPort(p), rule.w[1], rule.w[2])
            /\ Within(DstPort(p), rule.w[3], rule.w[4])

(* dp_is_matched_in_fwall_list(): the first rule of that direction that    *)
(* matches, 0 for none.                                                    *)
matched_in_fwall_list(list, dir, p) ==
  LET hit == {i \in DOMAIN list : list[i].dir = dir /\ rule_matching(list[i], p)}
  IN  IF hit = {} THEN 0 ELSE CHOOSE i \in hit : \A j \in hit : i <= j

(* dp_get_egress_action() *)
get_egress_action(list, p) ==
  LET i == matched_in_fwall_list(list, "EGRESS", p)
  IN  IF i # 0 THEN list[i].action
      ELSE IF \A j \in DOMAIN list : list[j].dir # "EGRESS" THEN "ACCEPT" ELSE "DROP"

(* dp_get_firewall_action() *)
get_firewall_action(in, out, p) ==
  LET i == matched_in_fwall_list(fwall_head[out], "INGRESS", p)
  IN  IF out \in FwPf THEN get_egress_action(fwall_head[in], p)
      ELSE IF in \notin FwPf /\ get_egress_action(fwall_head[in], p) # "ACCEPT" THEN "DROP"
      ELSE IF i = 0 THEN "DROP" ELSE fwall_head[out][i].action

(* The ingress scan counts the egress rules it passes through a NULL       *)
(* pointer: undefined, so the worker may crash there.                      *)
CountsThroughNull(in, out, p) ==
  LET i == matched_in_fwall_list(fwall_head[out], "INGRESS", p)
  IN  /\ out \notin FwPf
      /\ in \in FwPf \/ get_egress_action(fwall_head[in], p) = "ACCEPT"
      /\ \E j \in DOMAIN fwall_head[out] :
           fwall_head[out][j].dir = "EGRESS" /\ (i = 0 \/ j < i)

(* What the interface definition promises: everything leaves while there   *)
(* is no egress rule, nothing enters; otherwise what some rule allows.     *)
AllowedBySet(in, out, p) ==
  LET Has(port, dir) == \E i \in DOMAIN fwall_head[port] : fwall_head[port][i].dir = dir
      Some(port, dir) == \E i \in DOMAIN fwall_head[port] :
                           fwall_head[port][i].dir = dir /\ rule_matching(fwall_head[port][i], p)
  IN  /\ in \in Vfs => ~Has(in, "EGRESS") \/ Some(in, "EGRESS")
      /\ out \in Vfs => Some(out, "INGRESS")

-----------------------------------------------------------------------------
FwInit ==
  /\ fwall_head = [p \in FwPort |-> <<>>]
  /\ fw_flow = [f \in FwFlow |-> "gone"]
  /\ fw_allowed = [f \in FwFlow |-> FALSE]
  /\ fw_alive = TRUE

(* Mutant: DROP rules are accepted. *)
CreateFwRuleAnyAction(port, r) ==
  /\ fw_alive /\ FwRequestOK(r)
  /\ \A i \in DOMAIN fwall_head[port] : fwall_head[port][i].id # r.id
  /\ Len(fwall_head[port]) < MaxRules
  /\ fwall_head' = [fwall_head EXCEPT ![port] = Append(@, FwRule(r))]
  /\ UNCHANGED <<fw_flow, fw_allowed, fw_alive>>

(* dp_process_create_fwrule() and dp_add_firewall_rule() *)
CreateFwRule(port, r) ==
  /\ fw_alive /\ FwRequestOK(r)
  /\ \A i \in DOMAIN fwall_head[port] : fwall_head[port][i].id # r.id
  /\ r.action # "DROP"
  /\ Len(fwall_head[port]) < MaxRules
  /\ fwall_head' = [fwall_head EXCEPT ![port] = Append(@, FwRule(r))]
  /\ UNCHANGED <<fw_flow, fw_allowed, fw_alive>>

ListWithout(list, i) == SubSeq(list, 1, i - 1) \o SubSeq(list, i + 1, Len(list))

(* dp_process_delete_fwrule() and dp_delete_firewall_rule() *)
DeleteFwRule(port, i) ==
  /\ fw_alive /\ i \in DOMAIN fwall_head[port]
  /\ fwall_head' = [fwall_head EXCEPT ![port] = ListWithout(@, i)]
  /\ UNCHANGED <<fw_flow, fw_allowed, fw_alive>>

(* Deleting the interface: dp_del_all_firewall_rules(), and the flows the  *)
(* interface created or receives go with it.                               *)
FwIfaceGone(port) ==
  /\ fw_alive /\ fwall_head[port] # <<>>
  /\ fwall_head' = [fwall_head EXCEPT ![port] = <<>>]
  /\ fw_flow' = [f \in FwFlow |-> IF port \in {f.in, f.out} THEN "gone" ELSE fw_flow[f]]
  /\ UNCHANGED <<fw_allowed, fw_alive>>

(* The conntrack node has created the flow for its first packet; other     *)
(* nodes may drop that packet before the firewall node sees it.            *)
FwFlowStarts(f) ==
  /\ fw_alive /\ fw_flow[f] = "gone"
  /\ fw_flow' = [fw_flow EXCEPT ![f] = UNJUDGED]
  /\ UNCHANGED <<fwall_head, fw_allowed, fw_alive>>

FwFlowEnds(f) ==
  /\ fw_alive /\ fw_flow[f] # "gone"
  /\ fw_flow' = [fw_flow EXCEPT ![f] = "gone"]
  /\ UNCHANGED <<fwall_head, fw_allowed, fw_alive>>

(* firewall_node's get_next_index() for a packet in the direction that     *)
(* created the flow.  A packet of the other direction, or of a flow that   *)
(* has its verdict, changes nothing.                                       *)
FwJudge(f) ==
  /\ fw_alive /\ fw_flow[f] = UNJUDGED
  /\ \/ /\ fw_flow' = [fw_flow EXCEPT ![f] = get_firewall_action(f.in, f.out, f.pkt)]
        /\ fw_allowed' = [fw_allowed EXCEPT ![f] = AllowedBySet(f.in, f.out, f.pkt)]
        /\ UNCHANGED fw_alive
     \/ /\ CountsThroughNull(f.in, f.out, f.pkt)
        /\ fw_alive' = FALSE
        /\ UNCHANGED <<fw_flow, fw_allowed>>
  /\ UNCHANGED fwall_head

FwNext ==
  \/ \E port \in Vfs :
       \/ \E r \in FwRequest : CreateFwRule(port, r)
       \/ \E i \in 1 .. MaxRules : DeleteFwRule(port, i)
       \/ FwIfaceGone(port)
  \/ \E f \in FwFlow : FwFlowStarts(f) \/ FwFlowEnds(f) \/ FwJudge(f)

FwSpec == FwInit /\ [][FwNext]_fwVars

-----------------------------------------------------------------------------
(* The type of the rules and the verdicts. *)
FwTypeOK ==
  /\ \A port \in FwPort : /\ Len(fwall_head[port]) <= MaxRules
                          /\ \A i \in DOMAIN fwall_head[port] :
                               fwall_head[port][i] \in {FwRule(r) : r \in FwRequest}
  /\ fw_flow \in [FwFlow -> {"ACCEPT", "DROP", "gone", UNJUDGED}]
  /\ fw_allowed \in [FwFlow -> BOOLEAN] /\ fw_alive \in BOOLEAN

(***************************************************************************)
(* The verdict of a flow is what the set of rules said when its first      *)
(* packet was judged: the order in which rules were created, and hence the *)
(* unused priority, has no influence ("The priority doesnt have any        *)
(* influence when we have only "allow" rules", dpdk.proto), no later       *)
(* change of the rules matters, and physical ports have no rules.          *)
(***************************************************************************)
VerdictIsBySet ==
  \A f \in FwFlow : fw_flow[f] \in {"ACCEPT", "DROP"} =>
    ((fw_flow[f] = "ACCEPT") <=> fw_allowed[f])

(***************************************************************************)
(* An identifier names one rule of an interface, so that what a Delete     *)
(* removes and a Get shows is never the older of two.                      *)
(***************************************************************************)
RuleIdsUnique ==
  \A port \in FwPort : \A i, j \in DOMAIN fwall_head[port] :
    fwall_head[port][i].id = fwall_head[port][j].id => i = j

ShownAs(shown, r) ==
  LET Length(p) == IF p.v6 /\ p.len > 32 THEN 32 ELSE p.len
  IN  /\ shown.proto = r.proto
      /\ r.proto \in {"TCP", "UDP"} => shown.w = r.w
      /\ r.proto = "ICMP" => shown.w[1] = r.w[1] /\ shown.w[2] = r.w[2]
      /\ shown.src_len = Length(r.src) /\ shown.dst_len = Length(r.dst)

(***************************************************************************)
(* A Get shows a stored rule as the orchestrator created it: protocol,     *)
(* ports and ICMP fields, and the prefix lengths, except the ones of IPv6  *)
(* prefixes longer than 32, which read back as 32.                         *)
(***************************************************************************)
RuleReadsBack ==
  \A port \in FwPort, r \in FwRequest : \A i \in DOMAIN fwall_head[port] :
    FwRequestOK(r) /\ fwall_head[port][i] = FwRule(r) => ShownAs(DpToGrpcFwrule(fwall_head[port][i]), r)

(***************************************************************************)
(* No flow is judged twice: its verdict lives as long as conntrack tracks  *)
(* it, whatever happens to the rules meanwhile, for both directions.       *)
(***************************************************************************)
VerdictStays ==
  [][\A f \in FwFlow : fw_flow[f] \in {"ACCEPT", "DROP"} => fw_flow'[f] \in {fw_flow[f], "gone"}]_fwVars

=============================================================================
