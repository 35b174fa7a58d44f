---------------------------- MODULE TablesProofs ----------------------------
(***************************************************************************)
(* Firewalls and load balancers, for any rules, targets, hashes and flows: *)
(* the verdict of a flow and the target it is sent to depend on the set of *)
(* rules and on the set of targets, and outlive only what they may.        *)
(***************************************************************************)
EXTENDS Firewall, LoadBalancer, FiniteSetTheorems, WellFoundedInduction, TLAPS

LEMMA LeastNumber ==
  ASSUME NEW T, T \subseteq Nat, T # {}
  PROVE  \E x \in T : \A y \in T : x <= y
<1> DEFINE R == OpToRel(<, Nat)
<1>1. \E x \in T : \A y \in T : <<y, x>> \notin R
  BY NatLessThanWellFounded, WFMin, Zenon
<1>2. \A x, y \in Nat : <<y, x>> \notin R => x <= y
  BY DEF OpToRel
<1> HIDE DEF R
<1> QED
  BY <1>1, <1>2, Zenon

(* The list without its rule i. *)
LEMMA OneRemoved ==
  ASSUME NEW S, NEW list \in Seq(S), NEW i \in 1 .. Len(list)
  PROVE  /\ ListWithout(list, i) \in Seq(S) /\ Len(ListWithout(list, i)) = Len(list) - 1
         /\ \A k \in 1 .. Len(list) - 1 : k < i => ListWithout(list, i)[k] = list[k]
         /\ \A k \in 1 .. Len(list) - 1 : k >= i => ListWithout(list, i)[k] = list[k + 1]
<1> DEFINE a == SubSeq(list, 1, i - 1)
           b == SubSeq(list, i + 1, Len(list))
           new == ListWithout(list, i)
<1>1. /\ a \in Seq(S) /\ Len(a) = i - 1
      /\ \A k \in 1 .. i - 1 : a[k] = list[k]
  OBVIOUS
<1>2. /\ b \in Seq(S) /\ Len(b) = Len(list) - i
      /\ \A k \in 1 .. Len(list) - i : b[k] = list[k + i]
  OBVIOUS
<1>3. new = a \o b
  BY Zenon DEF ListWithout
<1> HIDE DEF a, b, new
<1>4. /\ new \in Seq(S) /\ Len(new) = Len(a) + Len(b)
      /\ \A k \in 1 .. Len(a) : new[k] = a[k]
      /\ \A k \in Len(a) + 1 .. Len(a) + Len(b) : new[k] = b[k - Len(a)]
  <2>1. ASSUME NEW x \in Seq(S), NEW y \in Seq(S)
        PROVE  /\ x \o y \in Seq(S) /\ Len(x \o y) = Len(x) + Len(y)
               /\ \A k \in 1 .. Len(x) : (x \o y)[k] = x[k]
               /\ \A k \in Len(x) + 1 .. Len(x) + Len(y) : (x \o y)[k] = y[k - Len(x)]
    OBVIOUS
  <2>2. a \in Seq(S) /\ b \in Seq(S)
    BY <1>1, <1>2, Zenon
  <2> QED
    BY <1>3, <2>1, <2>2, Zenon
<1>5. new \in Seq(S) /\ Len(new) = Len(list) - 1
  BY <1>1, <1>2, <1>4
<1>6. ASSUME NEW k \in 1 .. Len(list) - 1, k >= i PROVE new[k] = list[k + 1]
  <2>1. /\ k \in Len(a) + 1 .. Len(a) + Len(b) /\ k - Len(a) \in 1 .. Len(list) - i
        /\ (k - Len(a)) + i = k + 1
    BY <1>1, <1>2, <1>6
  <2>2. new[k] = b[k - Len(a)]
    BY <1>4, <2>1, Zenon
  <2>3. b[k - Len(a)] = list[(k - Len(a)) + i]
    BY <1>2, <2>1, Zenon
  <2> QED
    BY <2>1, <2>2, <2>3, Zenon
<1>7. ASSUME NEW k \in 1 .. Len(list) - 1, k < i PROVE new[k] = list[k]
  <2>1. k \in 1 .. Len(a) /\ k \in 1 .. i - 1
    BY <1>1, <1>7
  <2>2. new[k] = a[k]
    BY <1>4, <2>1, Zenon
  <2> QED
    BY <1>1, <2>1, <2>2, Zenon
<1> QED
  BY <1>5, <1>6, <1>7, Zenon DEF new

-----------------------------------------------------------------------------
(* The rules the lists hold: made from an accepted request, none of them   *)
(* DROP.                                                                   *)
StoredRule == {FwRule(r) : r \in {q \in FwRequest : FwRequestOK(q) /\ q.action # "DROP"}}

(* The inductive invariant of the firewall: the lists hold stored rules,   *)
(* physical ports have none, identifiers are unique, and the verdicts are  *)
(* what the set of rules said.                                             *)
FwInv ==
  /\ fwall_head \in [FwPort -> Seq(StoredRule)]
  /\ \A port \in FwPort : Len(fwall_head[port]) <= MaxRules
  /\ \A port \in FwPf : fwall_head[port] = <<>>
  /\ RuleIdsUnique
  /\ fw_flow \in [FwFlow -> {"ACCEPT", "DROP", "gone", UNJUDGED}]
  /\ fw_allowed \in [FwFlow -> BOOLEAN] /\ fw_alive \in BOOLEAN
  /\ VerdictIsBySet

LEMMA FwConstants ==
  FwPf \subseteq FwPort /\ MaxRules \in Nat
  BY FwAssumption, Zenon

(* A stored rule accepts, and carries the identifier of its request.       *)
LEMMA StoredRuleAccepts ==
  ASSUME NEW x \in StoredRule
  PROVE  x.action = "ACCEPT"
<1>1. PICK r \in FwRequest : r.action # "DROP" /\ x = FwRule(r)
  BY Zenon DEF StoredRule
<1>2. r.action = "ACCEPT"
  BY <1>1, FwAssumption, Zenon
<1> QED
  BY <1>1, <1>2, Zenon DEF FwRule

(* dp_is_matched_in_fwall_list() finds a rule of the direction that        *)
(* matches if the list holds one, and none otherwise.                      *)
LEMMA MatchedIsAMatch ==
  ASSUME NEW list \in Seq(StoredRule), NEW dir, NEW p,
         NEW i, i = matched_in_fwall_list(list, dir, p)
  PROVE  /\ i # 0 => i \in DOMAIN list /\ list[i].dir = dir /\ rule_matching(list[i], p)
         /\ i = 0 => \A j \in DOMAIN list : ~(list[j].dir = dir /\ rule_matching(list[j], p))
<1> DEFINE hit == {j \in DOMAIN list : list[j].dir = dir /\ rule_matching(list[j], p)}
<1>1. hit \subseteq Nat /\ 0 \notin hit
  OBVIOUS
<1>2. i = IF hit = {} THEN 0 ELSE CHOOSE x \in hit : \A j \in hit : x <= j
  BY Zenon DEF matched_in_fwall_list
<1>3. CASE hit = {}
  BY <1>2, <1>3, Zenon
<1>4. CASE hit # {}
  <2> HIDE DEF hit
  <2>1. \E x \in hit : \A j \in hit : x <= j
    BY <1>1, <1>4, LeastNumber, Zenon
  <2>2. i \in hit
    BY <1>2, <1>4, <2>1, Zenon
  <2> QED
    BY <1>1, <2>2, Zenon DEF hit
<1> QED
  BY <1>3, <1>4, Zenon

(* dp_get_egress_action(): everything leaves while there is no egress rule *)
(* and otherwise what some egress rule allows.                             *)
LEMMA EgressBySet ==
  ASSUME NEW list \in Seq(StoredRule), NEW p
  PROVE  /\ get_egress_action(list, p) \in {"ACCEPT", "DROP"}
         /\ get_egress_action(list, p) = "ACCEPT" <=>
              \/ ~ \E j \in DOMAIN list : list[j].dir = "EGRESS"
              \/ \E j \in DOMAIN list : list[j].dir = "EGRESS" /\ rule_matching(list[j], p)
<1> DEFINE i == matched_in_fwall_list(list, "EGRESS", p)
<1>1. /\ i # 0 => i \in DOMAIN list /\ list[i].dir = "EGRESS" /\ rule_matching(list[i], p)
      /\ i = 0 => \A j \in DOMAIN list : ~(list[j].dir = "EGRESS" /\ rule_matching(list[j], p))
  BY MatchedIsAMatch, Zenon
<1>2. i # 0 => list[i].action = "ACCEPT"
  BY <1>1, StoredRuleAccepts
<1>3. get_egress_action(list, p) =
        IF i # 0 THEN list[i].action
        ELSE IF \A j \in DOMAIN list : list[j].dir # "EGRESS" THEN "ACCEPT" ELSE "DROP"
  BY Zenon DEF get_egress_action
<1> HIDE DEF i
<1>4. CASE i # 0
  BY <1>1, <1>2, <1>3, <1>4, Zenon
<1>5. CASE i = 0
  BY <1>1, <1>3, <1>5, Zenon
<1> QED
  BY <1>4, <1>5, Zenon

(* The verdict of dp_get_firewall_action() is what the set of rules says,  *)
(* whatever their order.                                                   *)
LEMMA ActionBySet ==
  ASSUME FwInv, NEW in \in FwPort, NEW out \in FwPort, NEW p
  PROVE  /\ get_firewall_action(in, out, p) \in {"ACCEPT", "DROP"}
         /\ get_firewall_action(in, out, p) = "ACCEPT" <=> AllowedBySet(in, out, p)
<1> DEFINE i == matched_in_fwall_list(fwall_head[out], "INGRESS", p)
           act == get_firewall_action(in, out, p)
           egress == get_egress_action(fwall_head[in], p)
           leaves == \/ ~ \E j \in DOMAIN fwall_head[in] : fwall_head[in][j].dir = "EGRESS"
                     \/ \E j \in DOMAIN fwall_head[in] :
                          fwall_head[in][j].dir = "EGRESS" /\ rule_matching(fwall_head[in][j], p)
           enters == \E j \in DOMAIN fwall_head[out] :
                          fwall_head[out][j].dir = "INGRESS" /\ rule_matching(fwall_head[out][j], p)
<1>1. fwall_head[in] \in Seq(StoredRule) /\ fwall_head[out] \in Seq(StoredRule)
  BY Zenon DEF FwInv
<1>2. egress \in {"ACCEPT", "DROP"} /\ (egress = "ACCEPT" <=> leaves)
  BY <1>1, EgressBySet, Zenon
<1>3. (i # 0 <=> enters) /\ (i # 0 => fwall_head[out][i].action = "ACCEPT")
  <2>1. /\ i # 0 => i \in DOMAIN fwall_head[out] /\ fwall_head[out][i].dir = "INGRESS" /\ rule_matching(fwall_head[out][i], p)
        /\ i = 0 => ~enters
    BY <1>1, MatchedIsAMatch
  <2> HIDE DEF i
  <2>2. i # 0 => fwall_head[out][i].action = "ACCEPT"
    BY <1>1, <2>1, StoredRuleAccepts
  <2> QED
    BY <2>1, <2>2, Zenon
<1>4. in \in FwPf => leaves
  <2>1. ASSUME in \in FwPf PROVE fwall_head[in] = <<>>
    BY <2>1, Zenon DEF FwInv
  <2> QED
    BY <2>1
<1>5. AllowedBySet(in, out, p) <=> (in \notin FwPf => leaves) /\ (out \notin FwPf => enters)
  BY Zenon DEF AllowedBySet, Vfs
<1>6. act = IF out \in FwPf THEN egress
            ELSE IF in \notin FwPf /\ egress # "ACCEPT" THEN "DROP"
            ELSE IF i = 0 THEN "DROP" ELSE fwall_head[out][i].action
  BY Zenon DEF get_firewall_action
<1> HIDE DEF i, act, egress, leaves, enters
<1>7. act \in {"ACCEPT", "DROP"} /\ (act = "ACCEPT" <=> AllowedBySet(in, out, p))
  BY <1>2, <1>3, <1>4, <1>5, <1>6, Zenon
<1> QED
  BY <1>7, Zenon DEF act

-----------------------------------------------------------------------------
LEMMA FwStart ==
  FwInit => FwInv
<1> SUFFICES ASSUME FwInit PROVE FwInv
  OBVIOUS
<1>1. fwall_head \in [FwPort -> Seq(StoredRule)] /\ \A port \in FwPort : fwall_head[port] = <<>>
  BY DEF FwInit
<1>2. \A port \in FwPort : Len(fwall_head[port]) <= MaxRules
  <2>1. \A port \in FwPort : Len(fwall_head[port]) = 0
    <3>1. Len(<<>>) = 0
      OBVIOUS
    <3> QED
      BY <1>1, <3>1, Zenon
  <2>2. 0 <= MaxRules
    BY FwConstants
  <2> QED
    BY <2>1, <2>2, Zenon
<1>3. RuleIdsUnique
  BY <1>1 DEF RuleIdsUnique
<1>4. \A port \in FwPf : fwall_head[port] = <<>>
  BY <1>1, FwConstants, Zenon
<1>5. /\ fw_flow \in [FwFlow -> {"ACCEPT", "DROP", "gone", UNJUDGED}]
      /\ fw_allowed \in [FwFlow -> BOOLEAN] /\ fw_alive \in BOOLEAN
      /\ VerdictIsBySet
  BY Zenon DEF FwInit, VerdictIsBySet
<1> QED
  BY <1>1, <1>2, <1>3, <1>4, <1>5, Zenon DEF FwInv

LEMMA CreateKeeps ==
  ASSUME FwInv, NEW port \in Vfs, NEW r \in FwRequest, CreateFwRule(port, r)
  PROVE  FwInv'
<1> DEFINE list == fwall_head[port]
           new == Append(list, FwRule(r))
<1>1. port \in FwPort /\ port \notin FwPf
  BY Zenon DEF Vfs
<1>2. list \in Seq(StoredRule) /\ FwRule(r) \in StoredRule
  BY <1>1, Zenon DEF FwInv, CreateFwRule, StoredRule
<1>3. /\ new \in Seq(StoredRule) /\ Len(new) = Len(list) + 1
      /\ \A k \in 1 .. Len(list) : new[k] = list[k]
      /\ new[Len(list) + 1] = FwRule(r)
  BY <1>2
<1>4. fwall_head' = [fwall_head EXCEPT ![port] = new]
  BY Zenon DEF CreateFwRule
<1> HIDE DEF new
<1>5. fwall_head' \in [FwPort -> Seq(StoredRule)]
  BY <1>1, <1>3, <1>4, Zenon DEF FwInv
<1>6. fwall_head'[port] = new /\ \A q \in FwPort : q # port => fwall_head'[q] = fwall_head[q]
  BY <1>1, <1>4, Zenon DEF FwInv
<1>7. \A q \in FwPort : Len(fwall_head'[q]) <= MaxRules
  <2>1. Len(list) < MaxRules /\ Len(list) \in Nat
    BY <1>2 DEF CreateFwRule
  <2>2. Len(new) <= MaxRules
    BY <1>3, <2>1, FwConstants
  <2> QED
    BY <1>6, <2>2, Zenon DEF FwInv
<1>8. \A q \in FwPf : fwall_head'[q] = <<>>
  BY <1>1, <1>6, FwConstants, Zenon DEF FwInv
<1>9. RuleIdsUnique'
  <2>1. \A j, k \in DOMAIN new : new[j].id = new[k].id => j = k
    <3>1. \A j, k \in 1 .. Len(list) : list[j].id = list[k].id => j = k
      BY <1>1, <1>2 DEF FwInv, RuleIdsUnique
    <3>2. FwRule(r).id = r.id
      BY Zenon DEF FwRule
    <3>3. \A j \in 1 .. Len(list) : list[j].id # r.id
      BY <1>2 DEF CreateFwRule
    <3>4. DOMAIN new = 1 .. Len(list) + 1 /\ Len(list) \in Nat
      BY <1>2, <1>3
    <3>5. \A k \in 1 .. Len(list) : new[k].id = list[k].id
      BY <1>3, Zenon
    <3>6. new[Len(list) + 1].id = r.id
      BY <1>3, <3>2, Zenon
    <3> HIDE DEF list
    <3> QED
      BY <3>1, <3>3, <3>4, <3>5, <3>6
  <2> QED
    BY <1>6, <2>1, Zenon DEF FwInv, RuleIdsUnique
<1>10. UNCHANGED <<fw_flow, fw_allowed, fw_alive>>
  BY Zenon DEF CreateFwRule
<1> QED
  BY <1>5, <1>7, <1>8, <1>9, <1>10, Zenon DEF FwInv, VerdictIsBySet

LEMMA DeleteKeeps ==
  ASSUME FwInv, NEW port \in Vfs, NEW i \in 1 .. MaxRules, DeleteFwRule(port, i)
  PROVE  FwInv'
<1> DEFINE list == fwall_head[port]
           new == ListWithout(list, i)
<1>1. port \in FwPort /\ port \notin FwPf
  BY Zenon DEF Vfs
<1>2. list \in Seq(StoredRule) /\ i \in 1 .. Len(list) /\ Len(list) \in Nat
  BY <1>1 DEF FwInv, DeleteFwRule
<1>3. /\ new \in Seq(StoredRule) /\ Len(new) = Len(list) - 1
      /\ \A k \in 1 .. Len(list) - 1 : k < i => new[k] = list[k]
      /\ \A k \in 1 .. Len(list) - 1 : k >= i => new[k] = list[k + 1]
  BY <1>2, OneRemoved, Zenon
<1>4. fwall_head' = [fwall_head EXCEPT ![port] = new]
  BY Zenon DEF DeleteFwRule
<1> HIDE DEF new
<1>5. fwall_head' \in [FwPort -> Seq(StoredRule)]
  BY <1>1, <1>3, <1>4, Zenon DEF FwInv
<1>6. fwall_head'[port] = new /\ \A q \in FwPort : q # port => fwall_head'[q] = fwall_head[q]
  BY <1>1, <1>4, Zenon DEF FwInv
<1>7. \A q \in FwPort : Len(fwall_head'[q]) <= MaxRules
  <2>1. Len(list) <= MaxRules
    BY <1>1, Zenon DEF FwInv
  <2>2. Len(new) <= MaxRules
    BY <1>2, <1>3, <2>1, FwConstants
  <2> QED
    BY <1>6, <2>2, Zenon DEF FwInv
<1>8. \A q \in FwPf : fwall_head'[q] = <<>>
  BY <1>1, <1>6, FwConstants, Zenon DEF FwInv
<1>9. RuleIdsUnique'
  <2>1. \A j, k \in DOMAIN new : new[j].id = new[k].id => j = k
    <3>1. \A j, k \in 1 .. Len(list) : list[j].id = list[k].id => j = k
      BY <1>1, <1>2 DEF FwInv, RuleIdsUnique
    <3>2. DOMAIN new = 1 .. Len(list) - 1
      BY <1>2, <1>3
    <3>3. \A k \in 1 .. Len(list) - 1 : k < i => new[k].id = list[k].id
      BY <1>3, Zenon
    <3>4. \A k \in 1 .. Len(list) - 1 : k >= i => new[k].id = list[k + 1].id
      BY <1>3, Zenon
    <3> HIDE DEF list
    <3> QED
      BY <1>2, <3>1, <3>2, <3>3, <3>4, SMTT(30)
  <2> QED
    BY <1>6, <2>1, Zenon DEF FwInv, RuleIdsUnique
<1>10. UNCHANGED <<fw_flow, fw_allowed, fw_alive>>
  BY Zenon DEF DeleteFwRule
<1> QED
  BY <1>5, <1>7, <1>8, <1>9, <1>10, Zenon DEF FwInv, VerdictIsBySet

LEMMA GoneKeeps ==
  ASSUME FwInv, NEW port \in Vfs, FwIfaceGone(port)
  PROVE  FwInv'
<1>1. port \in FwPort /\ port \notin FwPf
  BY Zenon DEF Vfs
<1>2. fwall_head' = [fwall_head EXCEPT ![port] = <<>>]
  BY Zenon DEF FwIfaceGone
<1>3. fwall_head' \in [FwPort -> Seq(StoredRule)]
  BY <1>1, <1>2 DEF FwInv
<1>4. fwall_head'[port] = <<>> /\ \A q \in FwPort : q # port => fwall_head'[q] = fwall_head[q]
  BY <1>1, <1>2, Zenon DEF FwInv
<1>5. \A q \in FwPort : Len(fwall_head'[q]) <= MaxRules
  BY <1>4, FwConstants DEF FwInv
<1>6. \A q \in FwPf : fwall_head'[q] = <<>>
  BY <1>1, <1>4, FwConstants, Zenon DEF FwInv
<1>7. RuleIdsUnique'
  BY <1>4 DEF FwInv, RuleIdsUnique
<1>8. fw_flow' \in [FwFlow -> {"ACCEPT", "DROP", "gone", UNJUDGED}] /\ VerdictIsBySet'
  BY Zenon DEF FwIfaceGone, FwInv, VerdictIsBySet
<1> QED
  BY <1>3, <1>5, <1>6, <1>7, <1>8, Zenon DEF FwInv, FwIfaceGone

LEMMA FlowStepKeeps ==
  ASSUME FwInv, NEW f \in FwFlow, FwFlowStarts(f) \/ FwFlowEnds(f)
  PROVE  FwInv'
<1>1. fw_flow' \in [FwFlow -> {"ACCEPT", "DROP", "gone", UNJUDGED}] /\ VerdictIsBySet'
  BY FwAssumption, ZenonT(40) DEF FwFlowStarts, FwFlowEnds, FwInv, VerdictIsBySet
<1> QED
  BY <1>1, Zenon DEF FwFlowStarts, FwFlowEnds, FwInv, RuleIdsUnique

LEMMA JudgeKeeps ==
  ASSUME FwInv, NEW f \in FwFlow, FwJudge(f)
  PROVE  FwInv'
<1> DEFINE act == get_firewall_action(f.in, f.out, f.pkt)
           allowed == AllowedBySet(f.in, f.out, f.pkt)
<1>1. act \in {"ACCEPT", "DROP"} /\ (act = "ACCEPT" <=> allowed)
  <2>1. f.in \in FwPort /\ f.out \in FwPort
    BY FwAssumption, Zenon
  <2> QED
    BY <2>1, ActionBySet, Zenon
<1>2. allowed \in BOOLEAN
  BY Zenon DEF AllowedBySet
<1>3. \/ /\ fw_flow' = [fw_flow EXCEPT ![f] = act]
         /\ fw_allowed' = [fw_allowed EXCEPT ![f] = allowed]
         /\ UNCHANGED fw_alive
      \/ /\ fw_alive' = FALSE
         /\ UNCHANGED <<fw_flow, fw_allowed>>
  BY Zenon DEF FwJudge
<1> HIDE DEF act, allowed
<1>4. /\ fw_flow' \in [FwFlow -> {"ACCEPT", "DROP", "gone", UNJUDGED}]
      /\ fw_allowed' \in [FwFlow -> BOOLEAN] /\ fw_alive' \in BOOLEAN
  BY <1>1, <1>2, <1>3, Zenon DEF FwInv
<1>5. VerdictIsBySet'
  BY <1>1, <1>3, Zenon DEF FwInv, VerdictIsBySet
<1> QED
  BY <1>4, <1>5, Zenon DEF FwInv, FwJudge, RuleIdsUnique

LEMMA FirewallInvariance ==
  FwSpec => []FwInv
<1>1. FwInv /\ [FwNext]_fwVars => FwInv'
  <2> SUFFICES ASSUME FwInv, [FwNext]_fwVars PROVE FwInv'
    OBVIOUS
  <2>1. CASE UNCHANGED fwVars
    BY <2>1, Zenon DEF FwInv, fwVars, RuleIdsUnique, VerdictIsBySet
  <2>2. CASE FwNext
    BY <2>2, CreateKeeps, DeleteKeeps, GoneKeeps, FlowStepKeeps, JudgeKeeps, Zenon DEF FwNext
  <2> QED
    BY <2>1, <2>2, Zenon
<1> QED
  BY <1>1, FwStart, PTL DEF FwSpec

(***************************************************************************)
(* For every set of requests, flows and ports: the verdict of a flow is    *)
(* what the set of rules said when its first packet was judged, whatever   *)
(* the order in which the rules were created (dp_get_firewall_action).     *)
(***************************************************************************)
THEOREM VerdictsAreBySet ==
  FwSpec => []VerdictIsBySet
<1>1. FwInv => VerdictIsBySet
  BY Zenon DEF FwInv
<1> QED
  BY <1>1, FirewallInvariance, PTL

(***************************************************************************)
(* An identifier never names two rules of an interface: the check of       *)
(* dp_process_create_fwrule() is enough, deletions included.               *)
(***************************************************************************)
THEOREM RuleIdsStayUnique ==
  FwSpec => []RuleIdsUnique
<1>1. FwInv => RuleIdsUnique
  BY DEF FwInv
<1> QED
  BY <1>1, FirewallInvariance, PTL

(* A word of the filter, converted and converted back. *)
LEMMA WordReadsBack ==
  ASSUME NEW x \in Int, NEW limit, limit \in {255, 65535}, WordOK(x, limit)
  PROVE  (IF GrpcToDpFwallPort(x) = ANY THEN -1 ELSE GrpcToDpFwallPort(x)) = x
  BY DEF GrpcToDpFwallPort, ANY, WordOK

(***************************************************************************)
(* Every rule the service accepts is shown by a Get as it was created,     *)
(* ports and ICMP fields at their limits included, but for the lengths of  *)
(* IPv6 prefixes beyond 32 (DpToGrpcFwrule).                               *)
(***************************************************************************)
THEOREM RulesReadBack ==
  FwSpec => []RuleReadsBack
<1>1. RuleReadsBack
  <2> SUFFICES ASSUME NEW r \in FwRequest, FwRequestOK(r)
               PROVE  ShownAs(DpToGrpcFwrule(FwRule(r)), r)
    BY Zenon DEF RuleReadsBack
  <2> DEFINE rule == FwRule(r)
             shown == DpToGrpcFwrule(rule)
  <2>1. /\ rule.proto = r.proto /\ rule.src = r.src /\ rule.dst = r.dst
        /\ rule.src_mask = PrefixLenToMask(r.src) /\ rule.dst_mask = PrefixLenToMask(r.dst)
        /\ rule.w = CASE r.proto \in {"TCP", "UDP"} -> [i \in 1 .. 4 |-> GrpcToDpFwallPort(r.w[i])]
                      [] r.proto = "ICMP" -> <<GrpcToDpFwallPort(r.w[1]), GrpcToDpFwallPort(r.w[2]), 0, 0>>
                      [] OTHER            -> <<ANY, 0, ANY, 0>>
    BY Zenon DEF FwRule
  <2> HIDE DEF rule
  <2>2. /\ shown.proto = rule.proto
        /\ shown.src_len = SetupIpAndPrefix(rule.src, rule.src_mask)
        /\ shown.dst_len = SetupIpAndPrefix(rule.dst, rule.dst_mask)
        /\ shown.w = [i \in 1 .. 4 |-> IF rule.w[i] = ANY THEN -1 ELSE rule.w[i]]
    BY Zenon DEF DpToGrpcFwrule
  <2> HIDE DEF shown
  <2>3. r.w \in [1 .. 4 -> Int] /\ r.src.len \in Nat /\ r.dst.len \in Nat
    BY FwAssumption, Zenon
  <2>4. ASSUME NEW p, p.len \in Nat
        PROVE  SetupIpAndPrefix(p, PrefixLenToMask(p)) = IF p.v6 /\ p.len > 32 THEN 32 ELSE p.len
    BY <2>4 DEF SetupIpAndPrefix, PrefixLenToMask
  <2>5. ASSUME r.proto \in {"TCP", "UDP"} PROVE shown.w = r.w
    <3>1. rule.w = [i \in 1 .. 4 |-> GrpcToDpFwallPort(r.w[i])]
      BY <2>1, <2>5
    <3>2. \A i \in 1 .. 4 : WordOK(r.w[i], 65535)
      BY <2>5 DEF FwRequestOK
    <3>3. \A i \in 1 .. 4 : (IF rule.w[i] = ANY THEN -1 ELSE rule.w[i]) = r.w[i]
      <4> TAKE i \in 1 .. 4
      <4>1. rule.w[i] = GrpcToDpFwallPort(r.w[i])
        BY <3>1, Zenon
      <4>2. r.w[i] \in Int
        BY <2>3, Zenon
      <4> QED
        BY <3>2, <4>1, <4>2, WordReadsBack
    <3> QED
      BY <2>2, <2>3, <3>3, Zenon
  <2>6. ASSUME r.proto = "ICMP" PROVE shown.w[1] = r.w[1] /\ shown.w[2] = r.w[2]
    <3>1. rule.w[1] = GrpcToDpFwallPort(r.w[1]) /\ rule.w[2] = GrpcToDpFwallPort(r.w[2])
      BY <2>1, <2>6
    <3>2. WordOK(r.w[1], 255) /\ WordOK(r.w[2], 255)
      BY <2>6 DEF FwRequestOK
    <3>3. r.w[1] \in Int /\ r.w[2] \in Int
      BY <2>3
    <3>4. /\ (IF rule.w[1] = ANY THEN -1 ELSE rule.w[1]) = r.w[1]
          /\ (IF rule.w[2] = ANY THEN -1 ELSE rule.w[2]) = r.w[2]
      BY <3>1, <3>2, <3>3, WordReadsBack
    <3> QED
      BY <2>2, <3>4
  <2>7. /\ shown.src_len = IF r.src.v6 /\ r.src.len > 32 THEN 32 ELSE r.src.len
        /\ shown.dst_len = IF r.dst.v6 /\ r.dst.len > 32 THEN 32 ELSE r.dst.len
    BY <2>1, <2>2, <2>3, <2>4, Zenon
  <2>8. ShownAs(shown, r)
    BY <2>1, <2>2, <2>5, <2>6, <2>7, Zenon DEF ShownAs
  <2> QED
    BY <2>8, Zenon DEF shown, rule
<1> QED
  BY <1>1, PTL

(***************************************************************************)
(* A verdict never changes while conntrack tracks the flow, whatever       *)
(* happens to the rules: firewall_node judges a flow without verdict only. *)
(***************************************************************************)
THEOREM VerdictsStay ==
  FwSpec => VerdictStays
<1> DEFINE Stays == \A f \in FwFlow : fw_flow[f] \in {"ACCEPT", "DROP"} => fw_flow'[f] \in {fw_flow[f], "gone"}
<1>1. FwInv /\ [FwNext]_fwVars => [Stays]_fwVars
  <2> SUFFICES ASSUME FwInv, FwNext PROVE Stays
    OBVIOUS
  <2>1. \/ UNCHANGED fw_flow
        \/ \E port \in Vfs : fw_flow' = [g \in FwFlow |-> IF port \in {g.in, g.out} THEN "gone" ELSE fw_flow[g]]
        \/ \E g \in FwFlow : fw_flow[g] \in {"gone", UNJUDGED} /\ \A f \in FwFlow \ {g} : fw_flow'[f] = fw_flow[f]
        \/ \E g \in FwFlow : fw_flow' = [fw_flow EXCEPT ![g] = "gone"]
    <3>1. CASE \E port \in Vfs : (\E r \in FwRequest : CreateFwRule(port, r)) \/ (\E i \in 1 .. MaxRules : DeleteFwRule(port, i))
      BY <3>1, Zenon DEF CreateFwRule, DeleteFwRule
    <3>2. CASE \E port \in Vfs : FwIfaceGone(port)
      BY <3>2, Zenon DEF FwIfaceGone
    <3>3. CASE \E g \in FwFlow : FwFlowStarts(g) \/ FwFlowEnds(g)
      BY <3>3, Zenon DEF FwFlowStarts, FwFlowEnds, FwInv
    <3>4. CASE \E g \in FwFlow : FwJudge(g)
      BY <3>4, Zenon DEF FwJudge, FwInv
    <3> QED
      BY <3>1, <3>2, <3>3, <3>4, Zenon DEF FwNext
  <2>2. fw_flow \in [FwFlow -> {"ACCEPT", "DROP", "gone", UNJUDGED}] /\ UNJUDGED \notin {"ACCEPT", "DROP", "gone"}
    BY FwAssumption, Zenon DEF FwInv
  <2> QED
    BY <2>1, <2>2, Zenon
<1> QED
  BY <1>1, FirewallInvariance, PTL DEF FwSpec, VerdictStays

-----------------------------------------------------------------------------
(* What holds at 0 and goes on from each number to the next holds up to    *)
(* any number.                                                             *)
LEMMA StepByStep ==
  ASSUME NEW N \in Nat, NEW T, 0 \in T, \A n \in 1 .. N : n - 1 \in T => n \in T
  PROVE  \A n \in 0 .. N : n \in T
<1> DEFINE Bad == {n \in Nat : n <= N /\ n \notin T}
<1> SUFFICES ASSUME Bad # {} PROVE FALSE
  OBVIOUS
<1>1. PICK n \in Bad : \A m \in Bad : n <= m
  BY LeastNumber, Zenon
<1>2. n \in 1 .. N /\ n - 1 \in Nat /\ n - 1 \notin Bad /\ n - 1 <= N
  BY <1>1
<1> QED BY <1>1, <1>2, Zenon

-----------------------------------------------------------------------------
(* The targets of a load balancer in the order of their addresses, for any *)
(* number of targets, any hashes and any size of the lookup table.         *)

Increasing(ips) == \A m, n \in 1 .. Len(ips) : m < n => ips[m] < ips[n]
Targets(ips) == {ips[i] : i \in 1 .. Len(ips)}

LEMMA TargetNumbers ==
  ASSUME NEW ips \in Seq(Backend)
  PROVE  /\ Len(ips) \in Nat /\ DOMAIN ips = 1 .. Len(ips)
         /\ \A i \in 1 .. Len(ips) : ips[i] \in Backend /\ ips[i] \in Nat
<1>1. /\ Len(ips) \in Nat /\ DOMAIN ips = 1 .. Len(ips)
      /\ \A i \in 1 .. Len(ips) : ips[i] \in Backend
  OBVIOUS
<1> QED BY <1>1, MaglevAssumption, Zenon

LEMMA CutInTwo ==
  ASSUME NEW S, NEW s \in Seq(S), NEW n \in 0 .. Len(s)
  PROVE  /\ SubSeq(s, 1, n) \in Seq(S) /\ Len(SubSeq(s, 1, n)) = n
         /\ \A i \in 1 .. n : SubSeq(s, 1, n)[i] = s[i]
         /\ SubSeq(s, n + 1, Len(s)) \in Seq(S) /\ Len(SubSeq(s, n + 1, Len(s))) = Len(s) - n
         /\ \A i \in 1 .. Len(s) - n : SubSeq(s, n + 1, Len(s))[i] = s[i + n]
<1>1. /\ SubSeq(s, 1, n) \in Seq(S) /\ Len(SubSeq(s, 1, n)) = n
      /\ \A i \in 1 .. n : SubSeq(s, 1, n)[i] = s[i]
  OBVIOUS
<1>2. SubSeq(s, n + 1, Len(s)) \in Seq(S) /\ Len(SubSeq(s, n + 1, Len(s))) = Len(s) - n
  OBVIOUS
<1>3. \A i \in 1 .. Len(s) - n : SubSeq(s, n + 1, Len(s))[i] = s[i + n]
  OBVIOUS
<1> QED BY <1>1, <1>2, <1>3, Zenon

(* dp_add_maglev_backend(): where a new address goes, and what the list is *)
(* then.                                                                   *)
LEMMA Inserted ==
  ASSUME NEW ips \in Seq(Backend), Increasing(ips), NEW b \in Backend, b \notin Targets(ips)
  PROVE  /\ InsertSorted(ips, b) \in Seq(Backend) /\ InsertSorted(ips, b) # <<>>
         /\ Increasing(InsertSorted(ips, b))
         /\ Targets(InsertSorted(ips, b)) = Targets(ips) \cup {b}
<1> DEFINE L == Len(ips)
           Fits(m) == (\A i \in 1 .. m : ips[i] <= b) /\ (m < L => ips[m + 1] > b)
           T == {m \in 0 .. L : m < L => ips[m + 1] > b}
           n == CHOOSE m \in 0 .. L : Fits(m)
           x == SubSeq(ips, 1, n)
           y == SubSeq(ips, n + 1, L)
           new == InsertSorted(ips, b)
<1>1. L \in Nat /\ DOMAIN ips = 1 .. L /\ b \in Nat /\ \A i \in 1 .. L : ips[i] \in Backend /\ ips[i] \in Nat
  BY TargetNumbers, MaglevAssumption, Zenon
<1>2. \E m \in 0 .. L : Fits(m)
  <2>1. T \subseteq Nat /\ L \in T
    BY <1>1
  <2>2. PICK m \in T : \A l \in T : m <= l
    BY <2>1, LeastNumber, Zenon
  <2>3. ASSUME NEW i \in 1 .. m PROVE ips[i] <= b
    <3>0. m \in 0 .. L
      OBVIOUS
    <3>1. i - 1 \in 0 .. L /\ ~(m <= i - 1) /\ i - 1 < L /\ (i - 1) + 1 = i /\ i \in 1 .. L
      BY <1>1, <3>0
    <3>2. i - 1 \notin T
      BY <2>2, <3>1, Zenon
    <3> QED BY <1>1, <3>1, <3>2
  <2> QED BY <2>2, <2>3, Zenon
<1>3. n \in 0 .. L /\ Fits(n)
  BY <1>2, Zenon
<1>4. new = x \o <<b>> \o y
  BY Zenon DEF InsertSorted
<1> HIDE DEF n
<1>5. x \in Seq(Backend) /\ Len(x) = n /\ \A i \in 1 .. n : x[i] = ips[i]
  BY <1>3, CutInTwo
<1>6. y \in Seq(Backend) /\ Len(y) = L - n /\ \A i \in 1 .. L - n : y[i] = ips[i + n]
  BY <1>3, CutInTwo
<1> HIDE DEF x, y, new
<1>7. ASSUME NEW u \in Seq(Backend), NEW v \in Seq(Backend)
      PROVE  /\ u \o <<b>> \o v \in Seq(Backend) /\ Len(u \o <<b>> \o v) = Len(u) + 1 + Len(v)
             /\ \A k \in 1 .. Len(u) : (u \o <<b>> \o v)[k] = u[k]
             /\ (u \o <<b>> \o v)[Len(u) + 1] = b
             /\ \A k \in 1 .. Len(v) : (u \o <<b>> \o v)[Len(u) + 1 + k] = v[k]
  OBVIOUS
<1>8. /\ new \in Seq(Backend) /\ Len(new) = Len(x) + 1 + Len(y)
      /\ \A k \in 1 .. Len(x) : new[k] = x[k]
      /\ new[Len(x) + 1] = b
      /\ \A k \in 1 .. Len(y) : new[Len(x) + 1 + k] = y[k]
  BY <1>4, <1>5, <1>6, <1>7, ZenonT(40)
<1>9. /\ Len(new) = L + 1 /\ new[n + 1] = b
      /\ \A k \in 1 .. n : new[k] = ips[k] /\ ips[k] < b
      /\ \A k \in n + 1 .. L : new[k + 1] = ips[k] /\ b < ips[k]
  <2>1. Len(new) = L + 1 /\ new[n + 1] = b
    BY <1>1, <1>3, <1>5, <1>6, <1>8
  <2>2. ASSUME NEW k \in 1 .. n PROVE new[k] = ips[k] /\ ips[k] < b
    <3>1. new[k] = ips[k] /\ k \in 1 .. L
      BY <1>1, <1>3, <1>5, <1>8
    <3>2. ips[k] <= b /\ ips[k] # b
      BY <1>3, <3>1, Zenon DEF Targets
    <3> QED BY <1>1, <3>1, <3>2
  <2>3. ASSUME NEW k \in n + 1 .. L PROVE new[k + 1] = ips[k] /\ b < ips[k]
    <3>1. k - n \in 1 .. L - n /\ n + 1 + (k - n) = k + 1 /\ (k - n) + n = k /\ k \in 1 .. L /\ n < L /\ n + 1 \in 1 .. L
      BY <1>1, <1>3
    <3>2. new[n + 1 + (k - n)] = y[k - n] /\ y[k - n] = ips[(k - n) + n]
      BY <1>5, <1>6, <1>8, <3>1, Zenon
    <3>3. ips[n + 1] > b /\ (k = n + 1 \/ ips[n + 1] < ips[k])
      <4>1. k = n + 1 \/ n + 1 < k
        BY <1>1, <1>3
      <4> QED BY <1>1, <1>3, <3>1, <4>1, Zenon DEF Increasing
    <3> QED BY <1>1, <3>1, <3>2, <3>3
  <2> QED BY <2>1, <2>2, <2>3, Zenon
<1>10. Increasing(new)
  <2> SUFFICES ASSUME NEW i \in 1 .. L + 1, NEW j \in 1 .. L + 1, i < j PROVE new[i] < new[j]
    BY <1>9, Zenon DEF Increasing
  <2>1. CASE j <= n
    <3>1. i \in 1 .. n /\ j \in 1 .. n /\ i \in 1 .. L /\ j \in 1 .. L
      BY <1>1, <1>3, <2>1
    <3> QED BY <1>9, <3>1, Zenon DEF Increasing
  <2>2. CASE j = n + 1
    <3>1. i \in 1 .. n
      BY <1>1, <1>3, <2>2
    <3> QED BY <1>9, <2>2, <3>1, Zenon
  <2>3. CASE j > n + 1
    <3>1. j - 1 \in n + 1 .. L /\ (j - 1) + 1 = j /\ j - 1 \in 1 .. L
      BY <1>1, <1>3, <2>3
    <3>2. new[j] = ips[j - 1] /\ b < ips[j - 1]
      BY <1>9, <3>1, Zenon
    <3>3. CASE i <= n
      <4>1. i \in 1 .. n /\ i \in 1 .. L
        BY <1>1, <1>3, <3>3
      <4>2. new[i] = ips[i] /\ ips[i] < b
        BY <1>9, <4>1, Zenon
      <4> QED BY <1>1, <3>1, <3>2, <4>1, <4>2
    <3>4. CASE i = n + 1
      BY <1>9, <3>2, <3>4, Zenon
    <3>5. CASE i > n + 1
      <4>1. i - 1 \in n + 1 .. L /\ (i - 1) + 1 = i /\ i - 1 \in 1 .. L /\ i - 1 < j - 1
        BY <1>1, <1>3, <3>5, <3>1
      <4>2. new[i] = ips[i - 1]
        BY <1>9, <4>1, Zenon
      <4> QED BY <3>1, <3>2, <4>1, <4>2, Zenon DEF Increasing
    <3> QED BY <1>1, <1>3, <3>3, <3>4, <3>5
  <2> QED BY <1>1, <1>3, <2>1, <2>2, <2>3
<1>11. Targets(new) = Targets(ips) \cup {b}
  <2>1. ASSUME NEW i \in 1 .. L + 1 PROVE new[i] \in Targets(ips) \cup {b}
    <3>1. CASE i <= n
      <4>1. i \in 1 .. n /\ i \in 1 .. L
        BY <1>1, <1>3, <3>1
      <4> QED BY <1>9, <4>1, Zenon DEF Targets
    <3>2. CASE i = n + 1
      BY <1>9, <3>2, Zenon
    <3>3. CASE i > n + 1
      <4>1. i - 1 \in n + 1 .. L /\ (i - 1) + 1 = i /\ i - 1 \in 1 .. L
        BY <1>1, <1>3, <3>3
      <4>2. new[i] = ips[i - 1]
        BY <1>9, <4>1, Zenon
      <4> QED BY <4>1, <4>2, Zenon DEF Targets
    <3> QED BY <1>1, <1>3, <3>1, <3>2, <3>3
  <2>2. ASSUME NEW i \in 1 .. L PROVE \E j \in 1 .. L + 1 : new[j] = ips[i]
    <3>1. CASE i <= n
      <4>1. i \in 1 .. n /\ i \in 1 .. L + 1
        BY <1>1, <1>3, <3>1
      <4> QED BY <1>9, <4>1, Zenon
    <3>2. CASE i > n
      <4>1. i \in n + 1 .. L /\ i + 1 \in 1 .. L + 1
        BY <1>1, <1>3, <3>2
      <4> QED BY <1>9, <4>1, Zenon
    <3> QED BY <1>1, <1>3, <3>1, <3>2
  <2>3. n + 1 \in 1 .. L + 1
    BY <1>1, <1>3
  <2> QED BY <1>9, <2>1, <2>2, <2>3, SMTT(30) DEF Targets
<1>12. new # <<>>
  <2>1. Len(<<>>) = 0
    OBVIOUS
  <2> QED BY <1>1, <1>9, <2>1
<1> QED BY <1>8, <1>10, <1>11, <1>12, Zenon DEF new

(* dp_delete_maglev_backend(): the addresses that stay. *)
LEMMA Removed ==
  ASSUME NEW ips \in Seq(Backend), Increasing(ips), NEW b \in Targets(ips)
  PROVE  /\ RemoveSorted(ips, b) \in Seq(Backend)
         /\ Increasing(RemoveSorted(ips, b))
         /\ Targets(RemoveSorted(ips, b)) = Targets(ips) \ {b}
         /\ Len(RemoveSorted(ips, b)) = Len(ips) - 1
<1> DEFINE L == Len(ips)
           n == CHOOSE i \in DOMAIN ips : ips[i] = b
           new == RemoveSorted(ips, b)
<1>1. L \in Nat /\ DOMAIN ips = 1 .. L /\ \A i \in 1 .. L : ips[i] \in Backend /\ ips[i] \in Nat
  BY TargetNumbers, Zenon
<1>2. n \in 1 .. L /\ ips[n] = b
  BY <1>1, Zenon DEF Targets
<1>3. new = ListWithout(ips, n)
  BY Zenon DEF RemoveSorted, ListWithout
<1> HIDE DEF n, new
<1>4. /\ new \in Seq(Backend) /\ Len(new) = L - 1
      /\ \A k \in 1 .. L - 1 : k < n => new[k] = ips[k]
      /\ \A k \in 1 .. L - 1 : k >= n => new[k] = ips[k + 1]
  BY <1>2, <1>3, OneRemoved, Zenon
<1>5. Increasing(new)
  <2> SUFFICES ASSUME NEW i \in 1 .. L - 1, NEW j \in 1 .. L - 1, i < j PROVE new[i] < new[j]
    BY <1>4, Zenon DEF Increasing
  <2>1. i \in 1 .. L /\ j \in 1 .. L /\ i + 1 \in 1 .. L /\ j + 1 \in 1 .. L
    BY <1>1
  <2>2. CASE j < n
    BY <1>4, <2>1, <2>2, <1>2 DEF Increasing
  <2>3. CASE i >= n
    <3>1. new[i] = ips[i + 1] /\ new[j] = ips[j + 1] /\ i + 1 < j + 1
      BY <1>1, <1>2, <1>4, <2>3
    <3> QED BY <2>1, <3>1, Zenon DEF Increasing
  <2>4. CASE i < n /\ j >= n
    <3>1. new[i] = ips[i] /\ new[j] = ips[j + 1] /\ i < j + 1
      BY <1>1, <1>2, <1>4, <2>4
    <3> QED BY <2>1, <3>1, Zenon DEF Increasing
  <2> QED BY <1>1, <1>2, <2>2, <2>3, <2>4
<1>6. \A i \in 1 .. L : i # n => ips[i] # b
  <2> SUFFICES ASSUME NEW i \in 1 .. L, i # n PROVE ips[i] # ips[n]
    BY <1>2, Zenon
  <2>1. i < n \/ n < i
    BY <1>1, <1>2
  <2> QED BY <1>1, <1>2, <2>1 DEF Increasing
<1>7. Targets(new) = Targets(ips) \ {b}
  <2>1. ASSUME NEW k \in 1 .. L - 1 PROVE new[k] \in Targets(ips) \ {b}
    <3>1. CASE k < n
      <4>1. k \in 1 .. L /\ k # n
        BY <1>1, <3>1, <1>2
      <4> QED BY <1>4, <1>6, <3>1, <4>1, Zenon DEF Targets
    <3>2. CASE k >= n
      <4>1. k + 1 \in 1 .. L /\ k + 1 # n
        BY <1>1, <3>2, <1>2
      <4> QED BY <1>4, <1>6, <3>2, <4>1, Zenon DEF Targets
    <3> QED BY <1>1, <1>2, <3>1, <3>2
  <2>2. ASSUME NEW i \in 1 .. L, ips[i] # b PROVE \E k \in 1 .. L - 1 : new[k] = ips[i]
    <3>1. CASE i < n
      <4>1. i \in 1 .. L - 1
        BY <1>1, <1>2, <3>1
      <4> QED BY <1>4, <3>1, <4>1, Zenon
    <3>2. CASE i > n
      <4>1. i - 1 \in 1 .. L - 1 /\ i - 1 >= n /\ (i - 1) + 1 = i
        BY <1>1, <1>2, <3>2
      <4> QED BY <1>4, <4>1, Zenon
    <3> QED BY <1>1, <1>2, <2>2, <3>1, <3>2
  <2>3. Targets(new) \subseteq Targets(ips) \ {b}
    BY <1>4, <2>1, Zenon DEF Targets
  <2>4. ASSUME NEW a \in Targets(ips), a # b PROVE a \in Targets(new)
    <3>1. PICK i \in 1 .. L : ips[i] = a
      BY Zenon DEF Targets
    <3>2. PICK k \in 1 .. L - 1 : new[k] = ips[i]
      BY <2>2, <2>4, <3>1, Zenon
    <3> QED BY <1>4, <3>1, <3>2, Zenon DEF Targets
  <2> QED BY <2>3, <2>4, Zenon
<1> QED BY <1>4, <1>5, <1>7, Zenon DEF new

-----------------------------------------------------------------------------
(* The lookup table, turn by turn. *)
Fresh(ips) ==
  [hash |-> [s \in Slot |-> POS_FREE], next |-> [i \in DOMAIN ips |-> 0], num |-> 0]

Turn(ips, t, n) ==
  IF t.num = LookupSize THEN t ELSE populate_turn(ips, t, ((n - 1) % Len(ips)) + 1)

Turns(ips) ==
  CHOOSE f : f = [n \in 0 .. Len(ips) * LookupSize |->
                    IF n = 0 THEN Fresh(ips) ELSE Turn(ips, f[n - 1], n)]

TurnByTurn(f, ips) ==
  f[0] = Fresh(ips) /\ \A n \in 1 .. Len(ips) * LookupSize : f[n] = Turn(ips, f[n - 1], n)

LEMMA TurnNumber ==
  ASSUME NEW l \in Nat
  PROVE  l * LookupSize \in Nat
  BY MaglevAssumption

LEMMA TurnsUnfold ==
  ASSUME NEW ips, Len(ips) \in Nat
  PROVE  TurnByTurn(Turns(ips), ips)
<1> DEFINE N == Len(ips) * LookupSize
           Begins(f, n) == f = [m \in 0 .. n |-> IF m = 0 THEN Fresh(ips) ELSE Turn(ips, f[m - 1], m)]
           Bad == {n \in Nat : ~ \E f : Begins(f, n)}
<1>0. N \in Nat
  BY TurnNumber, Zenon
<1>1. Bad = {}
  <2> SUFFICES ASSUME Bad # {} PROVE FALSE
    OBVIOUS
  <2>1. PICK n \in Bad : \A m \in Bad : n <= m
    BY LeastNumber, Zenon
  <2>2. CASE n = 0
    <3> DEFINE g == [m \in 0 .. 0 |-> Fresh(ips)]
    <3>1. Begins(g, 0)
      OBVIOUS
    <3> QED BY <2>2, <3>1, Zenon
  <2>3. CASE n # 0
    <3>0. n \in Nat /\ n - 1 \in Nat /\ ~(n <= n - 1)
      <4>1. n \in Nat
        OBVIOUS
      <4> QED BY <4>1, <2>3
    <3>1. n \in Nat /\ n - 1 \in Nat /\ n - 1 \notin Bad
      <4> HIDE DEF Bad
      <4> QED BY <2>1, <3>0, Zenon
    <3>2. PICK f : Begins(f, n - 1)
      BY <3>1, Zenon
    <3> DEFINE g == [m \in 0 .. n |-> IF m = n THEN Turn(ips, f[n - 1], n) ELSE f[m]]
    <3>3. \A m \in 0 .. n - 1 : g[m] = f[m]
      BY <3>1
    <3>4. \A m \in 0 .. n - 1 : f[m] = IF m = 0 THEN Fresh(ips) ELSE Turn(ips, f[m - 1], m)
      BY <3>2, Zenon
    <3>5. g[n] = Turn(ips, g[n - 1], n)
      BY <3>1, <3>3
    <3> HIDE DEF g
    <3>6. \A m \in 0 .. n : g[m] = IF m = 0 THEN Fresh(ips) ELSE Turn(ips, g[m - 1], m)
      <4> SUFFICES ASSUME NEW m \in 0 .. n PROVE g[m] = IF m = 0 THEN Fresh(ips) ELSE Turn(ips, g[m - 1], m)
        OBVIOUS
      <4>1. CASE m = n
        BY <4>1, <3>5, <2>3, Zenon
      <4>2. CASE m # n
        <5>1. m \in 0 .. n - 1 /\ (m # 0 => m - 1 \in 0 .. n - 1)
          BY <4>2, <3>1
        <5> QED BY <5>1, <3>3, <3>4, Zenon
      <4> QED BY <4>1, <4>2, Zenon
    <3>7. Begins(g, n)
      BY <3>6, Zenon DEF g
    <3> QED BY <3>7, <2>1, Zenon
  <2> QED BY <2>2, <2>3, Zenon
<1>2. \E f : Begins(f, N)
  BY <1>0, <1>1, Zenon
<1>3. Turns(ips) = [n \in 0 .. N |-> IF n = 0 THEN Fresh(ips) ELSE Turn(ips, Turns(ips)[n - 1], n)]
  BY <1>2, Zenon DEF Turns
<1>4. 0 \in 0 .. N /\ \A n \in 1 .. N : n \in 0 .. N /\ n # 0
  BY <1>0
<1> HIDE DEF Begins
<1> QED BY <1>3, <1>4, Zenon DEF TurnByTurn

LEMMA RoundsAreTurns ==
  ASSUME NEW ips
  PROVE  populate_rounds(ips) = Turns(ips)[Len(ips) * LookupSize]
  BY Zenon DEF populate_rounds, Turns, Fresh, Turn

(* A slot is free or holds the number of a target, from the first turn to  *)
(* the last.                                                               *)
LEMMA TurnTyped ==
  ASSUME NEW ips, NEW l \in Nat, l = Len(ips), l > 0, NEW n \in Nat, n > 0,
         NEW t, t.hash \in [Slot -> -1 .. l - 1]
  PROVE  Turn(ips, t, n).hash \in [Slot -> -1 .. l - 1]
<1> DEFINE i == ((n - 1) % l) + 1
           open == {j \in t.next[i] .. LookupSize - 1 : t.hash[permutation(ips[i], j)] = POS_FREE}
           j0 == CHOOSE j \in open : \A m \in open : j <= m
           p == permutation(ips[i], j0)
<1>1. i - 1 \in -1 .. l - 1
  <2>1. \A a, d \in Nat : d > 0 => a % d \in 0 .. d - 1
    OBVIOUS
  <2>2. (n - 1) % l \in 0 .. l - 1
    BY <2>1
  <2> QED BY <2>2
<1>2. populate_turn(ips, t, i).hash = t.hash \/ populate_turn(ips, t, i).hash = [t.hash EXCEPT ![p] = i - 1]
  BY Zenon DEF populate_turn
<1> HIDE DEF i, p
<1>3. [t.hash EXCEPT ![p] = i - 1] \in [Slot -> -1 .. l - 1]
  BY <1>1, Zenon
<1> QED BY <1>2, <1>3, Zenon DEF Turn, i

LEMMA TableTyped ==
  ASSUME NEW ips \in Seq(Backend), ips # <<>>
  PROVE  calc_hash_lookup_table(ips) \in [Slot -> 0 .. Len(ips) - 1]
<1> DEFINE l == Len(ips)
           N == l * LookupSize
           f == Turns(ips)
           T == {n \in 0 .. N : f[n].hash \in [Slot -> -1 .. l - 1]}
           h == populate_rounds(ips).hash
<1>1. l \in Nat /\ l > 0
  OBVIOUS
<1>2. N \in Nat
  BY <1>1, TurnNumber, Zenon
<1>3. TurnByTurn(f, ips)
  BY <1>1, TurnsUnfold, Zenon
<1>4. 0 \in T
  <2>1. f[0].hash = [s \in Slot |-> -1]
    BY <1>3 DEF TurnByTurn, Fresh, POS_FREE
  <2>2. -1 \in -1 .. l - 1
    BY <1>1
  <2> HIDE DEF f, N, l
  <2>3. [s \in Slot |-> -1] \in [Slot -> -1 .. l - 1]
    BY <2>2, Zenon
  <2> QED BY <1>2, <2>1, <2>3
<1>5. ASSUME NEW n \in 1 .. N, n - 1 \in T PROVE n \in T
  <2>1. f[n] = Turn(ips, f[n - 1], n)
    BY <1>3, Zenon DEF TurnByTurn
  <2>2. n \in Nat /\ n > 0 /\ n \in 0 .. N
    BY <1>2
  <2>3. f[n - 1].hash \in [Slot -> -1 .. l - 1]
    BY <1>5, Zenon
  <2> HIDE DEF f
  <2>4. Turn(ips, f[n - 1], n).hash \in [Slot -> -1 .. l - 1]
    BY <1>1, <2>2, <2>3, TurnTyped, Zenon
  <2> QED BY <2>1, <2>2, <2>4, Zenon
<1>6. \A n \in 0 .. N : n \in T
  <2> HIDE DEF T, N
  <2> QED BY <1>2, <1>4, <1>5, StepByStep, Zenon
<1>7. h \in [Slot -> -1 .. l - 1]
  <2>1. N \in 0 .. N
    BY <1>2
  <2>2. f[N].hash \in [Slot -> -1 .. l - 1]
    BY <1>6, <2>1, Zenon
  <2> QED BY <2>2, RoundsAreTurns, Zenon
<1>8. calc_hash_lookup_table(ips) = [s \in Slot |-> IF h[s] = -1 THEN s % l ELSE h[s]]
  BY Zenon DEF calc_hash_lookup_table, POS_FREE
<1> HIDE DEF h, l
<1>9. ASSUME NEW s \in Slot PROVE (IF h[s] = -1 THEN s % l ELSE h[s]) \in 0 .. l - 1
  <2>1. \A a, d \in Nat : d > 0 => a % d \in 0 .. d - 1
    OBVIOUS
  <2>2. s \in Nat
    BY MaglevAssumption DEF Slot
  <2>3. s % l \in 0 .. l - 1
    BY <1>1, <2>1, <2>2, Zenon
  <2>4. h[s] \in -1 .. l - 1
    BY <1>7, Zenon
  <2> QED BY <1>1, <2>3, <2>4
<1> QED BY <1>8, <1>9, Zenon DEF l

-----------------------------------------------------------------------------
(* The inductive invariant of the load balancers.  Every live entry lists  *)
(* its targets in order, with the table computed for exactly that list     *)
(* unless a computation failed; no two load balancers share a number, and  *)
(* a flow has the number of the one that balanced it.                      *)
LbRecord ==
  [lb_id : LbId, ul : LbUl, ports : LbPorts, ips : Seq(Backend), maglev_hash : [Slot -> Nat], gen : Nat]

Balances(lb, gen, failures) ==
  /\ lb \in LbRecord /\ Increasing(lb.ips) /\ lb.gen < gen
  /\ failures = 0 /\ lb.ips # <<>> => lb.maglev_hash = calc_hash_lookup_table(lb.ips)

Numbered(flow, gen) == flow.gen = MaxGen \/ flow.gen \in 0 .. gen - 1

Reaches(flow, lb) == lb.gen = flow.gen => flow.target \in Targets(lb.ips)

LbInv ==
  /\ lb_failures \in Nat /\ lb_gen \in 0 .. MaxGen
  /\ id_map_lb_tbl \in [LbId -> LbKey \cup {ABSENT}]
  /\ lb_table = [k \in LbKey |-> lb_table[k]]
  /\ lb_flow = [f \in LbFlow |-> lb_flow[f]]
  /\ \A k \in LbKey : Live(k) => Balances(lb_table[k], lb_gen, lb_failures)
  /\ \A f \in LbFlow : lb_flow[f] # ABSENT => Numbered(lb_flow[f], lb_gen)
  /\ lb_failures = 0 =>
       \A f \in LbFlow : lb_flow[f] # ABSENT /\ Live(KeyOf(f)) => Reaches(lb_flow[f], lb_table[KeyOf(f)])

LEMMA KeysOfFlows ==
  ASSUME NEW f \in LbFlow
  PROVE  KeyOf(f) \in LbKey /\ f.hash \in Nat
  BY LbAssumption, Zenon DEF KeyOf, LbKey

LEMMA GetLb ==
  ASSUME LbInv, NEW i \in LbId, get_lb(i) # ABSENT
  PROVE  get_lb(i) \in LbKey /\ Live(get_lb(i)) /\ id_map_lb_tbl[i] = get_lb(i)
  BY Zenon DEF LbInv, get_lb

LEMMA OtherTargets ==
  ASSUME NEW lb \in LbRecord, NEW ips \in Seq(Backend), NEW hash \in [Slot -> Nat]
  PROVE  /\ WithTargets(lb, ips, hash) \in LbRecord
         /\ WithTargets(lb, ips, hash).ips = ips
         /\ WithTargets(lb, ips, hash).maglev_hash = hash
         /\ WithTargets(lb, ips, hash).gen = lb.gen
  BY Zenon DEF WithTargets, LbRecord

LEMMA TableIsOfRecord ==
  ASSUME NEW ips \in Seq(Backend), ips # <<>>
  PROVE  calc_hash_lookup_table(ips) \in [Slot -> Nat]
<1>1. 0 .. Len(ips) - 1 \subseteq Nat
  OBVIOUS
<1>2. \A g \in [Slot -> 0 .. Len(ips) - 1] : g \in [Slot -> Nat]
  BY <1>1, Zenon
<1> QED BY <1>2, TableTyped, Zenon

LEMMA TargetIn ==
  ASSUME NEW ips \in Seq(Backend), NEW b
  PROVE  (\E i \in DOMAIN ips : ips[i] = b) <=> b \in Targets(ips)
<1>1. DOMAIN ips = 1 .. Len(ips)
  OBVIOUS
<1> QED BY <1>1, Zenon DEF Targets

(* A step that changes one entry of lb_table, and what is left to show of  *)
(* it: the entry is as it should be, and the flows that refer to it by its *)
(* number reach its targets.                                               *)
LEMMA OneEntryChanges ==
  ASSUME LbInv, NEW k \in LbKey, NEW new,
         lb_table' = [lb_table EXCEPT ![k] = new],
         lb_failures' \in Nat, lb_failures' = 0 => lb_failures = 0,
         lb_gen' \in 0 .. MaxGen, lb_gen <= lb_gen',
         id_map_lb_tbl' \in [LbId -> LbKey \cup {ABSENT}],
         lb_flow' = [f \in LbFlow |-> lb_flow'[f]],
         \A f \in LbFlow : lb_flow'[f] # ABSENT => lb_flow'[f] = lb_flow[f],
         new \notin {ABSENT, FREED} => Balances(new, lb_gen', lb_failures'),
         ASSUME new \notin {ABSENT, FREED}, lb_failures' = 0, NEW f \in LbFlow, KeyOf(f) = k, lb_flow'[f] # ABSENT
         PROVE  Reaches(lb_flow'[f], new)
  PROVE  LbInv'
<1>1. /\ lb_table'[k] = new /\ \A l \in LbKey : l # k => lb_table'[l] = lb_table[l]
      /\ lb_table' = [l \in LbKey |-> lb_table'[l]]
  BY Zenon DEF LbInv
<1>2. lb_gen \in 0 .. MaxGen /\ lb_failures \in Nat /\ MaxGen \in Nat
  BY LbAssumption, Zenon DEF LbInv
<1>3. ASSUME NEW l \in LbKey, Live(l)' PROVE Balances(lb_table'[l], lb_gen', lb_failures')
  <2>1. CASE l = k
    BY <1>1, <1>3, <2>1, Zenon DEF Live
  <2>2. CASE l # k
    <3>1. lb_table'[l] = lb_table[l] /\ Balances(lb_table[l], lb_gen, lb_failures)
      BY <1>1, <1>3, <2>2, Zenon DEF LbInv, Live
    <3>2. lb_table[l] \in LbRecord => lb_table[l].gen \in Nat
      BY Zenon DEF LbRecord
    <3>3. lb_table[l].gen < lb_gen'
      BY <1>2, <3>1, <3>2 DEF Balances
    <3> QED BY <3>1, <3>3, Zenon DEF Balances
  <2> QED BY <2>1, <2>2, Zenon
<1>4. ASSUME NEW f \in LbFlow, lb_flow'[f] # ABSENT PROVE Numbered(lb_flow'[f], lb_gen')
  <2>1. lb_flow'[f] = lb_flow[f] /\ Numbered(lb_flow[f], lb_gen)
    BY <1>4, Zenon DEF LbInv
  <2> QED BY <1>2, <2>1 DEF Numbered
<1>5. ASSUME lb_failures' = 0, NEW f \in LbFlow, lb_flow'[f] # ABSENT, Live(KeyOf(f))'
      PROVE  Reaches(lb_flow'[f], lb_table'[KeyOf(f)])
  <2>1. CASE KeyOf(f) = k
    BY <1>1, <1>5, <2>1, Zenon DEF Live
  <2>2. CASE KeyOf(f) # k
    <3>1. KeyOf(f) \in LbKey
      BY KeysOfFlows, Zenon
    <3>2. lb_table'[KeyOf(f)] = lb_table[KeyOf(f)] /\ lb_flow'[f] = lb_flow[f]
      BY <1>1, <1>5, <2>2, <3>1, Zenon
    <3> QED BY <1>5, <3>2, Zenon DEF LbInv, Live
  <2> QED BY <2>1, <2>2, Zenon
<1>6. \A f \in LbFlow : KeyOf(f)' = KeyOf(f)
  BY Zenon DEF KeyOf
<1> QED BY <1>1, <1>3, <1>4, <1>5, <1>6, Zenon DEF LbInv, Live

LEMMA LbStart ==
  ASSUME LbInit
  PROVE  LbInv
<1>1. \A k \in LbKey : ~Live(k)
  BY Zenon DEF LbInit, Live
<1>2. lb_failures \in Nat /\ lb_gen \in 0 .. MaxGen
  BY LbAssumption DEF LbInit
<1>3. id_map_lb_tbl \in [LbId -> LbKey \cup {ABSENT}]
  BY Zenon DEF LbInit
<1>4. lb_table = [k \in LbKey |-> lb_table[k]] /\ lb_flow = [f \in LbFlow |-> lb_flow[f]]
  BY Zenon DEF LbInit
<1>5. \A f \in LbFlow : lb_flow[f] = ABSENT
  BY Zenon DEF LbInit
<1> QED BY <1>1, <1>2, <1>3, <1>4, <1>5, Zenon DEF LbInv

LEMMA CreateLbKeeps ==
  ASSUME LbInv, NEW i \in LbId, NEW k \in LbKey, NEW u \in LbUl, NEW ports \in LbPorts, CreateLb(i, k, u, ports)
  PROVE  LbInv'
<1> DEFINE new == NewLb(i, u, ports)
<1>1. lb_gen \in 0 .. MaxGen /\ lb_failures \in Nat /\ MaxGen \in Nat
  BY LbAssumption, Zenon DEF LbInv
<1>2. /\ lb_gen < MaxGen /\ lb_gen' = lb_gen + 1 /\ lb_failures' = lb_failures /\ lb_flow' = lb_flow
      /\ lb_table' = [lb_table EXCEPT ![k] = new] /\ id_map_lb_tbl' = [id_map_lb_tbl EXCEPT ![i] = k]
  BY Zenon DEF CreateLb, Works, map_lb_handle
<1>3. new \in LbRecord /\ new.ips = <<>> /\ new.gen = lb_gen
  BY <1>1 DEF NewLb, LbRecord
<1> HIDE DEF new
<1>4. Balances(new, lb_gen', lb_failures')
  <2>1. Increasing(<<>>)
    BY DEF Increasing
  <2> QED BY <1>1, <1>2, <1>3, <2>1 DEF Balances
<1>5. ASSUME NEW f \in LbFlow, lb_flow[f] # ABSENT PROVE lb_flow[f].gen # lb_gen
  <2>1. Numbered(lb_flow[f], lb_gen)
    BY <1>5, Zenon DEF LbInv
  <2> QED BY <1>1, <1>2, <2>1 DEF Numbered
<1>6. ASSUME NEW f \in LbFlow, KeyOf(f) = k, lb_flow'[f] # ABSENT PROVE Reaches(lb_flow'[f], new)
  BY <1>2, <1>3, <1>5, <1>6, Zenon DEF Reaches
<1>7. id_map_lb_tbl' \in [LbId -> LbKey \cup {ABSENT}]
  BY <1>2, Zenon DEF LbInv
<1>8. lb_gen' \in 0 .. MaxGen /\ lb_gen <= lb_gen'
  BY <1>1, <1>2
<1>9. lb_flow' = [f \in LbFlow |-> lb_flow'[f]]
  BY <1>2, Zenon DEF LbInv
<1> QED BY <1>1, <1>2, <1>4, <1>6, <1>7, <1>8, <1>9, OneEntryChanges, Zenon

(* A failed step is not the first one any more. *)
LEMMA FailsOrWorks ==
  ASSUME lb_failures \in Nat, Fails \/ Works
  PROVE  lb_failures' \in Nat /\ (lb_failures' = 0 => lb_failures = 0)
  BY DEF Fails, Works

LEMMA EntryGoesKeeps ==
  ASSUME LbInv, NEW k \in LbKey, NEW new \in {ABSENT, FREED},
         lb_table' = [lb_table EXCEPT ![k] = new],
         Fails \/ Works, lb_gen' = lb_gen, lb_flow' = lb_flow,
         id_map_lb_tbl' \in [LbId -> LbKey \cup {ABSENT}]
  PROVE  LbInv'
<1>1. lb_gen \in 0 .. MaxGen /\ lb_failures \in Nat /\ MaxGen \in Nat
  BY LbAssumption, Zenon DEF LbInv
<1>2. lb_failures' \in Nat /\ (lb_failures' = 0 => lb_failures = 0)
  BY <1>1, FailsOrWorks, Zenon
<1>3. lb_gen' \in 0 .. MaxGen /\ lb_gen <= lb_gen'
  BY <1>1
<1>4. lb_flow' = [f \in LbFlow |-> lb_flow'[f]]
  BY Zenon DEF LbInv
<1> QED BY <1>2, <1>3, <1>4, OneEntryChanges, Zenon

LEMMA CreateLbMapFailsKeeps ==
  ASSUME LbInv, NEW i \in LbId, NEW k \in LbKey, NEW u \in LbUl, CreateLbMapFails(i, k, u)
  PROVE  LbInv'
<1>1. /\ lb_table' = [lb_table EXCEPT ![k] = FREED] /\ Fails /\ lb_gen' = lb_gen /\ lb_flow' = lb_flow
      /\ id_map_lb_tbl' = id_map_lb_tbl
  BY Zenon DEF CreateLbMapFails
<1>2. id_map_lb_tbl' \in [LbId -> LbKey \cup {ABSENT}]
  BY <1>1, Zenon DEF LbInv
<1> QED BY <1>1, <1>2, EntryGoesKeeps, Zenon

LEMMA CreateLbVniFailsKeeps ==
  ASSUME LbInv, NEW i \in LbId, NEW k \in LbKey, NEW u \in LbUl, CreateLbVniFails(i, k, u)
  PROVE  LbInv'
<1>1. /\ lb_table' = lb_table /\ Fails /\ lb_gen' = lb_gen /\ lb_flow' = lb_flow /\ lb_table[k] = ABSENT
      /\ id_map_lb_tbl' = [id_map_lb_tbl EXCEPT ![i] = ABSENT]
  BY Zenon DEF CreateLbVniFails
<1>2. id_map_lb_tbl' \in [LbId -> LbKey \cup {ABSENT}]
  BY <1>1, Zenon DEF LbInv
<1>3. lb_table' = [lb_table EXCEPT ![k] = ABSENT]
  BY <1>1, Zenon DEF LbInv
<1> QED BY <1>1, <1>2, <1>3, EntryGoesKeeps, Zenon

LEMMA DeleteLbKeeps ==
  ASSUME LbInv, NEW i \in LbId, DeleteLb(i)
  PROVE  LbInv'
<1>1. /\ get_lb(i) # ABSENT /\ delete_lb(i) /\ lb_gen' = lb_gen /\ lb_flow' = lb_flow /\ Works
  BY Zenon DEF DeleteLb, Works
<1>2. id_map_lb_tbl[i] \in LbKey
  BY <1>1, GetLb, Zenon
<1>3. lb_table' = [lb_table EXCEPT ![id_map_lb_tbl[i]] = ABSENT] /\ id_map_lb_tbl' = [id_map_lb_tbl EXCEPT ![i] = ABSENT]
  BY <1>1, Zenon DEF delete_lb
<1>4. id_map_lb_tbl' \in [LbId -> LbKey \cup {ABSENT}]
  BY <1>3, Zenon DEF LbInv
<1> QED BY <1>1, <1>2, <1>3, <1>4, EntryGoesKeeps, Zenon

(* Other targets for one load balancer: its flows must be among them, and  *)
(* the table theirs unless a computation failed.                           *)
LEMMA TargetsChangeKeeps ==
  ASSUME LbInv, NEW k \in LbKey, Live(k), NEW ips \in Seq(Backend), Increasing(ips), NEW hash \in [Slot -> Nat],
         lb_table' = [lb_table EXCEPT ![k] = WithTargets(lb_table[k], ips, hash)],
         Fails \/ Works, lb_gen' = lb_gen, id_map_lb_tbl' = id_map_lb_tbl,
         lb_flow' = [f \in LbFlow |-> lb_flow'[f]],
         \A f \in LbFlow : lb_flow'[f] # ABSENT => lb_flow'[f] = lb_flow[f],
         lb_failures' = 0 /\ ips # <<>> => hash = calc_hash_lookup_table(ips),
         ASSUME lb_failures' = 0, NEW f \in LbFlow, lb_flow'[f] # ABSENT, lb_flow[f].target \in Targets(lb_table[k].ips)
         PROVE  lb_flow[f].target \in Targets(ips)
  PROVE  LbInv'
<1> DEFINE lb == lb_table[k]
           new == WithTargets(lb, ips, hash)
<1>1. lb_gen \in 0 .. MaxGen /\ lb_failures \in Nat /\ MaxGen \in Nat
  BY LbAssumption, Zenon DEF LbInv
<1>2. lb_failures' \in Nat /\ (lb_failures' = 0 => lb_failures = 0)
  BY <1>1, FailsOrWorks, Zenon
<1>3. Balances(lb, lb_gen, lb_failures)
  BY Zenon DEF LbInv
<1>4. new \in LbRecord /\ new.ips = ips /\ new.maglev_hash = hash /\ new.gen = lb.gen
  BY <1>3, OtherTargets DEF Balances
<1> HIDE DEF new
<1>5. Balances(new, lb_gen', lb_failures')
  BY <1>2, <1>3, <1>4, Zenon DEF Balances
<1>6. ASSUME lb_failures' = 0, NEW f \in LbFlow, KeyOf(f) = k, lb_flow'[f] # ABSENT PROVE Reaches(lb_flow'[f], new)
  <2>1. lb_flow'[f] = lb_flow[f] /\ lb_flow[f] # ABSENT /\ Reaches(lb_flow[f], lb)
    BY <1>2, <1>6, Zenon DEF LbInv
  <2> HIDE DEF lb
  <2> QED BY <1>4, <1>6, <2>1, Zenon DEF Reaches, lb
<1>7. lb_gen' \in 0 .. MaxGen /\ lb_gen <= lb_gen'
  BY <1>1
<1>8. id_map_lb_tbl' \in [LbId -> LbKey \cup {ABSENT}]
  BY Zenon DEF LbInv
<1>9. lb_table' = [lb_table EXCEPT ![k] = new]
  BY Zenon DEF new
<1> QED BY <1>2, <1>5, <1>6, <1>7, <1>8, <1>9, OneEntryChanges, Zenon

LEMMA CreateLbTargetKeeps ==
  ASSUME LbInv, NEW i \in LbId, NEW b \in Backend, CreateLbTarget(i, b)
  PROVE  LbInv'
<1> DEFINE k == get_lb(i)
           lb == lb_table[k]
           ips == InsertSorted(lb.ips, b)
<1>1. k # ABSENT /\ ~IsTarget(k, b)
  BY Zenon DEF CreateLbTarget
<1>2. k \in LbKey /\ Live(k)
  BY <1>1, GetLb, Zenon
<1>3. Balances(lb, lb_gen, lb_failures)
  BY <1>2, Zenon DEF LbInv
<1>4. lb.ips \in Seq(Backend) /\ Increasing(lb.ips) /\ lb.maglev_hash \in [Slot -> Nat]
  BY <1>3, Zenon DEF Balances, LbRecord
<1>5. b \notin Targets(lb.ips)
  BY <1>1, <1>4, TargetIn, Zenon DEF IsTarget
<1>6. ips \in Seq(Backend) /\ ips # <<>> /\ Increasing(ips) /\ Targets(ips) = Targets(lb.ips) \cup {b}
  BY <1>4, <1>5, Inserted, Zenon
<1>7. calc_hash_lookup_table(ips) \in [Slot -> Nat]
  BY <1>6, TableIsOfRecord, Zenon
<1>8. /\ lb_gen' = lb_gen /\ id_map_lb_tbl' = id_map_lb_tbl /\ lb_flow' = lb_flow
      /\ \/ Works /\ lb_table' = [lb_table EXCEPT ![k] = WithTargets(lb, ips, calc_hash_lookup_table(ips))]
         \/ Fails /\ lb_table' = [lb_table EXCEPT ![k] = WithTargets(lb, ips, lb.maglev_hash)]
  BY Zenon DEF CreateLbTarget
<1>9. lb_failures \in Nat /\ lb_flow' = [f \in LbFlow |-> lb_flow'[f]]
  BY <1>8, Zenon DEF LbInv
<1>10. Fails => lb_failures' # 0
  BY <1>9 DEF Fails
<1> HIDE DEF ips
<1>11. CASE Works /\ lb_table' = [lb_table EXCEPT ![k] = WithTargets(lb, ips, calc_hash_lookup_table(ips))]
  <2> HIDE DEF k
  <2> QED BY <1>2, <1>6, <1>7, <1>8, <1>9, <1>11, TargetsChangeKeeps, Zenon
<1>12. CASE Fails /\ lb_table' = [lb_table EXCEPT ![k] = WithTargets(lb, ips, lb.maglev_hash)]
  <2> HIDE DEF k
  <2> QED BY <1>2, <1>4, <1>6, <1>8, <1>9, <1>10, <1>12, TargetsChangeKeeps, Zenon
<1> QED BY <1>8, <1>11, <1>12, Zenon

LEMMA DeleteLbTargetKeeps ==
  ASSUME LbInv, NEW i \in LbId, NEW b \in Backend, DeleteLbTarget(i, b)
  PROVE  LbInv'
<1> DEFINE k == get_lb(i)
           lb == lb_table[k]
           ips == RemoveSorted(lb.ips, b)
           table == TableAfter(k, ips)
<1>1. k # ABSENT /\ IsTarget(k, b)
  BY Zenon DEF DeleteLbTarget
<1>2. k \in LbKey /\ Live(k)
  BY <1>1, GetLb, Zenon
<1>3. Balances(lb, lb_gen, lb_failures)
  BY <1>2, Zenon DEF LbInv
<1>4. lb.ips \in Seq(Backend) /\ Increasing(lb.ips) /\ lb.maglev_hash \in [Slot -> Nat]
  BY <1>3, Zenon DEF Balances, LbRecord
<1>5. b \in Targets(lb.ips)
  BY <1>1, <1>4, TargetIn, Zenon DEF IsTarget
<1>6. ips \in Seq(Backend) /\ Increasing(ips) /\ Targets(ips) = Targets(lb.ips) \ {b}
  BY <1>4, <1>5, Removed, Zenon
<1>7. /\ table \in [Slot -> Nat]
      /\ ips # <<>> => table = calc_hash_lookup_table(ips)
  BY <1>4, <1>6, TableIsOfRecord, Zenon DEF TableAfter
<1>8. /\ lb_gen' = lb_gen /\ id_map_lb_tbl' = id_map_lb_tbl
      /\ \/ /\ Works /\ remove_lbtarget_flows(b)
            /\ lb_table' = [lb_table EXCEPT ![k] = WithTargets(lb, ips, table)]
         \/ /\ Fails /\ lb_flow' = lb_flow
            /\ lb_table' = [lb_table EXCEPT ![k] = WithTargets(lb, ips, lb.maglev_hash)]
  BY Zenon DEF DeleteLbTarget
<1>9. lb_failures \in Nat /\ lb_flow = [f \in LbFlow |-> lb_flow[f]]
  BY Zenon DEF LbInv
<1>10. Fails => lb_failures' # 0
  BY <1>9 DEF Fails
<1> HIDE DEF ips, table
<1>11. CASE Works /\ remove_lbtarget_flows(b) /\ lb_table' = [lb_table EXCEPT ![k] = WithTargets(lb, ips, table)]
  <2>1. lb_flow' = [f \in LbFlow |-> lb_flow'[f]]
    BY <1>11, Zenon DEF remove_lbtarget_flows
  <2>2. \A f \in LbFlow : lb_flow'[f] # ABSENT => lb_flow'[f] = lb_flow[f] /\ lb_flow[f].target # b
    BY <1>11, Zenon DEF remove_lbtarget_flows
  <2>3. ASSUME NEW f \in LbFlow, lb_flow'[f] # ABSENT, lb_flow[f].target \in Targets(lb.ips)
        PROVE  lb_flow[f].target \in Targets(ips)
    BY <1>6, <2>2, <2>3, Zenon
  <2> HIDE DEF k
  <2> QED BY <1>2, <1>6, <1>7, <1>8, <1>11, <2>1, <2>2, <2>3, TargetsChangeKeeps, Zenon
<1>12. CASE Fails /\ lb_flow' = lb_flow /\ lb_table' = [lb_table EXCEPT ![k] = WithTargets(lb, ips, lb.maglev_hash)]
  <2> HIDE DEF k
  <2> QED BY <1>2, <1>4, <1>6, <1>8, <1>9, <1>10, <1>12, TargetsChangeKeeps, Zenon
<1> QED BY <1>8, <1>11, <1>12, Zenon

(* A step of one flow: it ends, or is balanced under the number of its     *)
(* load balancer to one of the targets, or by what a freed entry contains. *)
LEMMA OneFlowChanges ==
  ASSUME LbInv, NEW f \in LbFlow, NEW flow, lb_flow' = [lb_flow EXCEPT ![f] = flow],
         UNCHANGED <<lb_table, id_map_lb_tbl, lb_failures, lb_gen>>,
         flow # ABSENT => Numbered(flow, lb_gen),
         flow # ABSENT /\ Live(KeyOf(f)) /\ lb_failures = 0 => Reaches(flow, lb_table[KeyOf(f)])
  PROVE  LbInv'
<1>1. /\ lb_flow'[f] = flow /\ \A g \in LbFlow : g # f => lb_flow'[g] = lb_flow[g]
      /\ lb_flow' = [g \in LbFlow |-> lb_flow'[g]]
  BY Zenon DEF LbInv
<1>2. \A k \in LbKey : Live(k)' <=> Live(k)
  BY Zenon DEF Live
<1>3. \A g \in LbFlow : KeyOf(g)' = KeyOf(g) /\ KeyOf(g) \in LbKey
  BY KeysOfFlows, Zenon DEF KeyOf
<1>4. ASSUME NEW g \in LbFlow, lb_flow'[g] # ABSENT PROVE Numbered(lb_flow'[g], lb_gen')
  <2>1. CASE g = f
    BY <1>1, <1>4, <2>1, Zenon
  <2>2. CASE g # f
    BY <1>1, <1>4, <2>2, Zenon DEF LbInv
  <2> QED BY <2>1, <2>2, Zenon
<1>5. ASSUME NEW g \in LbFlow, lb_flow'[g] # ABSENT, Live(KeyOf(g)), lb_failures = 0
      PROVE  Reaches(lb_flow'[g], lb_table[KeyOf(g)])
  <2>1. CASE g = f
    BY <1>1, <1>5, <2>1, Zenon
  <2>2. CASE g # f
    BY <1>1, <1>5, <2>2, Zenon DEF LbInv
  <2> QED BY <2>1, <2>2, Zenon
<1>6. \A k \in LbKey : Live(k)' => Balances(lb_table'[k], lb_gen', lb_failures')
  BY <1>2, Zenon DEF LbInv
<1>7. lb_failures' = 0 =>
        \A g \in LbFlow : lb_flow'[g] # ABSENT /\ Live(KeyOf(g))' => Reaches(lb_flow'[g], lb_table'[KeyOf(g)])
  BY <1>3, <1>5, Zenon DEF Live
<1> QED BY <1>1, <1>3, <1>4, <1>6, <1>7, Zenon DEF LbInv, Live

(* dp_lb_get_backend_ip() finds a target, because the table is the one of  *)
(* these targets.                                                          *)
LEMMA BackendIsTarget ==
  ASSUME NEW lb \in LbRecord, lb.ips # <<>>, lb.maglev_hash = calc_hash_lookup_table(lb.ips),
         NEW f \in LbFlow
  PROVE  get_backend_ip(lb, f) \in Targets(lb.ips)
<1> DEFINE pos == lb.maglev_hash[f.hash % LookupSize]
<1>1. lb.ips \in Seq(Backend) /\ f.hash \in Nat
  BY KeysOfFlows, Zenon DEF LbRecord
<1>2. f.hash % LookupSize \in Slot
  <2>1. \A a, d \in Nat : d > 0 => a % d \in 0 .. d - 1
    OBVIOUS
  <2>2. LookupSize \in Nat /\ LookupSize > 0
    BY MaglevAssumption
  <2> QED BY <1>1, <2>1, <2>2, Zenon DEF Slot
<1>3. lb.maglev_hash \in [Slot -> 0 .. Len(lb.ips) - 1]
  BY <1>1, TableTyped, Zenon
<1>4. pos \in 0 .. Len(lb.ips) - 1
  BY <1>2, <1>3, Zenon
<1> HIDE DEF pos
<1>5. pos < Len(lb.ips) /\ pos + 1 \in 1 .. Len(lb.ips)
  BY <1>1, <1>4
<1> QED BY <1>5, Zenon DEF get_backend_ip, pos, Targets

LEMMA FlowStartsKeeps ==
  ASSUME LbInv, NEW f \in LbFlow, FlowStarts(f)
  PROVE  LbInv'
<1> DEFINE k == KeyOf(f)
           lb == lb_table[k]
           balanced == [target |-> get_backend_ip(lb, f), gen |-> lb.gen]
<1>1. UNCHANGED <<lb_table, id_map_lb_tbl, lb_failures, lb_gen>>
  BY Zenon DEF FlowStarts
<1>2. k \in LbKey /\ lb_gen \in 0 .. MaxGen /\ MaxGen \in Nat
  BY KeysOfFlows, LbAssumption, Zenon DEF LbInv
<1>3. CASE Live(k) /\ lb.ips # <<>> /\ lb_flow' = [lb_flow EXCEPT ![f] = balanced]
  <2>1. Balances(lb, lb_gen, lb_failures)
    BY <1>2, <1>3, Zenon DEF LbInv
  <2>2. lb.gen \in Nat /\ lb.gen < lb_gen
    BY <2>1, Zenon DEF Balances, LbRecord
  <2>3. balanced.gen = lb.gen /\ balanced.target = get_backend_ip(lb, f)
    OBVIOUS
  <2> HIDE DEF balanced, lb
  <2>4. Numbered(balanced, lb_gen)
    BY <1>2, <2>2, <2>3 DEF Numbered
  <2>5. lb_failures = 0 => Reaches(balanced, lb)
    BY <1>3, <2>1, <2>3, BackendIsTarget, Zenon DEF Balances, Reaches
  <2> QED BY <1>1, <1>3, <2>4, <2>5, OneFlowChanges, Zenon DEF lb
<1>4. CASE lb = FREED /\ \E b \in Backend \cup {0} : lb_flow' = [lb_flow EXCEPT ![f] = [target |-> b, gen |-> MaxGen]]
  <2>1. PICK b \in Backend \cup {0} : lb_flow' = [lb_flow EXCEPT ![f] = [target |-> b, gen |-> MaxGen]]
    BY <1>4, Zenon
  <2>2. Numbered([target |-> b, gen |-> MaxGen], lb_gen)
    BY Zenon DEF Numbered
  <2>3. ~Live(KeyOf(f))
    BY <1>4, Zenon DEF Live
  <2> QED BY <1>1, <2>1, <2>2, <2>3, OneFlowChanges, Zenon
<1> QED BY <1>3, <1>4, Zenon DEF FlowStarts

LEMMA FlowEndsKeeps ==
  ASSUME LbInv, NEW f \in LbFlow, FlowEnds(f)
  PROVE  LbInv'
  BY OneFlowChanges, Zenon DEF FlowEnds

LEMMA LbStep ==
  ASSUME LbInv, [LbNext]_lbVars
  PROVE  LbInv'
<1>1. CASE UNCHANGED lbVars
  <2>1. \A f \in LbFlow : KeyOf(f)' = KeyOf(f)
    BY Zenon DEF KeyOf
  <2> QED BY <1>1, <2>1, Zenon DEF LbInv, lbVars, Live
<1>2. ASSUME NEW i \in LbId, NEW k \in LbKey, NEW u \in LbUl,
             (\E ports \in LbPorts : CreateLb(i, k, u, ports)) \/ CreateLbMapFails(i, k, u) \/ CreateLbVniFails(i, k, u)
      PROVE  LbInv'
  BY <1>2, CreateLbKeeps, CreateLbMapFailsKeeps, CreateLbVniFailsKeeps, Zenon
<1>3. ASSUME NEW i \in LbId, DeleteLb(i) PROVE LbInv'
  BY <1>3, DeleteLbKeeps, Zenon
<1>4. ASSUME NEW i \in LbId, NEW b \in Backend, CreateLbTarget(i, b) \/ DeleteLbTarget(i, b) PROVE LbInv'
  BY <1>4, CreateLbTargetKeeps, DeleteLbTargetKeeps, Zenon
<1>5. ASSUME NEW f \in LbFlow, FlowStarts(f) \/ FlowEnds(f) PROVE LbInv'
  BY <1>5, FlowStartsKeeps, FlowEndsKeeps, Zenon
<1> QED BY <1>1, <1>2, <1>3, <1>4, <1>5, Zenon DEF LbNext

(* LbInv holds in every reachable state of the load balancers.             *)
THEOREM LbInvariance == LbSpec => []LbInv
<1>1. LbInit => LbInv
  BY LbStart, Zenon
<1>2. LbInv /\ [LbNext]_lbVars => LbInv'
  BY LbStep, Zenon
<1> QED BY <1>1, <1>2, PTL DEF LbSpec

(* dp_lb_get_backend_ip(), dp_process_delete_lbtarget(): for any number of *)
(* load balancers, targets and flows, any hashes and any table size, a     *)
(* flow is sent to a target its load balancer has.                         *)
THEOREM FlowsGoToTargets == LbSpec => []FlowsReachTargets
<1>1. LbInv => FlowsReachTargets
  <2> SUFFICES ASSUME LbInv, lb_failures = 0, NEW f \in LbFlow, lb_flow[f] # ABSENT, Live(KeyOf(f)),
                      lb_table[KeyOf(f)].gen = lb_flow[f].gen
               PROVE  IsTarget(KeyOf(f), lb_flow[f].target)
    BY Zenon DEF FlowsReachTargets
  <2>1. Reaches(lb_flow[f], lb_table[KeyOf(f)])
    BY Zenon DEF LbInv
  <2>2. lb_flow[f].target \in Targets(lb_table[KeyOf(f)].ips)
    BY <2>1, Zenon DEF Reaches
  <2>3. lb_table[KeyOf(f)].ips \in Seq(Backend)
    BY KeysOfFlows, Zenon DEF LbInv, Balances, LbRecord
  <2> QED BY <2>2, <2>3, TargetIn, Zenon DEF IsTarget
<1> QED BY <1>1, LbInvariance, PTL

-----------------------------------------------------------------------------
(* A set of targets has one increasing enumeration. *)
LEMMA Strictly ==
  ASSUME NEW n \in Nat, NEW e \in [1 .. n -> 1 .. n], \A i, j \in 1 .. n : i < j => e[i] < e[j]
  PROVE  \A i \in 1 .. n : e[i] = i
<1> DEFINE T == {m \in 0 .. n : m > 0 => e[m] >= m}
           U == {m \in 0 .. n : m < n => e[n - m] <= n - m}
<1>1. \A i \in 1 .. n : e[i] \in 1 .. n
  OBVIOUS
<1>2. \A m \in 0 .. n : m \in T
  <2>1. 0 \in T
    OBVIOUS
  <2>2. ASSUME NEW m \in 1 .. n, m - 1 \in T PROVE m \in T
    <3>1. CASE m = 1
      BY <1>1, <3>1
    <3>2. CASE m # 1
      <4>1. m - 1 \in 1 .. n /\ m - 1 < m /\ m - 1 > 0
        BY <3>2
      <4>2. e[m - 1] >= m - 1 /\ e[m - 1] < e[m] /\ e[m] \in 1 .. n /\ e[m - 1] \in 1 .. n
        BY <1>1, <2>2, <4>1, Zenon
      <4>3. e[m] >= m
        BY <4>1, <4>2, SMTT(30)
      <4> QED BY <4>3
    <3> QED BY <3>1, <3>2, Zenon
  <2> HIDE DEF T
  <2> QED BY <2>1, <2>2, StepByStep, Zenon
<1>3. \A m \in 0 .. n : m \in U
  <2>1. 0 \in U
    BY <1>1
  <2>2. ASSUME NEW m \in 1 .. n, m - 1 \in U PROVE m \in U
    <3>1. CASE m = n
      BY <3>1
    <3>2. CASE m # n
      <4>1. /\ n - m \in 1 .. n /\ n - (m - 1) \in 1 .. n /\ n - m < n - (m - 1) /\ m - 1 < n
            /\ n - (m - 1) = (n - m) + 1
        BY <3>2
      <4>2. /\ e[n - (m - 1)] <= n - (m - 1) /\ e[n - m] < e[n - (m - 1)]
            /\ e[n - m] \in 1 .. n /\ e[n - (m - 1)] \in 1 .. n
        BY <1>1, <2>2, <4>1, Zenon
      <4>3. e[n - m] <= n - m
        BY <4>1, <4>2
      <4> QED BY <4>3
    <3> QED BY <3>1, <3>2, Zenon
  <2> HIDE DEF U
  <2> QED BY <2>1, <2>2, StepByStep, Zenon
<1>4. ASSUME NEW i \in 1 .. n PROVE e[i] = i
  <2>1. e[i] >= i
    BY <1>2
  <2>2. n - i \in 0 .. n /\ n - i < n /\ n - (n - i) = i
    OBVIOUS
  <2>3. e[i] <= i
    BY <1>3, <2>2, Zenon
  <2> QED BY <1>1, <2>1, <2>3
<1> QED BY <1>4, Zenon

InOrder(s, n) == \A i, j \in 1 .. n : i < j => s[i] < s[j]

LEMMA OneOrder ==
  ASSUME NEW n \in Nat, NEW S \in SUBSET Nat,
         NEW s \in [1 .. n -> S], InOrder(s, n), \A a \in S : \E i \in 1 .. n : s[i] = a,
         NEW t \in [1 .. n -> S], InOrder(t, n)
  PROVE  s = t
<1> DEFINE e == [i \in 1 .. n |-> CHOOSE j \in 1 .. n : s[j] = t[i]]
<1>1. \A i \in 1 .. n : e[i] \in 1 .. n /\ s[e[i]] = t[i]
  BY Zenon
<1>2. e \in [1 .. n -> 1 .. n]
  BY <1>1, Zenon
<1> HIDE DEF e
<1>3. ASSUME NEW i \in 1 .. n, NEW j \in 1 .. n, i < j PROVE e[i] < e[j]
  <2>1. t[i] < t[j] /\ t[i] \in Nat /\ t[j] \in Nat
    BY <1>3, Zenon DEF InOrder
  <2>2. s[e[i]] < s[e[j]] /\ e[i] \in 1 .. n /\ e[j] \in 1 .. n
    BY <1>1, <2>1, Zenon
  <2>3. s[e[i]] \in Nat /\ s[e[j]] \in Nat
    BY <2>2, Zenon
  <2>4. CASE e[j] < e[i]
    <3>1. s[e[j]] < s[e[i]]
      BY <2>2, <2>4, Zenon DEF InOrder
    <3> QED BY <2>2, <2>3, <3>1
  <2>5. CASE e[j] = e[i]
    BY <2>2, <2>3, <2>5
  <2> QED BY <2>2, <2>4, <2>5
<1>4. \A i \in 1 .. n : e[i] = i
  BY <1>2, <1>3, Strictly, Zenon
<1>5. \A i \in 1 .. n : s[i] = t[i]
  BY <1>1, <1>4, Zenon
<1> QED BY <1>5

(* The targets of a load balancer are as many as its list is long, and the *)
(* list is the one increasing enumeration of them.                         *)
LEMMA ListIsTheOrder ==
  ASSUME NEW ips \in Seq(Backend), Increasing(ips), NEW S, S = Targets(ips)
  PROVE  ips = CHOOSE s \in [1 .. Cardinality(S) -> S] :
                 \A m, n \in 1 .. Cardinality(S) : m < n => s[m] < s[n]
<1> DEFINE n == Len(ips)
<1>1. n \in Nat /\ DOMAIN ips = 1 .. n /\ \A i \in 1 .. n : ips[i] \in Nat
  BY TargetNumbers, Zenon
<1>2. ips \in [1 .. n -> S] /\ S \in SUBSET Nat /\ \A a \in S : \E i \in 1 .. n : ips[i] = a
  BY <1>1 DEF Targets
<1>3. InOrder(ips, n)
  BY Zenon DEF Increasing, InOrder
<1>4. Cardinality(S) = n
  <2>1. ips \in Bijection(1 .. n, S)
    <3>1. ASSUME NEW i \in 1 .. n, NEW j \in 1 .. n, ips[i] = ips[j] PROVE i = j
      <4>1. CASE i < j
        BY <1>1, <1>3, <3>1, <4>1 DEF InOrder
      <4>2. CASE j < i
        BY <1>1, <1>3, <3>1, <4>2 DEF InOrder
      <4> QED BY <1>1, <4>1, <4>2
    <3> HIDE DEF n
    <3> QED BY <1>2, <3>1, Zenon DEF Bijection, Injection, Surjection, IsInjective
  <2>2. ExistsBijection(1 .. n, S)
    BY <2>1, Zenon DEF ExistsBijection
  <2> HIDE DEF n
  <2> QED BY <1>1, <2>2, FS_CountingElements, Zenon
<1>5. \A s \in [1 .. n -> S] : InOrder(s, n) => s = ips
  <2> HIDE DEF n
  <2> QED BY <1>1, <1>2, <1>3, OneOrder, ZenonT(40)
<1> DEFINE s0 == CHOOSE s \in [1 .. n -> S] : InOrder(s, n)
<1>6. s0 = ips
  <2> HIDE DEF n
  <2> QED BY <1>2, <1>3, <1>5, Zenon
<1> QED BY <1>4, <1>6, Zenon DEF InOrder

(* dp_add_maglev_backend(), dp_delete_maglev_backend(): for any number of  *)
(* targets, any hashes and any table size, the lookup table depends on the *)
(* set of targets only.                                                    *)
THEOREM TableDependsOnTargetsOnly == LbSpec => []SameTargetsSameTable
<1>1. LbInv => SameTargetsSameTable
  <2> SUFFICES ASSUME LbInv, lb_failures = 0, NEW k \in LbKey, Live(k), lb_table[k].ips # <<>>,
                      NEW S, S = {lb_table[k].ips[i] : i \in DOMAIN lb_table[k].ips}
               PROVE  lb_table[k].maglev_hash = calc_hash_lookup_table(
                        CHOOSE s \in [1 .. Cardinality(S) -> S] :
                          \A m, n \in 1 .. Cardinality(S) : m < n => s[m] < s[n])
    BY Zenon DEF SameTargetsSameTable
  <2> DEFINE ips == lb_table[k].ips
  <2>1. Balances(lb_table[k], lb_gen, lb_failures)
    BY Zenon DEF LbInv
  <2>2. ips \in Seq(Backend) /\ Increasing(ips) /\ lb_table[k].maglev_hash = calc_hash_lookup_table(ips)
    BY <2>1, Zenon DEF Balances, LbRecord
  <2>3. S = Targets(ips)
    BY <2>2 DEF Targets
  <2> HIDE DEF ips
  <2>4. ips = CHOOSE s \in [1 .. Cardinality(S) -> S] :
                \A m, n \in 1 .. Cardinality(S) : m < n => s[m] < s[n]
    BY <2>2, <2>3, ListIsTheOrder, Zenon
  <2> QED BY <2>2, <2>4, Zenon
<1> QED BY <1>1, LbInvariance, PTL

=============================================================================
