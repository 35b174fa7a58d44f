--------------------------- MODULE InterfacesProofs ---------------------------
(***************************************************************************)
(* Proofs about Interfaces for any number of ports, identifiers, VNIs and  *)
(* addresses: the tables that name an interface, then its routes.  The     *)
(* last part is about the rate limits of the interfaces (Metering).        *)
(***************************************************************************)
EXTENDS Interfaces, Metering, FiniteSetTheorems, WellFoundedInduction, TLAPS

Types ==
  /\ allocated \in [Port -> BOOLEAN]
  /\ iface \in [Port -> Iface \cup {NONE}]
  /\ ids \in [Id -> Port \cup {NONE}]
  /\ vnf \in [Ul -> Vnf \cup {NONE}]
  /\ value \in [Vnf -> Ul \cup {NONE}]
  /\ vnis \in [Vni -> Nat]

\* The inductive invariant.  A port that is not allocated has no interface, hence no underlay
\* address leads to it, hence a request that is undone removes no reverse entry but its own.
IInv == Types /\ VniCounted /\ IdsMatch /\ UnderlayMatches /\ ReverseMatches

AllButResult == <<allocated, iface, ids, vnf, value, vnis>>

\* A reference count is the number of ports in a set that gains or loses one port.
LEMMA CountUp ==
  ASSUME NEW S \in SUBSET Port, NEW p \in Port, p \notin S
  PROVE  Cardinality(S \cup {p}) = Cardinality(S) + 1
<1>1. IsFiniteSet(Port)
  BY FS_Interval, IfaceAssumption DEF Port
<1>2. IsFiniteSet(S)
  BY <1>1, FS_Subset, Zenon
<1> QED
  BY <1>2, FS_AddElement, Zenon

\* The set loses a port; a set with a port in it counts at least one.
LEMMA CountDown ==
  ASSUME NEW S \in SUBSET Port, NEW p \in S
  PROVE  Cardinality(S \ {p}) = Cardinality(S) - 1 /\ Cardinality(S) \in Nat \ {0}
<1>1. IsFiniteSet(Port)
  BY FS_Interval, IfaceAssumption DEF Port
<1>2. IsFiniteSet(S)
  BY <1>1, FS_Subset, Zenon
<1>3. Cardinality(S) \in Nat /\ Cardinality(S) # 0
  BY <1>2, FS_CardinalityType, FS_EmptySet, Zenon
<1> QED
  BY <1>2, <1>3, FS_RemoveElement, Zenon

\* Nothing is configured at the start.
LEMMA InitIInv == Init => IInv
<1> SUFFICES ASSUME Init PROVE IInv
  OBVIOUS
<1>1. Types
  BY Zenon DEF Init, Types
<1>2. Used = {}
  BY Zenon DEF Init, Used
<1>3. VniCounted
  <2> SUFFICES ASSUME NEW v \in Vni PROVE vnis[v] = Cardinality({p \in Used : iface[p].vni = v})
    BY Zenon DEF VniCounted
  <2>1. {p \in Used : iface[p].vni = v} = {}
    BY <1>2, Zenon
  <2> QED
    BY <2>1, FS_EmptySet, Zenon DEF Init
<1>4. IdsMatch /\ UnderlayMatches /\ ReverseMatches
  BY <1>2, Zenon DEF Init, IdsMatch, UnderlayMatches, ReverseMatches
<1> QED
  BY <1>1, <1>3, <1>4, Zenon DEF IInv

\* Steps that leave every table but the routes alone.
LEMMA StutterIInv == IInv /\ UNCHANGED AllButResult => IInv'
BY DEF IInv, AllButResult, Types, VniCounted, IdsMatch, UnderlayMatches, ReverseMatches, Used

\* An interface's network function is not in the reverse table unless the interface exists.
LEMMA FreshIface ==
  ASSUME IInv, NEW p \in Port, NEW v \in Vni, ~allocated[p]
  PROVE  /\ p \notin Used
         /\ VnfOf("iface", p, v, NONE) \in Vnf
         /\ value[VnfOf("iface", p, v, NONE)] = NONE
<1>1. p \notin Used
  BY Zenon DEF IInv, IdsMatch
<1>2. VnfOf("iface", p, v, NONE) \in Vnf
  BY Zenon DEF VnfOf, Vnf
<1>3. ASSUME value[VnfOf("iface", p, v, NONE)] # NONE PROVE FALSE
  <2> DEFINE x == VnfOf("iface", p, v, NONE)
  <2>1. value[x] \in Ul /\ vnf[value[x]] = x
    BY <1>2, <1>3, Zenon DEF IInv, Types, ReverseMatches
  <2>2. x # NONE
    BY <1>2, IfaceNoneAssumption, Zenon
  <2>3. x.type = "iface" /\ x.port = p
    BY Zenon DEF VnfOf
  <2> QED
    BY <1>1, <2>1, <2>2, <2>3 DEF IInv, UnderlayMatches
<1> QED
  BY <1>1, <1>2, <1>3, Zenon

\* Registering a network function other than an interface.
LEMMA AddVnfIInv ==
  ASSUME IInv, NEW u \in Ul, NEW x \in Vnf, AddVnf(u, x), x.type # "iface",
         x.type # "pfx" => value[x] = NONE, UNCHANGED <<allocated, iface, ids, vnis>>
  PROVE  IInv'
<1>1. Types'
  BY Zenon DEF IInv, Types, AddVnf
<1>2. Used' = Used
  BY Zenon DEF Used
<1>3. VniCounted' /\ IdsMatch'
  BY <1>2 DEF IInv, VniCounted, IdsMatch
<1>4. vnf \in [Ul -> Vnf \cup {NONE}] /\ value \in [Vnf -> Ul \cup {NONE}] /\ x # NONE /\ u # NONE
  BY IfaceNoneAssumption, Zenon DEF IInv, Types
<1>5. UnderlayMatches'
  <2>1. \A p \in Used : iface[p].ul \in Ul /\ vnf[iface[p].ul] # NONE
    <3> SUFFICES ASSUME NEW p \in Used PROVE iface[p].ul \in Ul /\ vnf[iface[p].ul] # NONE
      OBVIOUS
    <3>1. iface[p] \in Iface
      BY Zenon DEF IInv, Types, Used
    <3>2. VnfOf("iface", p, iface[p].vni, NONE) \in Vnf
      BY <3>1, Zenon DEF VnfOf, Vnf, Iface, Used
    <3> QED
      BY <3>1, <3>2, IfaceNoneAssumption DEF IInv, UnderlayMatches, Iface
  <2> QED
    BY <1>2, <1>4, <2>1, Zenon DEF IInv, UnderlayMatches, AddVnf
<1>6. ReverseMatches'
  <2>0. vnf[u] = NONE /\ vnf' = [vnf EXCEPT ![u] = x] /\ value' = [value EXCEPT ![x] = u]
    BY Zenon DEF AddVnf
  <2>1. ASSUME NEW y \in Vnf, value'[y] # NONE PROVE vnf'[value'[y]] = y
    <3>1. CASE y = x
      BY <1>4, <2>0, <3>1, Zenon
    <3>2. CASE y # x
      <4>1. value'[y] = value[y] /\ value[y] \in Ul /\ vnf[value[y]] = y
        BY <1>4, <2>0, <2>1, <3>2, Zenon DEF IInv, ReverseMatches
      <4>2. value[y] # u
        BY <2>0, <4>1, IfaceNoneAssumption, Zenon
      <4> QED
        BY <1>4, <2>0, <4>1, <4>2, Zenon
    <3> QED
      BY <3>1, <3>2, Zenon
  <2>2. ASSUME NEW w \in Ul, vnf'[w] # NONE, vnf'[w].type # "pfx" PROVE value'[vnf'[w]] = w
    <3>1. CASE w = u
      BY <1>4, <2>0, <3>1, Zenon
    <3>2. CASE w # u
      <4>1. vnf'[w] = vnf[w] /\ vnf[w] \in Vnf /\ value[vnf[w]] = w
        BY <1>4, <2>0, <2>2, <3>2, Zenon DEF IInv, ReverseMatches
      <4>2. vnf[w] # x
        BY <2>2, <4>1, IfaceNoneAssumption, Zenon
      <4> QED
        BY <1>4, <2>0, <4>1, <4>2, Zenon
    <3> QED
      BY <3>1, <3>2, Zenon
  <2> QED
    BY <2>1, <2>2, Zenon DEF ReverseMatches
<1> QED
  BY <1>1, <1>3, <1>5, <1>6, Zenon DEF IInv

\* Losing the reverse entry of an alias prefix.
LEMMA ForgetIInv ==
  ASSUME IInv, NEW x \in Vnf, x.type = "pfx", value' = [value EXCEPT ![x] = NONE],
         UNCHANGED <<allocated, iface, ids, vnf, vnis>>
  PROVE  IInv'
<1>1. Types'
  BY Zenon DEF IInv, Types
<1>2. Used' = Used
  BY Zenon DEF Used
<1>3. VniCounted' /\ IdsMatch' /\ UnderlayMatches'
  BY <1>2 DEF IInv, VniCounted, IdsMatch, UnderlayMatches
<1>4. ReverseMatches'
  BY Zenon DEF IInv, Types, ReverseMatches
<1> QED
  BY <1>1, <1>3, <1>4, Zenon DEF IInv

\* A registration that fails leaves at most that trace.
LEMMA AddVnfFailsTrace ==
  ASSUME IInv, NEW u \in Ul, NEW x \in Vnf, AddVnfFails(u, x), x.type # "pfx" => value[x] = NONE
  PROVE  /\ vnf' = vnf
         /\ value' = value \/ (x.type = "pfx" /\ value' = [value EXCEPT ![x] = NONE])
<1>1. vnf \in [Ul -> Vnf \cup {NONE}] /\ value \in [Vnf -> Ul \cup {NONE}] /\ x # NONE
  BY IfaceNoneAssumption, Zenon DEF IInv, Types
<1>2. CASE UNCHANGED <<vnf, value>>
  BY <1>2, Zenon
<1>3. CASE vnf[u] = NONE /\ DelVnf([vnf EXCEPT ![u] = x], value, u)
  <2>1. vnf' = vnf
    BY <1>1, <1>3, Zenon DEF DelVnf
  <2>2. value' = [value EXCEPT ![x] = NONE]
    BY <1>1, <1>3, Zenon DEF DelVnf
  <2> QED
    BY <1>1, <2>1, <2>2, Zenon
<1> QED
  BY <1>2, <1>3, Zenon DEF AddVnfFails

\* dp_del_vnf() for an address that is not that of an interface: the reverse entry it removes is that
\* of no other address, except for alias prefixes.
LEMMA DelVnfIInv ==
  ASSUME IInv, NEW u \in Ul, vnf[u] # NONE, vnf[u].type # "iface", DelVnf(vnf, value, u),
         UNCHANGED <<allocated, iface, ids, vnis>>
  PROVE  IInv'
<1>1. vnf \in [Ul -> Vnf \cup {NONE}] /\ value \in [Vnf -> Ul \cup {NONE}] /\ vnf[u] \in Vnf
  BY Zenon DEF IInv, Types
<1>2. vnf' = [vnf EXCEPT ![u] = NONE] /\ value' = [value EXCEPT ![vnf[u]] = NONE]
  BY Zenon DEF DelVnf
<1>3. Types'
  BY <1>1, <1>2, Zenon DEF IInv, Types
<1>4. Used' = Used
  BY Zenon DEF Used
<1>5. VniCounted' /\ IdsMatch'
  BY <1>4 DEF IInv, VniCounted, IdsMatch
<1>6. UnderlayMatches'
  <2>1. \A p \in Used : iface[p].ul \in Ul /\ iface[p].ul # u
    <3> SUFFICES ASSUME NEW p \in Used PROVE iface[p].ul \in Ul /\ iface[p].ul # u
      OBVIOUS
    <3>1. iface[p] \in Iface
      BY Zenon DEF IInv, Types, Used
    <3>2. vnf[iface[p].ul] = VnfOf("iface", p, iface[p].vni, NONE)
      BY Zenon DEF IInv, UnderlayMatches
    <3>3. VnfOf("iface", p, iface[p].vni, NONE).type = "iface"
      BY Zenon DEF VnfOf
    <3> QED
      BY <3>1, <3>2, <3>3, Zenon DEF Iface
  <2> QED
    BY <1>1, <1>2, <1>4, <2>1, Zenon DEF IInv, UnderlayMatches
<1>7. ReverseMatches'
  BY <1>1, <1>2, IfaceNoneAssumption, Zenon DEF IInv, ReverseMatches
<1> QED
  BY <1>3, <1>5, <1>6, <1>7, Zenon DEF IInv

\* dp_del_vnf_by_value() for a prefix finds an address of that prefix, or nothing.
LEMMA DelVnfByValueIInv ==
  ASSUME IInv, NEW x \in Vnf, x.type # "iface", DelVnfByValue(x), UNCHANGED <<allocated, iface, ids, vnis>>
  PROVE  IInv'
<1>1. CASE value[x] = NONE
  BY <1>1, StutterIInv, Zenon DEF DelVnfByValue, AllButResult
<1>2. CASE value[x] # NONE
  <2>1. value[x] \in Ul /\ vnf[value[x]] = x /\ x # NONE
    BY <1>2, IfaceNoneAssumption, Zenon DEF IInv, Types, ReverseMatches
  <2> QED
    BY <1>2, <2>1, DelVnfIInv, Zenon DEF DelVnfByValue
<1> QED
  BY <1>1, <1>2, Zenon

\* Every label of dp_process_create_interface() restores what its calls have changed.
LEMMA CreateInterfaceFailsUndone ==
  ASSUME IInv, NEW p \in Port, NEW f \in Iface, ~allocated[p],
         CreateInterfaceFails(p, f, VnfOf("iface", p, f.vni, NONE))
  PROVE  UNCHANGED AllButResult
<1> DEFINE x == VnfOf("iface", p, f.vni, NONE)
           n == RefVni(f.vni)
<1>1. f.vni \in Vni /\ f.ul \in Ul /\ f.id \in Id
  BY Zenon DEF Iface
<1>2. p \notin Used /\ x \in Vnf /\ value[x] = NONE /\ x # NONE
  BY <1>1, FreshIface, IfaceNoneAssumption, Zenon
<1>3. /\ iface \in [Port -> Iface \cup {NONE}] /\ iface[p] = NONE
      /\ ids \in [Id -> Port \cup {NONE}]
      /\ vnf \in [Ul -> Vnf \cup {NONE}]
      /\ value \in [Vnf -> Ul \cup {NONE}]
      /\ vnis \in [Vni -> Nat]
  BY <1>2, Zenon DEF IInv, Types, Used
<1>4. vnf' = vnf /\ value' = value
  <2> HIDE DEF x
  <2>1. vnf[f.ul] = NONE /\ DelVnf([vnf EXCEPT ![f.ul] = x], [value EXCEPT ![x] = f.ul], f.ul)
    BY Zenon DEF CreateInterfaceFails, UndoVnf, x
  <2>2. vnf' = vnf
    BY <1>1, <1>3, <2>1, Zenon DEF DelVnf
  <2>3. value' = value
    BY <1>1, <1>2, <1>3, <2>1, Zenon DEF DelVnf
  <2> QED
    BY <2>2, <2>3, Zenon
<1>5. ids' = ids
  BY <1>1, <1>3, Zenon DEF CreateInterfaceFails, UndoId
<1>6. ASSUME NEW r, DeleteIface(n, r, p, f) PROVE iface' = iface /\ vnis' = vnis
  BY <1>1, <1>3, <1>6 DEF DeleteIface, RefVni, ReleaseVni
<1>7. iface' = iface /\ vnis' = vnis
  BY <1>6, Zenon DEF CreateInterfaceFails
<1>8. allocated' = allocated
  BY Zenon DEF CreateInterfaceFails
<1> QED
  BY <1>4, <1>5, <1>7, <1>8, Zenon DEF AllButResult

\* A new interface: its port, identifier and underlay address were all unused.
LEMMA CreateInterfaceSucceedsIInv ==
  ASSUME IInv, NEW p \in Port, NEW f \in Iface, ~allocated[p],
         CreateInterfaceSucceeds(p, f, VnfOf("iface", p, f.vni, NONE))
  PROVE  IInv'
<1> DEFINE x == VnfOf("iface", p, f.vni, NONE)
<1>1. f.vni \in Vni /\ f.ul \in Ul /\ f.id \in Id /\ f # NONE
  BY IfaceNoneAssumption, Zenon DEF Iface
<1>2. p \notin Used /\ x \in Vnf /\ value[x] = NONE /\ x # NONE
  BY <1>1, FreshIface, IfaceNoneAssumption, Zenon
<1>3. Types
  BY Zenon DEF IInv
<1>4. /\ allocated' = [allocated EXCEPT ![p] = TRUE]
      /\ iface' = [iface EXCEPT ![p] = f]
      /\ ids[f.id] = NONE /\ ids' = [ids EXCEPT ![f.id] = p]
      /\ vnf[f.ul] = NONE /\ vnf' = [vnf EXCEPT ![f.ul] = x] /\ value' = [value EXCEPT ![x] = f.ul]
      /\ vnis' = [vnis EXCEPT ![f.vni] = @ + 1]
  BY Zenon DEF CreateInterfaceSucceeds, AddVnf, RefVni
<1>5. x.type = "iface" /\ x.port = p
  BY Zenon DEF VnfOf
<1>7. x = VnfOf("iface", p, f.vni, NONE)
  OBVIOUS
<1> HIDE DEF x
<1>8. Types'
  BY <1>1, <1>2, <1>3, <1>4 DEF Types
<1>9. Used' = Used \cup {p} /\ iface'[p] = f /\ \A q \in Used : q # p /\ q \in Port /\ iface'[q] = iface[q]
  BY <1>1, <1>2, <1>3, <1>4, Zenon DEF Used, Types
<1>10. VniCounted'
  <2> SUFFICES ASSUME NEW v \in Vni
               PROVE  vnis'[v] = Cardinality({q \in Used' : iface'[q].vni = v})
    BY Zenon DEF VniCounted
  <2> DEFINE S == {q \in Used : iface[q].vni = v}
  <2>1. vnis[v] = Cardinality(S)
    BY Zenon DEF IInv, VniCounted
  <2>2. CASE v = f.vni
    <3>1. {q \in Used' : iface'[q].vni = v} = S \cup {p}
      BY <1>9, <2>2, Zenon
    <3>2. S \in SUBSET Port /\ p \notin S
      BY <1>2, Zenon DEF Used
    <3>3. vnis'[v] = vnis[v] + 1
      BY <1>3, <1>4, <2>2, Zenon DEF Types
    <3> HIDE DEF S
    <3> QED
      BY <2>1, <3>1, <3>2, <3>3, CountUp, Zenon
  <2>3. CASE v # f.vni
    <3>1. {q \in Used' : iface'[q].vni = v} = S
      BY <1>9, <2>3, Zenon
    <3> QED
      BY <1>3, <1>4, <2>1, <2>3, <3>1, Zenon DEF Types
  <2> QED
    BY <2>2, <2>3, Zenon
<1>11. IdsMatch'
  <2>1. ASSUME NEW i \in Id, ids'[i] # NONE PROVE ids'[i] \in Used' /\ iface'[ids'[i]].id = i
    <3>1. CASE i = f.id
      BY <1>1, <1>3, <1>4, <1>9, <3>1, Zenon DEF Types
    <3>2. CASE i # f.id
      BY <1>3, <1>4, <1>9, <2>1, <3>2, Zenon DEF IInv, IdsMatch, Types
    <3> QED
      BY <3>1, <3>2, Zenon
  <2>2. ASSUME NEW q \in Used' PROVE ids'[iface'[q].id] = q /\ allocated'[q]
    <3>1. CASE q = p
      BY <1>1, <1>3, <1>4, <1>9, <3>1, Zenon DEF Types
    <3>2. CASE q # p
      <4>1. q \in Used /\ q \in Port /\ iface'[q] = iface[q] /\ iface[q] \in Iface
        BY <1>3, <1>9, <3>2, Zenon DEF Used, Types
      <4>2. iface[q].id \in Id /\ ids[iface[q].id] = q /\ allocated[q]
        BY <4>1, Zenon DEF IInv, IdsMatch, Iface
      <4>3. q # NONE
        BY <4>1, IfaceNoneAssumption, Zenon DEF NextHop
      <4>4. ids'[iface'[q].id] = q
        BY <1>3, <1>4, <4>1, <4>2, <4>3, Zenon DEF Types
      <4>5. allocated'[q]
        BY <1>3, <1>4, <3>2, <4>1, <4>2, Zenon DEF Types
      <4> QED
        BY <4>4, <4>5, Zenon
    <3> QED
      BY <3>1, <3>2, Zenon
  <2> QED
    BY <2>1, <2>2, Zenon DEF IdsMatch
<1>12. UnderlayMatches'
  <2>1. ASSUME NEW q \in Used' PROVE vnf'[iface'[q].ul] = VnfOf("iface", q, iface'[q].vni, NONE)
    <3>1. CASE q = p
      BY <1>1, <1>3, <1>4, <1>7, <1>9, <3>1, Zenon DEF Types
    <3>2. CASE q # p
      <4>1. q \in Used /\ q \in Port /\ iface'[q] = iface[q] /\ iface[q] \in Iface
        BY <1>3, <1>9, <3>2, Zenon DEF Used, Types
      <4>2. iface[q].ul \in Ul /\ vnf[iface[q].ul] = VnfOf("iface", q, iface[q].vni, NONE)
        BY <4>1, Zenon DEF IInv, UnderlayMatches, Iface
      <4>3. VnfOf("iface", q, iface[q].vni, NONE) # NONE
        <5>1. VnfOf("iface", q, iface[q].vni, NONE) \in Vnf
          BY <4>1, Zenon DEF VnfOf, Vnf, Iface
        <5> QED
          BY <5>1, IfaceNoneAssumption, Zenon
      <4> QED
        BY <1>3, <1>4, <4>1, <4>2, <4>3, Zenon DEF Types
    <3> QED
      BY <3>1, <3>2, Zenon
  <2>2. ASSUME NEW u \in Ul, vnf'[u] # NONE, vnf'[u].type = "iface"
        PROVE  vnf'[u].port \in Used' /\ iface'[vnf'[u].port].ul = u
    <3>1. CASE u = f.ul
      BY <1>1, <1>3, <1>4, <1>5, <1>9, <3>1, Zenon DEF Types
    <3>2. CASE u # f.ul
      <4>1. vnf'[u] = vnf[u]
        BY <1>3, <1>4, <3>2, Zenon DEF Types
      <4> QED
        BY <1>9, <2>2, <4>1 DEF IInv, UnderlayMatches
    <3> QED
      BY <3>1, <3>2, Zenon
  <2> QED
    BY <2>1, <2>2, Zenon DEF UnderlayMatches
<1>13. ReverseMatches'
  <2>1. ASSUME NEW y \in Vnf, value'[y] # NONE PROVE vnf'[value'[y]] = y
    <3>1. CASE y = x
      BY <1>1, <1>3, <1>4, <3>1, Zenon DEF Types
    <3>2. CASE y # x
      <4>1. value'[y] = value[y] /\ value[y] \in Ul /\ vnf[value[y]] = y
        BY <1>2, <1>3, <1>4, <2>1, <3>2, Zenon DEF IInv, ReverseMatches, Types
      <4>2. value[y] # f.ul
        BY <1>4, <4>1, IfaceNoneAssumption, Zenon
      <4> QED
        BY <1>3, <1>4, <4>1, <4>2, Zenon DEF Types
    <3> QED
      BY <3>1, <3>2, Zenon
  <2>2. ASSUME NEW w \in Ul, vnf'[w] # NONE, vnf'[w].type # "pfx" PROVE value'[vnf'[w]] = w
    <3>1. CASE w = f.ul
      BY <1>1, <1>2, <1>3, <1>4, <3>1, Zenon DEF Types
    <3>2. CASE w # f.ul
      <4>1. vnf'[w] = vnf[w] /\ vnf[w] \in Vnf /\ value[vnf[w]] = w
        BY <1>3, <1>4, <2>2, <3>2, Zenon DEF IInv, ReverseMatches, Types
      <4>2. vnf[w] # x
        BY <1>2, <4>1, IfaceNoneAssumption, Zenon
      <4> QED
        BY <1>3, <1>4, <4>1, <4>2, Zenon DEF Types
    <3> QED
      BY <3>1, <3>2, Zenon
  <2> QED
    BY <2>1, <2>2, Zenon DEF ReverseMatches
<1> QED
  BY <1>8, <1>10, <1>11, <1>12, <1>13, Zenon DEF IInv

\* The tables after an interface is deleted, whether or not its port stops.
LEMMA DeleteInterfaceIInv ==
  ASSUME IInv, NEW i \in Id, DeleteInterface(i)
  PROVE  IInv'
<1> DEFINE p == ids[i]
           f == iface[p]
           u == f.ul
           x == VnfOf("iface", p, f.vni, NONE)
<1>1. Types
  BY Zenon DEF IInv
<1>2. p \in Used /\ p \in Port /\ f \in Iface /\ f.id = i /\ p # NONE
  BY <1>1, IfaceNoneAssumption, Zenon DEF DeleteInterface, IInv, IdsMatch, Types, Used, NextHop
<1>3. f.vni \in Vni /\ u \in Ul
  BY <1>2, Zenon DEF Iface
<1>4. x \in Vnf /\ x # NONE /\ x.type = "iface" /\ x.port = p
  BY <1>2, <1>3, IfaceNoneAssumption DEF VnfOf, Vnf
<1>5. vnf[u] = x
  BY <1>2, Zenon DEF IInv, UnderlayMatches
<1> HIDE DEF x
<1>6. /\ vnf' = [vnf EXCEPT ![u] = NONE]
      /\ value' = [value EXCEPT ![x] = NONE]
      /\ ids' = [ids EXCEPT ![i] = NONE]
      /\ iface' = [iface EXCEPT ![p] = NONE]
      /\ vnis' = [vnis EXCEPT ![f.vni] = @ - 1]
  BY <1>4, <1>5, Zenon DEF DeleteInterface, DelVnf, DeleteIface, ReleaseVni
<1>7. allocated' = allocated \/ allocated' = [allocated EXCEPT ![p] = FALSE]
  BY Zenon DEF DeleteInterface
<1> HIDE DEF p, f, u
<1>8. Used' = Used \ {p} /\ \A q \in Used' : q # p /\ q \in Used /\ q \in Port /\ iface'[q] = iface[q] /\ iface[q] \in Iface
  BY <1>1, <1>2, <1>6, Zenon DEF Used, Types
<1>9. \A v \in Vni :
        LET S == {q \in Used : iface[q].vni = v} IN
        /\ S \in SUBSET Port
        /\ vnis[v] = Cardinality(S)
        /\ {q \in Used' : iface'[q].vni = v} = S \ {p}
        /\ p \in S <=> v = f.vni
  <2> SUFFICES ASSUME NEW v \in Vni
               PROVE  LET S == {q \in Used : iface[q].vni = v} IN
                      /\ S \in SUBSET Port
                      /\ vnis[v] = Cardinality(S)
                      /\ {q \in Used' : iface'[q].vni = v} = S \ {p}
                      /\ p \in S <=> v = f.vni
    OBVIOUS
  <2>1. vnis[v] = Cardinality({q \in Used : iface[q].vni = v})
    BY Zenon DEF IInv, VniCounted
  <2>2. {q \in Used : iface[q].vni = v} \in SUBSET Port
    BY Zenon DEF Used
  <2>3. p \in {q \in Used : iface[q].vni = v} <=> v = f.vni
    BY <1>2, Zenon DEF f
  <2>4. {q \in Used' : iface'[q].vni = v} = {q \in Used : iface[q].vni = v} \ {p}
    BY <1>8, Zenon
  <2> QED
    BY <2>1, <2>2, <2>3, <2>4, Zenon
<1>10. vnis[f.vni] \in Nat \ {0}
  <2>1. {q \in Used : iface[q].vni = f.vni} \in SUBSET Port /\ p \in {q \in Used : iface[q].vni = f.vni}
        /\ vnis[f.vni] = Cardinality({q \in Used : iface[q].vni = f.vni})
    BY <1>3, <1>9, Zenon
  <2> QED
    BY <2>1, CountDown, Zenon
<1>11. Types'
  <2>1. vnis' \in [Vni -> Nat]
    BY <1>1, <1>3, <1>6, <1>10 DEF Types
  <2>2. allocated' \in [Port -> BOOLEAN]
    BY <1>1, <1>2, <1>7, Zenon DEF Types
  <2> QED
    BY <1>1, <1>2, <1>3, <1>4, <1>6, <2>1, <2>2, Zenon DEF Types
<1>12. VniCounted'
  <2> SUFFICES ASSUME NEW v \in Vni
               PROVE  vnis'[v] = Cardinality({q \in Used' : iface'[q].vni = v})
    BY Zenon DEF VniCounted
  <2> DEFINE S == {q \in Used : iface[q].vni = v}
  <2>1. S \in SUBSET Port /\ vnis[v] = Cardinality(S)
        /\ {q \in Used' : iface'[q].vni = v} = S \ {p} /\ (p \in S <=> v = f.vni)
    BY <1>9, Zenon
  <2> HIDE DEF S
  <2>2. CASE v = f.vni
    <3>1. vnis'[v] = vnis[v] - 1
      BY <1>1, <1>6, <2>2, Zenon DEF Types
    <3> QED
      BY <2>1, <2>2, <3>1, CountDown, Zenon
  <2>3. CASE v # f.vni
    <3>1. S \ {p} = S
      BY <2>1, <2>3, Zenon
    <3>2. vnis'[v] = vnis[v]
      BY <1>1, <1>6, <2>3, Zenon DEF Types
    <3> QED
      BY <2>1, <3>1, <3>2, Zenon
  <2> QED
    BY <2>2, <2>3, Zenon
<1>13. IdsMatch'
  <2>1. ASSUME NEW j \in Id, ids'[j] # NONE PROVE ids'[j] \in Used' /\ iface'[ids'[j]].id = j
    <3>1. j # i /\ ids'[j] = ids[j]
      BY <1>1, <1>6, <2>1, Zenon DEF Types
    <3>2. ids[j] \in Used /\ iface[ids[j]].id = j
      BY <2>1, <3>1, Zenon DEF IInv, IdsMatch
    <3>3. ids[j] # p
      BY <1>2, <3>1, <3>2, Zenon DEF f
    <3> QED
      BY <1>8, <3>1, <3>2, <3>3, Zenon
  <2>2. ASSUME NEW q \in Used' PROVE ids'[iface'[q].id] = q /\ allocated'[q]
    <3>1. q # p /\ q \in Used /\ q \in Port /\ iface'[q] = iface[q] /\ iface[q] \in Iface
      BY <1>8, Zenon
    <3>2. iface[q].id \in Id /\ ids[iface[q].id] = q /\ allocated[q]
      BY <3>1, Zenon DEF IInv, IdsMatch, Iface
    <3>3. iface[q].id # i
      BY <3>1, <3>2, Zenon DEF p
    <3>4. ids'[iface'[q].id] = q
      BY <1>1, <1>6, <3>1, <3>2, <3>3, Zenon DEF Types
    <3>5. allocated'[q]
      BY <1>1, <1>7, <3>1, <3>2, Zenon DEF Types
    <3> QED
      BY <3>4, <3>5, Zenon
  <2> QED
    BY <2>1, <2>2, Zenon DEF IdsMatch
<1>14. UnderlayMatches'
  <2>1. ASSUME NEW q \in Used' PROVE vnf'[iface'[q].ul] = VnfOf("iface", q, iface'[q].vni, NONE)
    <3>1. q # p /\ q \in Used /\ q \in Port /\ iface'[q] = iface[q] /\ iface[q] \in Iface
      BY <1>8, Zenon
    <3>2. iface[q].ul \in Ul /\ vnf[iface[q].ul] = VnfOf("iface", q, iface[q].vni, NONE)
      BY <3>1, Zenon DEF IInv, UnderlayMatches, Iface
    <3>3. VnfOf("iface", q, iface[q].vni, NONE).port = q
      BY Zenon DEF VnfOf
    <3>4. iface[q].ul # u
      BY <1>4, <1>5, <3>1, <3>2, <3>3, Zenon
    <3> QED
      BY <1>1, <1>6, <3>1, <3>2, <3>4, Zenon DEF Types
  <2>2. ASSUME NEW w \in Ul, vnf'[w] # NONE, vnf'[w].type = "iface"
        PROVE  vnf'[w].port \in Used' /\ iface'[vnf'[w].port].ul = w
    <3>1. w # u /\ vnf'[w] = vnf[w]
      BY <1>1, <1>6, <2>2, Zenon DEF Types
    <3>2. vnf[w].port \in Used /\ iface[vnf[w].port].ul = w
      BY <2>2, <3>1, Zenon DEF IInv, UnderlayMatches
    <3>3. vnf[w].port # p
      BY <3>1, <3>2, Zenon DEF u, f
    <3> QED
      BY <1>8, <3>1, <3>2, <3>3, Zenon
  <2> QED
    BY <2>1, <2>2, Zenon DEF UnderlayMatches
<1>15. ReverseMatches'
  <2>1. ASSUME NEW y \in Vnf, value'[y] # NONE PROVE vnf'[value'[y]] = y
    <3>1. y # x /\ value'[y] = value[y] /\ value[y] \in Ul
      BY <1>1, <1>6, <2>1, Zenon DEF Types
    <3>2. vnf[value[y]] = y
      BY <2>1, <3>1, Zenon DEF IInv, ReverseMatches
    <3>3. value[y] # u
      BY <1>5, <3>1, <3>2, Zenon
    <3> QED
      BY <1>1, <1>6, <3>1, <3>2, <3>3, Zenon DEF Types
  <2>2. ASSUME NEW w \in Ul, vnf'[w] # NONE, vnf'[w].type # "pfx" PROVE value'[vnf'[w]] = w
    <3>1. w # u /\ vnf'[w] = vnf[w] /\ vnf[w] \in Vnf
      BY <1>1, <1>6, <2>2, Zenon DEF Types
    <3>2. value[vnf[w]] = w /\ value[x] = u
      BY <1>3, <1>4, <1>5, <2>2, <3>1, Zenon DEF IInv, ReverseMatches
    <3>3. vnf[w] # x
      BY <3>1, <3>2, Zenon
    <3> QED
      BY <1>1, <1>6, <3>1, <3>2, <3>3, Zenon DEF Types
  <2> QED
    BY <2>1, <2>2, Zenon DEF ReverseMatches
<1> QED
  BY <1>11, <1>12, <1>13, <1>14, <1>15, Zenon DEF IInv

\* Leaving the tables alone leaves no trace.
LEMMA NoTraceOfStutter == UNCHANGED AllButResult => LeavesNoTrace
BY Zenon DEF AllButResult, LeavesNoTrace

\* A failed registration of a prefix keeps the invariant and leaves at most the trace that is excepted.
LEMMA NoTraceOfPrefix ==
  ASSUME IInv, NEW x \in Vnf, UNCHANGED <<allocated, iface, ids, vnf, vnis>>,
         value' = value \/ (x.type = "pfx" /\ value' = [value EXCEPT ![x] = NONE])
  PROVE  IInv' /\ LeavesNoTrace
<1>1. CASE value' = value
  BY <1>1, StutterIInv, NoTraceOfStutter, Zenon DEF AllButResult
<1>2. CASE x.type = "pfx" /\ value' = [value EXCEPT ![x] = NONE]
  <2>1. IInv'
    BY <1>2, ForgetIInv, Zenon
  <2>2. LeavesNoTrace
    BY <1>2, Zenon DEF LeavesNoTrace, IInv, Types
  <2> QED
    BY <2>1, <2>2, Zenon
<1> QED
  BY <1>1, <1>2, Zenon

\* What every step does.
Kept == IInv' /\ (result' = "REFUSED" => LeavesNoTrace)

\* Steps on the routes only.
LEMMA StutterKept == IInv /\ UNCHANGED AllButResult => Kept
BY StutterIInv, NoTraceOfStutter, Zenon DEF Kept

\* Every outcome of dp_process_create_interface().
LEMMA CreateInterfaceKept ==
  ASSUME IInv, NEW p \in Port, NEW q \in IfaceReq, NEW u \in Ul, CreateInterface(p, q, u)
  PROVE  Kept
<1> DEFINE f == [id |-> q.id, vni |-> q.vni, v4 |-> q.v4, v6 |-> q.v6, ul |-> u]
           x == VnfOf("iface", p, q.vni, NONE)
<1>1. f \in Iface /\ f.vni = q.vni /\ f.ul = u /\ q.vni \in Vni
  BY IfaceAssumption, Zenon DEF Iface
<1>2. CASE UNCHANGED <<allocated, iface, ids, vnf, value, vnis, routes>>
  BY <1>2, StutterKept, Zenon DEF AllButResult
<1>3. ASSUME ~allocated[p], AddVnfFails(u, x), UNCHANGED <<allocated, iface, ids, vnis, routes>>
      PROVE  Kept
  <2>1. x \in Vnf /\ value[x] = NONE
    BY <1>1, <1>3, FreshIface, Zenon
  <2> HIDE DEF x
  <2>2. vnf' = vnf /\ (value' = value \/ (x.type = "pfx" /\ value' = [value EXCEPT ![x] = NONE]))
    BY <1>3, <2>1, AddVnfFailsTrace, Zenon
  <2> QED
    BY <1>3, <2>1, <2>2, NoTraceOfPrefix, Zenon DEF Kept
<1>4. ASSUME ~allocated[p], CreateInterfaceFails(p, f, x) PROVE Kept
  <2> HIDE DEF f
  <2> QED
    BY <1>1, <1>4, CreateInterfaceFailsUndone, StutterKept, Zenon
<1>5. ASSUME ~allocated[p], CreateInterfaceSucceeds(p, f, x) PROVE Kept
  <2>1. result' = "OK"
    BY <1>5, Zenon DEF CreateInterfaceSucceeds
  <2> HIDE DEF f
  <2>2. IInv'
    BY <1>1, <1>5, CreateInterfaceSucceedsIInv, Zenon
  <2> QED
    BY <2>1, <2>2, Zenon DEF Kept
<1> QED
  BY <1>2, <1>3, <1>4, <1>5, Zenon DEF CreateInterface

\* The network function of a prefix of an interface that exists.
LEMMA PrefixVnf ==
  ASSUME IInv, NEW i \in Id, ids[i] # NONE, NEW k \in Prefix, NEW t \in {"pfx", "lbpfx"}
  PROVE  LET x == VnfOf(t, ids[i], iface[ids[i]].vni, k) IN x \in Vnf /\ x.type = t
<1>1. ids[i] \in Port /\ iface[ids[i]] \in Iface
  BY Zenon DEF IInv, Types, IdsMatch, Used
<1> QED
  BY <1>1, Zenon DEF VnfOf, Vnf, Iface

\* The four prefix handlers.
LEMMA PrefixesKept ==
  ASSUME IInv, NEW i \in Id, NEW k \in Prefix, NEW u \in Ul,
         \/ CreatePrefix(i, k, u) \/ CreateLbPrefix(i, k, u)
         \/ DeletePrefix(i, k) \/ DeleteLbPrefix(i, k)
  PROVE  Kept
<1> DEFINE a == VnfOf("pfx", ids[i], iface[ids[i]].vni, k)
           b == VnfOf("lbpfx", ids[i], iface[ids[i]].vni, k)
<1>0. ids[i] # NONE /\ UNCHANGED <<allocated, iface, ids, vnis>>
  BY Zenon DEF CreatePrefix, CreateLbPrefix, DeletePrefix, DeleteLbPrefix
<1>1. a \in Vnf /\ a.type = "pfx" /\ b \in Vnf /\ b.type = "lbpfx"
  BY <1>0, PrefixVnf, Zenon
<1>2. CASE CreatePrefix(i, k, u)
  <2>1. \/ UNCHANGED <<vnf, value>>
        \/ AddVnfFails(u, a)
        \/ result' = "OK" /\ AddVnf(u, a)
    BY <1>2, Zenon DEF CreatePrefix
  <2> HIDE DEF a
  <2>2. CASE UNCHANGED <<vnf, value>>
    BY <1>0, <2>2, StutterKept, Zenon DEF AllButResult
  <2>3. CASE AddVnfFails(u, a)
    <3>1. vnf' = vnf /\ (value' = value \/ (a.type = "pfx" /\ value' = [value EXCEPT ![a] = NONE]))
      BY <1>1, <2>3, AddVnfFailsTrace, Zenon
    <3> QED
      BY <1>0, <1>1, <3>1, NoTraceOfPrefix, Zenon DEF Kept
  <2>4. CASE result' = "OK" /\ AddVnf(u, a)
    BY <1>0, <1>1, <2>4, AddVnfIInv, Zenon DEF Kept
  <2> QED
    BY <2>1, <2>2, <2>3, <2>4, Zenon
<1>3. CASE CreateLbPrefix(i, k, u)
  <2>1. \/ UNCHANGED <<vnf, value>>
        \/ value[b] = NONE /\ AddVnfFails(u, b)
        \/ value[b] = NONE /\ result' = "OK" /\ AddVnf(u, b)
    BY <1>3, Zenon DEF CreateLbPrefix, LbPrefixExists
  <2> HIDE DEF b
  <2>2. CASE UNCHANGED <<vnf, value>>
    BY <1>0, <2>2, StutterKept, Zenon DEF AllButResult
  <2>3. CASE value[b] = NONE /\ AddVnfFails(u, b)
    <3>1. vnf' = vnf /\ (value' = value \/ (b.type = "pfx" /\ value' = [value EXCEPT ![b] = NONE]))
      BY <1>1, <2>3, AddVnfFailsTrace, Zenon
    <3> QED
      BY <1>0, <1>1, <3>1, NoTraceOfPrefix, Zenon DEF Kept
  <2>4. CASE value[b] = NONE /\ result' = "OK" /\ AddVnf(u, b)
    BY <1>0, <1>1, <2>4, AddVnfIInv, Zenon DEF Kept
  <2> QED
    BY <2>1, <2>2, <2>3, <2>4, Zenon
<1>4. CASE DeletePrefix(i, k)
  <2>1. DelVnfByValue(a) /\ result' \in {"OK", "PARTIAL"}
    BY <1>4, Zenon DEF DeletePrefix
  <2> HIDE DEF a
  <2> QED
    BY <1>0, <1>1, <2>1, DelVnfByValueIInv, Zenon DEF Kept
<1>5. CASE DeleteLbPrefix(i, k)
  <2>1. DelVnfByValue(b) /\ (result' = "REFUSED" => value[b] = NONE)
    BY <1>5, Zenon DEF DeleteLbPrefix
  <2> HIDE DEF b
  <2>2. IInv'
    BY <1>0, <1>1, <2>1, DelVnfByValueIInv, Zenon
  <2>3. result' = "REFUSED" => LeavesNoTrace
    BY <1>0, <2>1, NoTraceOfStutter, Zenon DEF DelVnfByValue, AllButResult
  <2> QED
    BY <2>2, <2>3, Zenon DEF Kept
<1> QED
  BY <1>2, <1>3, <1>4, <1>5, Zenon

\* Every request.
LEMMA NextKept == ASSUME IInv, Next PROVE Kept
<1>1. ASSUME NEW p \in Port, NEW q \in IfaceReq, NEW u \in Ul, CreateInterface(p, q, u) PROVE Kept
  BY <1>1, CreateInterfaceKept, Zenon
<1>2. ASSUME NEW i \in Id, DeleteInterface(i) PROVE Kept
  <2>1. result' # "REFUSED"
    BY <1>2, Zenon DEF DeleteInterface
  <2> QED
    BY <1>2, <2>1, DeleteInterfaceIInv, Zenon DEF Kept
<1>3. ASSUME NEW i \in Id, UnknownInterface(i) PROVE Kept
  BY <1>3, StutterKept, Zenon DEF UnknownInterface, AllButResult
<1>4. ASSUME NEW i \in Id, NEW k \in Prefix, NEW u \in Ul,
             CreatePrefix(i, k, u) \/ CreateLbPrefix(i, k, u)
      PROVE  Kept
  BY <1>4, PrefixesKept, Zenon
<1>5. ASSUME NEW i \in Id, NEW k \in Prefix, DeletePrefix(i, k) \/ DeleteLbPrefix(i, k) PROVE Kept
  <2>1. CASE Ul = {}
    <3>1. ids[i] # NONE
      BY <1>5, Zenon DEF DeletePrefix, DeleteLbPrefix
    <3>2. iface[ids[i]] \in Iface
      BY <3>1, Zenon DEF IInv, Types, IdsMatch, Used
    <3> QED
      BY <2>1, <3>2, Zenon DEF Iface
  <2>2. ASSUME NEW u \in Ul PROVE Kept
    BY <1>5, PrefixesKept, Zenon
  <2> QED
    BY <2>1, <2>2, Zenon
<1>6. ASSUME NEW v \in Vni, NEW k \in RouteKey, CreateRoute(v, k) \/ DeleteRoute(v, k) PROVE Kept
  BY <1>6, StutterKept, Zenon DEF CreateRoute, DeleteRoute, AllButResult
<1>7. ASSUME NEW V, ResetVnis(V) PROVE Kept
  BY <1>7, StutterKept, Zenon DEF ResetVnis, AllButResult
<1> QED
  BY <1>1, <1>2, <1>3, <1>4, <1>5, <1>6, <1>7, Zenon DEF Next, RouteKey

\* IInv holds always.
LEMMA Invariance == Spec => []IInv
<1>1. IInv /\ [Next]_vars => IInv'
  <2>1. IInv /\ UNCHANGED vars => IInv'
    BY StutterIInv, Zenon DEF vars, AllButResult
  <2> QED
    BY <2>1, NextKept, Zenon DEF Kept
<1> QED
  BY InitIInv, <1>1, PTL DEF Spec

\* References to VNIs are counted for any number of ports and VNIs (dp_vni.c).
THEOREM VniCountedAlways == Spec => []VniCounted
<1>1. IInv => VniCounted
  BY Zenon DEF IInv
<1> QED
  BY Invariance, <1>1, PTL

\* Identifiers and interfaces name each other (dp_iface.c).
THEOREM IdsMatchAlways == Spec => []IdsMatch
<1>1. IInv => IdsMatch
  BY Zenon DEF IInv
<1> QED
  BY Invariance, <1>1, PTL

\* Underlay addresses lead to the interfaces that own them, and to no other (dp_vnf.c).
THEOREM UnderlayMatchesAlways == Spec => []UnderlayMatches
<1>1. IInv => UnderlayMatches
  BY Zenon DEF IInv
<1> QED
  BY Invariance, <1>1, PTL

\* The reverse table is sound, and complete but for alias prefixes (dp_vnf.c).
THEOREM ReverseMatchesAlways == Spec => []ReverseMatches
<1>1. IInv => ReverseMatches
  BY Zenon DEF IInv
<1> QED
  BY Invariance, <1>1, PTL

\* A request that is refused, at whichever call, is undone (the labels of dp_grpc_impl.c).
THEOREM RefusedIsUndone == Spec => RefusedLeavesNoTrace
<1>1. IInv /\ [Next]_vars => [result' = "REFUSED" => LeavesNoTrace]_vars
  BY NextKept DEF Kept
<1> QED
  BY Invariance, <1>1, PTL DEF Spec, RefusedLeavesNoTrace

-----------------------------------------------------------------------------
(* The routes of the interfaces, for any number of ports, VNIs, addresses  *)
(* and prefixes.  A host route leads to an interface that has the address: *)
(* without this the clean-up of a refused interface could take away a      *)
(* route that was there before.                                            *)
RouteTables == [Vni -> [RouteKey -> NextHop \cup {NONE}]]

HasAddress(p, v, k) == p \in Used /\ iface[p].vni = v /\ k \in {iface[p].v4, iface[p].v6}

HostRoutes == \A v \in Vni, k \in RouteKey \ Prefix : routes[v][k] \in Port => HasAddress(routes[v][k], v, k)

RtInv == routes \in RouteTables /\ RoutesNeedVni /\ HostRoutes

OwnKept == \A p \in Used' : p \notin Used \/ Routed(iface[p], p, routes) => Routed(iface'[p], p, routes')

RtKept ==
  /\ RtInv'
  /\ result' = "REFUSED" => UNCHANGED routes
  /\ result' = "OK" => OwnKept

LEMMA RouteAdded ==
  ASSUME NEW r \in RouteTables, NEW h \in NextHop, NEW v \in Vni, NEW k \in RouteKey
  PROVE  /\ AddRoute(r, h, v, k) \in RouteTables
         /\ AddRoute(r, h, v, k)[v][k] = h
         /\ \A w \in Vni, l \in RouteKey : w # v \/ l # k => AddRoute(r, h, v, k)[w][l] = r[w][l]
  BY Zenon DEF AddRoute, RouteTables

LEMMA RouteDeleted ==
  ASSUME NEW r \in RouteTables, NEW h \in NextHop, NEW v \in Vni, NEW k \in RouteKey
  PROVE  /\ DelRoute(r, h, v, k) \in RouteTables
         /\ DelRoute(r, h, v, k)[v][k] = IF r[v][k] = h THEN NONE ELSE r[v][k]
         /\ \A w \in Vni, l \in RouteKey : w # v \/ l # k => DelRoute(r, h, v, k)[w][l] = r[w][l]
         /\ r[v][k] # h => DelRoute(r, h, v, k) = r
  BY Zenon DEF DelRoute, RouteTables

LEMMA SameRoutes ==
  ASSUME NEW r \in RouteTables, NEW s \in RouteTables, \A v \in Vni, k \in RouteKey : r[v][k] = s[v][k]
  PROVE  r = s
<1>1. \A v \in Vni : r[v] = s[v]
  <2> SUFFICES ASSUME NEW v \in Vni PROVE r[v] = s[v]
    OBVIOUS
  <2>1. r[v] \in [RouteKey -> NextHop \cup {NONE}] /\ s[v] \in [RouteKey -> NextHop \cup {NONE}]
    BY Zenon DEF RouteTables
  <2>2. \A k \in RouteKey : r[v][k] = s[v][k]
    OBVIOUS
  <2> QED BY <2>1, <2>2
<1> QED BY <1>1 DEF RouteTables

LEMMA NoRoutesAt ==
  ASSUME NEW r \in RouteTables, NEW v \in Vni
  PROVE  /\ \A k \in RouteKey : NoRoutes[k] = NONE
         /\ NoRoutes \in [RouteKey -> NextHop \cup {NONE}]
         /\ (\A k \in RouteKey : r[v][k] = NONE) => r[v] = NoRoutes
<1>1. r[v] \in [RouteKey -> NextHop \cup {NONE}]
  BY Zenon DEF RouteTables
<1> QED BY <1>1 DEF NoRoutes

(* An interface, its addresses and its VNI. *)
LEMMA InVni ==
  ASSUME IInv, NEW p \in Used
  PROVE  /\ p \in Port /\ p \in NextHop /\ p # NONE /\ p # PF /\ iface[p] \in Iface /\ iface[p].vni \in Vni
         /\ iface[p].v4 \in RouteKey \ Prefix /\ iface[p].v6 \in RouteKey \ Prefix
         /\ vnis[iface[p].vni] \in Nat \ {0}
         /\ \A q \in Used : q # p /\ iface[q].vni = iface[p].vni => vnis[iface[p].vni] # 1
<1> DEFINE f == iface[p]
           S == {q \in Used : iface[q].vni = f.vni}
<1>1. p \in Port /\ f \in Iface
  BY Zenon DEF IInv, Types, Used
<1>2. p \in NextHop /\ p # NONE /\ p # PF
  BY <1>1, IfaceAssumption, IfaceNoneAssumption, Zenon DEF NextHop
<1>3. f.vni \in Vni /\ f.v4 \in Addr4 \cup {Zero4} /\ f.v6 \in Addr6 \cup {Zero6}
  BY <1>1, Zenon DEF Iface
<1>4. f.v4 \in RouteKey \ Prefix /\ f.v6 \in RouteKey \ Prefix
  BY <1>3, IfaceAssumption, Zenon DEF RouteKey
<1>5. S \in SUBSET Port /\ p \in S /\ vnis[f.vni] = Cardinality(S)
  BY <1>3, Zenon DEF IInv, VniCounted, Used
<1>6. \A q \in Used : q # p /\ iface[q].vni = f.vni => q \in S \ {p} /\ S \ {p} \in SUBSET Port
  BY <1>5, Zenon
<1> HIDE DEF S, f
<1>7. vnis[f.vni] \in Nat \ {0} /\ Cardinality(S \ {p}) = vnis[f.vni] - 1
  BY <1>5, CountDown, Zenon
<1>8. ASSUME NEW q \in Used, q # p, iface[q].vni = f.vni PROVE vnis[f.vni] # 1
  <2>1. Cardinality(S \ {p}) \in Nat \ {0}
    BY <1>6, <1>8, CountDown, Zenon
  <2> QED BY <1>7, <2>1
<1> QED BY <1>1, <1>2, <1>3, <1>4, <1>7, <1>8, Zenon DEF f

(* Requests that leave interfaces, VNIs and routes alone. *)
LEMMA RoutesAlone ==
  ASSUME RtInv, UNCHANGED <<iface, vnis, routes>>
  PROVE  RtKept
<1>1. Used' = Used
  BY Zenon DEF Used
<1>2. RtInv'
  BY <1>1, Zenon DEF RtInv, RoutesNeedVni, HostRoutes, HasAddress
<1>3. OwnKept
  BY <1>1, Zenon DEF OwnKept, Used
<1> QED BY <1>2, <1>3, Zenon DEF RtKept

(* A request that changes at most one route, of a VNI with interfaces, and *)
(* no host route of an interface.                                          *)
LEMMA OneRoute ==
  ASSUME IInv, RtInv, UNCHANGED <<iface, vnis>>, NEW v \in Vni, NEW k \in RouteKey, routes' \in RouteTables,
         \A w \in Vni, l \in RouteKey : w # v \/ l # k => routes'[w][l] = routes[w][l],
         \/ routes'[v][k] = routes[v][k]
         \/ vnis[v] # 0 /\ (k \in Prefix \/ (routes[v][k] \notin Port /\ routes'[v][k] \notin Port))
  PROVE  RtInv' /\ OwnKept
<1>1. Used' = Used /\ iface' = iface /\ vnis' = vnis
  BY Zenon DEF Used
<1>2. \A w \in Vni : vnis[w] = 0 => \A l \in RouteKey : routes'[w][l] = NONE
  BY NoRoutesAt DEF RtInv, RoutesNeedVni
<1>3. RoutesNeedVni'
  BY <1>1, <1>2, NoRoutesAt, Zenon DEF RoutesNeedVni
<1>4. HostRoutes'
  BY <1>1 DEF RtInv, HostRoutes, HasAddress
<1>5. ASSUME NEW p \in Used, Routed(iface[p], p, routes) PROVE Routed(iface[p], p, routes')
  <2>1. p \in Port /\ iface[p].vni \in Vni /\ iface[p].v4 \in RouteKey \ Prefix /\ iface[p].v6 \in RouteKey \ Prefix
    BY InVni, Zenon
  <2>2. \A l \in RouteKey \ Prefix : routes[iface[p].vni][l] = p => routes'[iface[p].vni][l] = p
    BY <2>1, ZenonT(40)
  <2> QED BY <1>5, <2>1, <2>2, Zenon DEF Routed
<1> QED BY <1>1, <1>3, <1>4, <1>5, Zenon DEF RtInv, OwnKept

LEMMA RouteRequests ==
  ASSUME IInv, RtInv, NEW v \in Vni, NEW k \in RouteKey, CreateRoute(v, k) \/ DeleteRoute(v, k)
  PROVE  RtKept
<1>0. routes \in RouteTables /\ PF \in NextHop /\ PF \notin Port /\ NONE \notin Port /\ PF # NONE /\ vnis[v] \in Nat
  BY IfaceAssumption, IfaceNoneAssumption, Zenon DEF RtInv, NextHop, IInv, Types
<1>1. UNCHANGED <<iface, vnis>>
  BY Zenon DEF CreateRoute, DeleteRoute
<1>2. CASE routes' = routes
  BY <1>1, <1>2, RoutesAlone, Zenon
<1>3. CASE CreateRoute(v, k) /\ routes' # routes
  <2>1. vnis[v] > 0 /\ routes[v][k] = NONE /\ routes' = AddRoute(routes, PF, v, k) /\ result' = "OK"
    BY <1>3, Zenon DEF CreateRoute, Refused
  <2>2. vnis[v] # 0
    BY <1>0, <2>1
  <2>3. /\ routes' \in RouteTables /\ routes'[v][k] = PF
        /\ \A w \in Vni, l \in RouteKey : w # v \/ l # k => routes'[w][l] = routes[w][l]
    BY <1>0, <2>1, RouteAdded
  <2>4. RtInv' /\ OwnKept
    BY <1>0, <1>1, <2>1, <2>2, <2>3, OneRoute, Zenon
  <2> QED BY <2>1, <2>4, Zenon DEF RtKept
<1>4. CASE DeleteRoute(v, k) /\ routes' # routes
  <2>1. routes' = DelRoute(routes, PF, v, k)
    BY <1>4, Zenon DEF DeleteRoute
  <2>2. routes[v][k] = PF
    BY <1>0, <1>4, <2>1, RouteDeleted
  <2>3. result' = "OK"
    BY <1>4, <2>2, Zenon DEF DeleteRoute
  <2>4. /\ routes' \in RouteTables /\ routes'[v][k] = NONE
        /\ \A w \in Vni, l \in RouteKey : w # v \/ l # k => routes'[w][l] = routes[w][l]
    BY <1>0, <2>1, <2>2, RouteDeleted
  <2>5. vnis[v] # 0
    BY <1>0, <2>2, NoRoutesAt, Zenon DEF RtInv, RoutesNeedVni
  <2>6. RtInv' /\ OwnKept
    BY <1>0, <1>1, <2>2, <2>4, <2>5, OneRoute, Zenon
  <2> QED BY <2>3, <2>6, Zenon DEF RtKept
<1> QED BY <1>2, <1>3, <1>4, Zenon

(* Adding a route and deleting it again. *)
LEMMA AddedAndDeleted ==
  ASSUME NEW r \in RouteTables, NEW h \in NextHop, NEW v \in Vni, NEW k \in RouteKey, r[v][k] = NONE
  PROVE  DelRoute(AddRoute(r, h, v, k), h, v, k) = r
<1> DEFINE s == AddRoute(r, h, v, k)
           t == DelRoute(s, h, v, k)
<1>1. s \in RouteTables /\ s[v][k] = h /\ \A w \in Vni, l \in RouteKey : w # v \/ l # k => s[w][l] = r[w][l]
  BY RouteAdded
<1> HIDE DEF s
<1>2. t \in RouteTables /\ t[v][k] = NONE /\ \A w \in Vni, l \in RouteKey : w # v \/ l # k => t[w][l] = s[w][l]
  BY <1>1, RouteDeleted
<1> HIDE DEF t
<1>3. \A w \in Vni, l \in RouteKey : t[w][l] = r[w][l]
  BY <1>1, <1>2, Zenon
<1> QED BY <1>2, <1>3, SameRoutes, Zenon DEF t, s

LEMMA PrefixRequests ==
  ASSUME IInv, RtInv, NEW i \in Id, NEW k \in Prefix,
         \/ \E u \in Ul : CreatePrefix(i, k, u) \/ CreateLbPrefix(i, k, u)
         \/ DeletePrefix(i, k) \/ DeleteLbPrefix(i, k)
  PROVE  RtKept
<1> DEFINE p == ids[i]
           v == iface[p].vni
<1>0. ids[i] # NONE /\ UNCHANGED <<iface, vnis>>
  BY Zenon DEF CreatePrefix, CreateLbPrefix, DeletePrefix, DeleteLbPrefix
<1>1. p \in Used /\ k \in RouteKey /\ routes \in RouteTables
  BY <1>0, Zenon DEF IInv, IdsMatch, RouteKey, RtInv
<1>2. p \in NextHop /\ v \in Vni /\ vnis[v] # 0
  BY <1>1, InVni, Zenon
<1>3. \/ routes' = routes
      \/ /\ routes[v][k] = NONE
         /\ \/ routes' = DelRoute(AddRoute(routes, p, v, k), p, v, k)
            \/ routes' = AddRoute(routes, p, v, k) /\ result' = "OK"
      \/ routes' = DelRoute(routes, p, v, k) /\ result' \in {"OK", "PARTIAL"}
  BY Zenon DEF CreatePrefix, CreateLbPrefix, DeletePrefix, DeleteLbPrefix
<1> HIDE DEF p, v
<1>4. CASE routes' = routes
  BY <1>0, <1>4, RoutesAlone, Zenon
<1>5. CASE routes[v][k] = NONE /\ routes' = DelRoute(AddRoute(routes, p, v, k), p, v, k)
  BY <1>0, <1>1, <1>2, <1>5, AddedAndDeleted, RoutesAlone, Zenon
<1>6. ASSUME \/ routes' = AddRoute(routes, p, v, k) /\ result' = "OK"
             \/ routes' = DelRoute(routes, p, v, k) /\ result' \in {"OK", "PARTIAL"}
      PROVE  RtKept
  <2>1. routes' \in RouteTables /\ \A w \in Vni, l \in RouteKey : w # v \/ l # k => routes'[w][l] = routes[w][l]
    BY <1>1, <1>2, <1>6, RouteAdded, RouteDeleted
  <2>2. RtInv' /\ OwnKept
    BY <1>0, <1>1, <1>2, <2>1, OneRoute, Zenon
  <2> QED BY <1>6, <2>2, Zenon DEF RtKept
<1> QED BY <1>3, <1>4, <1>5, <1>6, Zenon

(* What dp_delete_iface() takes away. *)
LEMMA OwnDeleted ==
  ASSUME NEW r \in RouteTables, NEW p \in NextHop, NEW v \in Vni, NEW k \in RouteKey, NEW l \in RouteKey
  PROVE  LET own == DelRoute(DelRoute(r, p, v, k), p, v, l) IN
         /\ own \in RouteTables
         /\ \A w \in Vni, m \in RouteKey : own[w][m] = NONE \/ own[w][m] = r[w][m]
         /\ \A w \in Vni, m \in RouteKey : r[w][m] # p => own[w][m] = r[w][m]
         /\ p # NONE => own[v][k] # p /\ own[v][l] # p
<1> DEFINE s == DelRoute(r, p, v, k)
           t == DelRoute(s, p, v, l)
<1>1. /\ s \in RouteTables
      /\ s[v][k] = IF r[v][k] = p THEN NONE ELSE r[v][k]
      /\ \A w \in Vni, m \in RouteKey : w # v \/ m # k => s[w][m] = r[w][m]
  BY RouteDeleted
<1> HIDE DEF s
<1>2. /\ t \in RouteTables
      /\ t[v][l] = IF s[v][l] = p THEN NONE ELSE s[v][l]
      /\ \A w \in Vni, m \in RouteKey : w # v \/ m # l => t[w][m] = s[w][m]
  BY <1>1, RouteDeleted
<1> HIDE DEF t
<1>3. \A w \in Vni, m \in RouteKey : t[w][m] = NONE \/ t[w][m] = r[w][m]
  BY <1>1, <1>2
<1>4. \A w \in Vni, m \in RouteKey : r[w][m] # p => t[w][m] = r[w][m]
  BY <1>1, <1>2
<1>5. p # NONE => t[v][k] # p /\ t[v][l] # p
  BY <1>1, <1>2
<1> QED BY <1>2, <1>3, <1>4, <1>5, Zenon DEF t, s

LEMMA DeleteInterfaceRt ==
  ASSUME IInv, RtInv, NEW i \in Id, DeleteInterface(i)
  PROVE  RtKept
<1> DEFINE p == ids[i]
           f == iface[p]
           own == DelRoute(DelRoute(routes, p, f.vni, f.v4), p, f.vni, f.v6)
<1>1. routes \in RouteTables /\ iface \in [Port -> Iface \cup {NONE}] /\ vnis \in [Vni -> Nat]
  BY Zenon DEF RtInv, IInv, Types
<1>2. p \in Used
  BY Zenon DEF DeleteInterface, IInv, IdsMatch
<1>3. /\ p \in Port /\ p \in NextHop /\ p # NONE /\ f.vni \in Vni
      /\ f.v4 \in RouteKey \ Prefix /\ f.v6 \in RouteKey \ Prefix
      /\ vnis[f.vni] \in Nat \ {0}
      /\ \A q \in Used : q # p /\ iface[q].vni = f.vni => vnis[f.vni] # 1
  BY <1>2, InVni, SMTT(30)
<1>4. /\ own \in RouteTables
      /\ \A w \in Vni, m \in RouteKey : own[w][m] = NONE \/ own[w][m] = routes[w][m]
      /\ \A w \in Vni, m \in RouteKey : routes[w][m] # p => own[w][m] = routes[w][m]
      /\ own[f.vni][f.v4] # p /\ own[f.vni][f.v6] # p
  <2>1. f.v4 \in RouteKey /\ f.v6 \in RouteKey
    BY <1>3, Zenon
  <2> HIDE DEF p, f
  <2> QED BY <1>1, <1>3, <2>1, OwnDeleted, SMTT(30)
<1>5. /\ iface' = [iface EXCEPT ![p] = NONE]
      /\ vnis' = [vnis EXCEPT ![f.vni] = @ - 1]
      /\ routes' = IF vnis[f.vni] = 1 THEN [own EXCEPT ![f.vni] = NoRoutes] ELSE own
      /\ result' # "REFUSED"
  BY Zenon DEF DeleteInterface, DeleteIface, ReleaseVni
<1> HIDE DEF own, f, p
<1>6. NoRoutes \in [RouteKey -> NextHop \cup {NONE}] /\ \A k \in RouteKey : NoRoutes[k] = NONE
  BY <1>1, <1>3, NoRoutesAt, Zenon
<1>7. /\ routes' \in RouteTables
      /\ \A w \in Vni, m \in RouteKey : routes'[w][m] = NONE \/ routes'[w][m] = routes[w][m]
      /\ \A w \in Vni, m \in RouteKey :
           routes[w][m] # p /\ (w # f.vni \/ vnis[f.vni] # 1) => routes'[w][m] = routes[w][m]
      /\ routes'[f.vni][f.v4] # p /\ routes'[f.vni][f.v6] # p
      /\ vnis[f.vni] = 1 => routes'[f.vni] = NoRoutes
  <2>1. CASE vnis[f.vni] = 1
    <3>1. routes' = [own EXCEPT ![f.vni] = NoRoutes]
      BY <1>5, <2>1, Zenon
    <3>2. routes' \in RouteTables /\ routes'[f.vni] = NoRoutes /\ \A w \in Vni : w # f.vni => routes'[w] = own[w]
      BY <1>3, <1>4, <1>6, <3>1, Zenon DEF RouteTables
    <3> QED BY <1>3, <1>4, <1>6, <2>1, <3>2
  <2>2. CASE vnis[f.vni] # 1
    BY <1>4, <1>5, <2>2, Zenon
  <2> QED BY <2>1, <2>2, Zenon
<1>8. /\ Used' = Used \ {p}
      /\ \A q \in Used : q # p => iface'[q] = iface[q]
  BY <1>1, <1>3, <1>5, Zenon DEF Used
<1>9. ASSUME NEW w \in Vni, NEW m \in RouteKey \ Prefix, NEW q \in Used, q # p, iface[q].vni = w, routes[w][m] = q
      PROVE  routes'[w][m] = q
  BY <1>3, <1>7, <1>9, Zenon
<1>10. HostRoutes'
  <2> SUFFICES ASSUME NEW w \in Vni, NEW m \in RouteKey \ Prefix, routes'[w][m] \in Port
               PROVE  /\ routes'[w][m] \in Used' /\ iface'[routes'[w][m]].vni = w
                      /\ m \in {iface'[routes'[w][m]].v4, iface'[routes'[w][m]].v6}
    BY Zenon DEF HostRoutes, HasAddress
  <2>1. routes'[w][m] = routes[w][m]
    BY <1>7, IfaceNoneAssumption, Zenon DEF NextHop
  <2>2. HasAddress(routes[w][m], w, m)
    BY <2>1, Zenon DEF RtInv, HostRoutes
  <2>3. routes[w][m] # p
    BY <1>7, <2>1, <2>2, Zenon DEF HasAddress, f
  <2> QED BY <1>8, <2>1, <2>2, <2>3, Zenon DEF HasAddress
<1>11. RoutesNeedVni'
  <2> SUFFICES ASSUME NEW w \in Vni, vnis'[w] = 0 PROVE routes'[w] = NoRoutes
    BY Zenon DEF RoutesNeedVni
  <2>1. CASE w = f.vni
    <3>1. vnis[f.vni] = 1
      BY <1>1, <1>3, <1>5, <2>1
    <3> QED BY <1>7, <2>1, <3>1, Zenon
  <2>2. CASE w # f.vni
    <3>1. vnis[w] = 0
      BY <1>1, <1>5, <2>2, Zenon
    <3>2. routes[w] = NoRoutes
      BY <3>1, Zenon DEF RtInv, RoutesNeedVni
    <3>3. \A k \in RouteKey : routes'[w][k] = NONE
      BY <1>6, <1>7, <3>2, Zenon
    <3> QED BY <1>7, <3>3, NoRoutesAt
  <2> QED BY <2>1, <2>2, Zenon
<1>12. OwnKept
  <2> SUFFICES ASSUME NEW q \in Used', Routed(iface[q], q, routes) PROVE Routed(iface'[q], q, routes')
    BY <1>8, Zenon DEF OwnKept
  <2>1. q \in Used /\ q # p /\ iface'[q] = iface[q]
    BY <1>8, Zenon
  <2>2. iface[q].vni \in Vni /\ iface[q].v4 \in RouteKey \ Prefix /\ iface[q].v6 \in RouteKey \ Prefix
    BY <2>1, InVni, Zenon
  <2> QED BY <1>9, <2>1, <2>2, Zenon DEF Routed
<1> QED BY <1>5, <1>7, <1>10, <1>11, <1>12, Zenon DEF RtKept, RtInv

(* The labels of dp_process_create_interface() put the routes back. *)
LEMMA CreateInterfaceFailsRt ==
  ASSUME IInv, RtInv, NEW p \in Port, NEW f \in Iface, ~allocated[p],
         CreateInterfaceFails(p, f, VnfOf("iface", p, f.vni, NONE))
  PROVE  RtKept
<1> DEFINE n    == RefVni(f.vni)
           has4 == IF f.v4 = Zero4 THEN routes ELSE AddRoute(routes, p, f.vni, f.v4)
           has6 == IF f.v6 = Zero6 THEN has4 ELSE AddRoute(has4, p, f.vni, f.v6)
           undone4(r) == DelRoute(r, p, f.vni, f.v4)
           undone6(r) == undone4(DelRoute(r, p, f.vni, f.v6))
<1>1. /\ f.vni \in Vni /\ f.ul \in Ul /\ f.id \in Id
      /\ f.v4 \in Addr4 \cup {Zero4} /\ f.v6 \in Addr6 \cup {Zero6}
      /\ routes \in RouteTables /\ vnis \in [Vni -> Nat]
  BY Zenon DEF Iface, RtInv, IInv, Types
<1>2. p \notin Used /\ p \in NextHop /\ p # NONE
  BY <1>1, FreshIface, IfaceNoneAssumption, Zenon DEF NextHop
<1>3. f.v4 \in RouteKey \ Prefix /\ f.v6 \in RouteKey \ Prefix /\ f.v4 # f.v6
  BY <1>1, IfaceAssumption, Zenon DEF RouteKey
<1>4. \A k \in RouteKey \ Prefix : routes[f.vni][k] # p
  BY <1>1, <1>2 DEF RtInv, HostRoutes, HasAddress
<1>5. f.v4 \in RouteKey /\ f.v6 \in RouteKey /\ routes[f.vni][f.v4] # p /\ routes[f.vni][f.v6] # p
  BY <1>3, <1>4, Zenon
<1>6. undone4(routes) = routes /\ DelRoute(routes, p, f.vni, f.v6) = routes
  BY <1>1, <1>2, <1>5, RouteDeleted
<1>7. DeleteIface(n, routes, p, f) => routes' = routes
  <2> SUFFICES ASSUME DeleteIface(n, routes, p, f) PROVE routes' = routes
    OBVIOUS
  <2>1. routes' = IF n[f.vni] = 1 THEN [routes EXCEPT ![f.vni] = NoRoutes] ELSE routes
    BY <1>6, Zenon DEF DeleteIface
  <2>2. ASSUME n[f.vni] = 1 PROVE [routes EXCEPT ![f.vni] = NoRoutes] = routes
    <3>1. vnis[f.vni] = 0
      BY <1>1, <2>2 DEF RefVni
    <3>2. routes[f.vni] = NoRoutes
      BY <1>1, <3>1, Zenon DEF RtInv, RoutesNeedVni
    <3> QED BY <1>1, <3>2, Zenon DEF RouteTables
  <2> QED BY <2>1, <2>2, Zenon
<1>8. ASSUME f.v4 # Zero4 => routes[f.vni][f.v4] = NONE
      PROVE  /\ undone4(has4) = routes /\ has4 \in RouteTables
             /\ has4[f.vni][f.v6] = routes[f.vni][f.v6]
  <2>1. CASE f.v4 = Zero4
    BY <1>1, <1>6, <2>1, Zenon
  <2>2. CASE f.v4 # Zero4
    <3>1. has4 = AddRoute(routes, p, f.vni, f.v4) /\ routes[f.vni][f.v4] = NONE
      BY <1>8, <2>2, Zenon
    <3>2. DelRoute(AddRoute(routes, p, f.vni, f.v4), p, f.vni, f.v4) = routes
      BY <1>1, <1>2, <1>5, <3>1, AddedAndDeleted, SMTT(30)
    <3>3. /\ AddRoute(routes, p, f.vni, f.v4) \in RouteTables
          /\ AddRoute(routes, p, f.vni, f.v4)[f.vni][f.v6] = routes[f.vni][f.v6]
      BY <1>1, <1>2, <1>3, <1>5, RouteAdded
    <3> QED BY <3>1, <3>2, <3>3, Zenon
  <2> QED BY <2>1, <2>2, Zenon
<1>9. ASSUME f.v4 # Zero4 => routes[f.vni][f.v4] = NONE, f.v6 # Zero6 => routes[f.vni][f.v6] = NONE
      PROVE  undone6(has6) = routes
  <2>1. undone4(has4) = routes /\ has4 \in RouteTables /\ has4[f.vni][f.v6] = routes[f.vni][f.v6]
    BY <1>8, <1>9, Zenon
  <2>2. DelRoute(has6, p, f.vni, f.v6) = has4
    <3>1. CASE f.v6 = Zero6
      <4>1. has6 = has4 /\ has4[f.vni][f.v6] # p
        BY <1>5, <2>1, <3>1, Zenon
      <4> HIDE DEF has4, has6
      <4> QED BY <1>1, <1>2, <1>5, <2>1, <4>1, RouteDeleted
    <3>2. CASE f.v6 # Zero6
      <4>1. has6 = AddRoute(has4, p, f.vni, f.v6) /\ has4[f.vni][f.v6] = NONE
        BY <1>9, <2>1, <3>2, Zenon
      <4> HIDE DEF has4, has6
      <4> QED BY <1>1, <1>2, <1>5, <2>1, <4>1, AddedAndDeleted
    <3> QED BY <3>1, <3>2, Zenon
  <2> QED BY <2>1, <2>2, Zenon
<1>10. \/ routes' = routes
       \/ DeleteIface(n, routes, p, f)
       \/ /\ f.v4 # Zero4 => routes[f.vni][f.v4] = NONE
          /\ \/ DeleteIface(n, undone4(has4), p, f)
             \/ /\ f.v6 # Zero6 => routes[f.vni][f.v6] = NONE
                /\ DeleteIface(n, undone6(has6), p, f)
  BY Zenon DEF CreateInterfaceFails
<1> HIDE DEF n, has4, has6, undone4, undone6
<1>11. routes' = routes
  BY <1>7, <1>8, <1>9, <1>10, Zenon
<1>12. iface' = iface /\ vnis' = vnis
  BY CreateInterfaceFailsUndone, Zenon DEF AllButResult
<1> QED BY <1>11, <1>12, RoutesAlone, Zenon

LEMMA CreateInterfaceSucceedsRt ==
  ASSUME IInv, RtInv, NEW p \in Port, NEW f \in Iface, ~allocated[p],
         CreateInterfaceSucceeds(p, f, VnfOf("iface", p, f.vni, NONE))
  PROVE  RtKept
<1> DEFINE K == {f.v4, f.v6} \ {Zero4, Zero6}
<1>1. /\ f.vni \in Vni /\ f # NONE
      /\ f.v4 \in Addr4 \cup {Zero4} /\ f.v6 \in Addr6 \cup {Zero6}
      /\ routes \in RouteTables /\ vnis \in [Vni -> Nat] /\ iface \in [Port -> Iface \cup {NONE}]
  BY IfaceNoneAssumption, Zenon DEF Iface, RtInv, IInv, Types
<1>2. p \notin Used /\ p \in NextHop
  BY <1>1, FreshIface, Zenon DEF NextHop
<1>3. /\ f.v4 \in RouteKey \ Prefix /\ f.v6 \in RouteKey \ Prefix /\ f.v4 # Zero6 /\ f.v6 # Zero4
  BY <1>1, IfaceAssumption, Zenon DEF RouteKey
<1>4. /\ iface' = [iface EXCEPT ![p] = f]
      /\ vnis' = [vnis EXCEPT ![f.vni] = @ + 1]
      /\ \A k \in K : routes[f.vni][k] = NONE
      /\ routes' = [routes EXCEPT ![f.vni] = [k \in RouteKey |-> IF k \in K THEN p ELSE @[k]]]
      /\ result' = "OK"
  BY Zenon DEF CreateInterfaceSucceeds, RefVni
<1>5. f.v4 # Zero4 => f.v4 \in K
  BY <1>3, Zenon
<1>6. f.v6 # Zero6 => f.v6 \in K
  BY <1>3, Zenon
<1>7. \A k \in K : k \in {f.v4, f.v6} /\ k \in RouteKey
  BY <1>3, Zenon
<1> HIDE DEF K
<1>8. /\ routes' \in RouteTables
      /\ \A k \in RouteKey : routes'[f.vni][k] = IF k \in K THEN p ELSE routes[f.vni][k]
      /\ \A w \in Vni : w # f.vni => routes'[w] = routes[w]
  <2>1. routes[f.vni] \in [RouteKey -> NextHop \cup {NONE}]
    BY <1>1, Zenon DEF RouteTables
  <2>2. [k \in RouteKey |-> IF k \in K THEN p ELSE routes[f.vni][k]] \in [RouteKey -> NextHop \cup {NONE}]
    BY <1>2, <2>1, Zenon
  <2> QED BY <1>1, <1>4, <2>2, Zenon DEF RouteTables
<1>9. \A w \in Vni, k \in RouteKey : routes[w][k] # NONE => routes'[w][k] = routes[w][k]
  BY <1>4, <1>8, Zenon
<1>10. \A w \in Vni, k \in RouteKey : routes'[w][k] = routes[w][k] \/ (w = f.vni /\ k \in K /\ routes'[w][k] = p)
  BY <1>8, Zenon
<1>11. /\ Used' = Used \cup {p} /\ iface'[p] = f
       /\ \A q \in Used : q # p /\ iface'[q] = iface[q]
  BY <1>1, <1>2, <1>4, Zenon DEF Used
<1>12. RoutesNeedVni'
  <2> SUFFICES ASSUME NEW w \in Vni, vnis'[w] = 0 PROVE routes'[w] = NoRoutes
    BY Zenon DEF RoutesNeedVni
  <2>1. w # f.vni /\ vnis[w] = 0
    BY <1>1, <1>4
  <2> QED BY <1>8, <2>1, Zenon DEF RtInv, RoutesNeedVni
<1>13. HostRoutes'
  <2> SUFFICES ASSUME NEW w \in Vni, NEW m \in RouteKey \ Prefix, routes'[w][m] \in Port
               PROVE  /\ routes'[w][m] \in Used' /\ iface'[routes'[w][m]].vni = w
                      /\ m \in {iface'[routes'[w][m]].v4, iface'[routes'[w][m]].v6}
    BY Zenon DEF HostRoutes, HasAddress
  <2>1. CASE routes'[w][m] = routes[w][m]
    <3>1. HasAddress(routes[w][m], w, m)
      BY <2>1, Zenon DEF RtInv, HostRoutes
    <3> QED BY <1>11, <2>1, <3>1, Zenon DEF HasAddress
  <2>2. CASE w = f.vni /\ m \in K /\ routes'[w][m] = p
    BY <1>7, <1>11, <2>2, Zenon
  <2> QED BY <1>10, <2>1, <2>2, Zenon
<1>14. OwnKept
  <2> SUFFICES ASSUME NEW q \in Used', q \notin Used \/ Routed(iface[q], q, routes) PROVE Routed(iface'[q], q, routes')
    BY Zenon DEF OwnKept
  <2>1. CASE q = p
    BY <1>3, <1>5, <1>6, <1>8, <1>11, <2>1, Zenon DEF Routed
  <2>2. CASE q # p
    <3>1. q \in Used /\ iface'[q] = iface[q] /\ Routed(iface[q], q, routes)
      BY <1>11, <2>2, Zenon
    <3>2. q # NONE /\ iface[q].vni \in Vni /\ iface[q].v4 \in RouteKey /\ iface[q].v6 \in RouteKey
      BY <3>1, InVni, Zenon
    <3> QED BY <1>9, <3>1, <3>2, Zenon DEF Routed
  <2> QED BY <2>1, <2>2, Zenon
<1> QED BY <1>4, <1>8, <1>12, <1>13, <1>14, Zenon DEF RtKept, RtInv

(* The routes a reset puts back, port by port. *)
LEMMA LeastNumber ==
  ASSUME NEW T, T \subseteq Nat, T # {}
  PROVE  \E x \in T : \A y \in T : x <= y
<1> DEFINE R == OpToRel(<, Nat)
<1>1. \E x \in T : \A y \in T : <<y, x>> \notin R
  BY NatLessThanWellFounded, WFMin, Zenon
<1>2. \A x, y \in Nat : <<y, x>> \notin R => x <= y
  BY DEF OpToRel
<1> HIDE DEF R
<1> QED BY <1>1, <1>2, Zenon

FillStart(r) == [routes |-> r, ok |-> TRUE]

Filling(r, V) ==
  CHOOSE fill : fill = [p \in 0 .. N |-> IF p = 0 THEN FillStart(r) ELSE FillPort(fill[p - 1], p, V)]

LEMMA FillingUnfold ==
  ASSUME NEW r, NEW V
  PROVE  /\ Filling(r, V)[0] = FillStart(r)
         /\ \A p \in Port : Filling(r, V)[p] = FillPort(Filling(r, V)[p - 1], p, V)
<1> DEFINE Begins(g, n) == g = [p \in 0 .. n |-> IF p = 0 THEN FillStart(r) ELSE FillPort(g[p - 1], p, V)]
           Bad == {n \in Nat : ~ \E g : Begins(g, n)}
<1>0. N \in Nat
  BY IfaceAssumption
<1>1. Bad = {}
  <2> SUFFICES ASSUME Bad # {} PROVE FALSE
    OBVIOUS
  <2>1. PICK n \in Bad : \A m \in Bad : n <= m
    BY LeastNumber, Zenon
  <2>2. CASE n = 0
    <3> DEFINE g == [m \in 0 .. 0 |-> FillStart(r)]
    <3>1. Begins(g, 0)
      OBVIOUS
    <3> QED BY <2>2, <3>1, Zenon
  <2>3. CASE n # 0
    <3>0. n \in Nat /\ n - 1 \in Nat /\ ~(n <= n - 1)
      <4>1. n \in Nat
        OBVIOUS
      <4> QED BY <4>1, <2>3
    <3>1. n \in Nat /\ n - 1 \in Nat /\ n - 1 \notin Bad
      <4> HIDE DEF Bad
      <4> QED BY <2>1, <3>0, Zenon
    <3>2. PICK f : Begins(f, n - 1)
      BY <3>1, Zenon
    <3> DEFINE g == [m \in 0 .. n |-> IF m = n THEN FillPort(f[n - 1], n, V) ELSE f[m]]
    <3>3. \A m \in 0 .. n - 1 : g[m] = f[m]
      BY <3>1
    <3>4. \A m \in 0 .. n - 1 : f[m] = IF m = 0 THEN FillStart(r) ELSE FillPort(f[m - 1], m, V)
      BY <3>2, Zenon
    <3>5. g[n] = FillPort(g[n - 1], n, V)
      BY <3>1, <3>3
    <3> HIDE DEF g
    <3>6. \A m \in 0 .. n : g[m] = IF m = 0 THEN FillStart(r) ELSE FillPort(g[m - 1], m, V)
      <4> SUFFICES ASSUME NEW m \in 0 .. n PROVE g[m] = IF m = 0 THEN FillStart(r) ELSE FillPort(g[m - 1], m, V)
        OBVIOUS
      <4>1. CASE m = n
        BY <4>1, <3>5, <2>3, Zenon
      <4>2. CASE m # n
        <5>1. m \in 0 .. n - 1 /\ (m # 0 => m - 1 \in 0 .. n - 1)
          BY <4>2, <3>1
        <5> QED BY <5>1, <3>3, <3>4, Zenon
      <4> QED BY <4>1, <4>2, Zenon
    <3>7. Begins(g, n)
      BY <3>6, Zenon DEF g
    <3> QED BY <3>7, <2>1, Zenon
  <2> QED BY <2>2, <2>3, Zenon
<1>2. \E g : Begins(g, N)
  BY <1>0, <1>1, Zenon
<1>3. Filling(r, V) = [p \in 0 .. N |-> IF p = 0 THEN FillStart(r) ELSE FillPort(Filling(r, V)[p - 1], p, V)]
  BY <1>2, Zenon DEF Filling
<1>4. 0 \in 0 .. N /\ \A p \in Port : p \in 0 .. N /\ p # 0
  BY <1>0 DEF Port
<1> HIDE DEF Begins
<1> QED BY <1>3, <1>4, Zenon

LEMMA FillIsFilling ==
  ASSUME NEW r, NEW V
  PROVE  Fill(r, V) = Filling(r, V)[N]
  BY Zenon DEF Fill, Filling, FillStart

(* The tables once the ports up to n had their turn: outside V nothing     *)
(* changed, inside there are own addresses only, and if no port failed,    *)
(* those of every port so far.                                             *)
Filled(a, n, V) ==
  /\ a.routes \in RouteTables
  /\ \A v \in Vni, k \in RouteKey : v \notin V => a.routes[v][k] = routes[v][k]
  /\ \A v \in Vni, k \in RouteKey : v \in V /\ a.routes[v][k] # NONE => HasAddress(a.routes[v][k], v, k)
  /\ a.ok => \A p \in Used : p <= n /\ iface[p].vni \in V =>
               a.routes[iface[p].vni][iface[p].v4] = p /\ a.routes[iface[p].vni][iface[p].v6] = p

LEMMA FillPortFilled ==
  ASSUME IInv, NEW V, NEW n \in Port, NEW a, Filled(a, n - 1, V)
  PROVE  Filled(FillPort(a, n, V), n, V)
<1> DEFINE b  == FillPort(a, n, V)
           f  == iface[n]
           r4 == AddRoute(a.routes, n, f.vni, f.v4)
           r6 == AddRoute(r4, n, f.vni, f.v6)
<1>1. \A p \in Used : p <= n => p <= n - 1 \/ p = n
  <2>1. \A p \in Used : p \in Int
    BY IfaceAssumption DEF Used, Port
  <2> QED BY <2>1, IfaceAssumption DEF Port
<1>2. CASE ~a.ok \/ f = NONE \/ f.vni \notin V
  <2>1. FillPort(a, n, V) = a
    BY <1>2, Zenon DEF FillPort
  <2>2. a.ok => n \notin Used \/ iface[n].vni \notin V
    BY <1>2, Zenon DEF Used
  <2> QED BY <1>1, <2>1, <2>2, Zenon DEF Filled
<1>3. CASE a.ok /\ f # NONE /\ f.vni \in V
  <2>1. n \in Used
    BY <1>3, Zenon DEF Used
  <2>2. n \in NextHop /\ f.vni \in Vni /\ f.v4 \in RouteKey /\ f.v6 \in RouteKey
    BY <2>1, InVni, Zenon
  <2>3. a.routes \in RouteTables
    BY Zenon DEF Filled
  <2>4. HasAddress(n, f.vni, f.v4) /\ HasAddress(n, f.vni, f.v6)
    BY <2>1, Zenon DEF HasAddress
  <2>5. /\ r4 \in RouteTables /\ r4[f.vni][f.v4] = n
        /\ \A w \in Vni, l \in RouteKey : w # f.vni \/ l # f.v4 => r4[w][l] = a.routes[w][l]
    <3> HIDE DEF f
    <3> QED BY <2>2, <2>3, RouteAdded
  <2>6. /\ r6 \in RouteTables /\ r6[f.vni][f.v6] = n
        /\ \A w \in Vni, l \in RouteKey : w # f.vni \/ l # f.v6 => r6[w][l] = r4[w][l]
    <3> HIDE DEF f, r4
    <3> QED BY <2>2, <2>5, RouteAdded
  <2>7. FillPort(a, n, V) = IF a.routes[f.vni][f.v4] # NONE THEN [routes |-> a.routes, ok |-> FALSE]
                            ELSE IF r4[f.vni][f.v6] # NONE THEN [routes |-> r4, ok |-> FALSE]
                            ELSE [routes |-> r6, ok |-> TRUE]
    BY <1>3, Zenon DEF FillPort
  <2> HIDE DEF r4, r6
  <2>8. /\ \A v \in Vni, k \in RouteKey : v \notin V => r4[v][k] = routes[v][k]
        /\ \A v \in Vni, k \in RouteKey : v \in V /\ r4[v][k] # NONE => HasAddress(r4[v][k], v, k)
    <3> HIDE DEF f
    <3>1. \A v \in Vni, k \in RouteKey : r4[v][k] = a.routes[v][k] \/ (v = f.vni /\ k = f.v4 /\ r4[v][k] = n)
      BY <2>5, Zenon
    <3> QED BY <1>3, <2>4, <3>1 DEF Filled
  <2>9. /\ \A v \in Vni, k \in RouteKey : v \notin V => r6[v][k] = routes[v][k]
        /\ \A v \in Vni, k \in RouteKey : v \in V /\ r6[v][k] # NONE => HasAddress(r6[v][k], v, k)
    <3> HIDE DEF f
    <3>1. \A v \in Vni, k \in RouteKey : r6[v][k] = r4[v][k] \/ (v = f.vni /\ k = f.v6 /\ r6[v][k] = n)
      BY <2>6, Zenon
    <3> QED BY <1>3, <2>4, <2>8, <3>1
  <2>10. CASE a.routes[f.vni][f.v4] # NONE
    <3>1. b.routes = a.routes /\ b.ok = FALSE
      BY <2>7, <2>10
    <3> HIDE DEF b
    <3>2. Filled(b, n, V)
      BY <3>1, Zenon DEF Filled
    <3> QED BY <3>2, Zenon DEF b
  <2>11. CASE a.routes[f.vni][f.v4] = NONE /\ r4[f.vni][f.v6] # NONE
    <3>1. b.routes = r4 /\ b.ok = FALSE
      BY <2>7, <2>11
    <3> HIDE DEF b
    <3>2. Filled(b, n, V)
      BY <2>5, <2>8, <3>1, Zenon DEF Filled
    <3> QED BY <3>2, Zenon DEF b
  <2>12. CASE a.routes[f.vni][f.v4] = NONE /\ r4[f.vni][f.v6] = NONE
    <3>1. \A w \in Vni, l \in RouteKey : a.routes[w][l] # NONE => r6[w][l] = a.routes[w][l]
      <4> HIDE DEF f
      <4> QED BY <2>5, <2>6, <2>12
    <3>2. r6[f.vni][f.v4] = n /\ r6[f.vni][f.v6] = n
      <4> HIDE DEF f
      <4> QED BY <2>2, <2>5, <2>6
    <3>3. ASSUME NEW p \in Used, p <= n, iface[p].vni \in V
          PROVE  r6[iface[p].vni][iface[p].v4] = p /\ r6[iface[p].vni][iface[p].v6] = p
      <4>1. CASE p = n
        BY <3>2, <4>1, Zenon
      <4>2. CASE p <= n - 1
        <5>1. a.routes[iface[p].vni][iface[p].v4] = p /\ a.routes[iface[p].vni][iface[p].v6] = p
          BY <1>3, <3>3, <4>2, Zenon DEF Filled
        <5>2. p # NONE /\ iface[p].vni \in Vni /\ iface[p].v4 \in RouteKey /\ iface[p].v6 \in RouteKey
          BY InVni, Zenon
        <5> QED BY <3>1, <5>1, <5>2, Zenon
      <4> QED BY <1>1, <3>3, <4>1, <4>2, Zenon
    <3>4. b.routes = r6 /\ b.ok = TRUE
      BY <2>7, <2>12
    <3> HIDE DEF b
    <3>5. Filled(b, n, V)
      BY <2>6, <2>9, <3>3, <3>4, Zenon DEF Filled
    <3> QED BY <3>5, Zenon DEF b
  <2> QED BY <2>10, <2>11, <2>12, Zenon
<1> QED BY <1>2, <1>3, Zenon

LEMMA FillFilled ==
  ASSUME IInv, RtInv, NEW V
  PROVE  Filled(Fill(Emptied(V), V), N, V)
<1> DEFINE g == Filling(Emptied(V), V)
           Bad == {n \in Nat : n <= N /\ ~Filled(g[n], n, V)}
<1>0. N \in Nat
  BY IfaceAssumption
<1>1. g[0] = FillStart(Emptied(V)) /\ \A p \in Port : g[p] = FillPort(g[p - 1], p, V)
  BY FillingUnfold, Zenon
<1> HIDE DEF g
<1>2. Filled(g[0], 0, V)
  <2>1. g[0].routes = Emptied(V) /\ g[0].ok = TRUE
    BY <1>1 DEF FillStart
  <2>2. routes \in RouteTables
    BY Zenon DEF RtInv
  <2>3. NoRoutes \in [RouteKey -> NextHop \cup {NONE}] /\ \A k \in RouteKey : NoRoutes[k] = NONE
    BY Zenon DEF NoRoutes
  <2>4. /\ Emptied(V) \in RouteTables
        /\ \A v \in Vni : Emptied(V)[v] = IF v \in V THEN NoRoutes ELSE routes[v]
    BY <2>2, <2>3, Zenon DEF Emptied, RouteTables
  <2>5. \A p \in Used : ~(p <= 0)
    BY <1>0 DEF Used, Port
  <2> QED BY <2>1, <2>3, <2>4, <2>5, Zenon DEF Filled
<1>3. Bad = {}
  <2> SUFFICES ASSUME Bad # {} PROVE FALSE
    OBVIOUS
  <2>1. PICK n \in Bad : \A m \in Bad : n <= m
    BY LeastNumber, Zenon
  <2>2. n \in Nat /\ n <= N /\ ~Filled(g[n], n, V)
    OBVIOUS
  <2>3. n # 0
    BY <1>2, <2>2, Zenon
  <2>4. n \in Port /\ n - 1 \in Nat /\ n - 1 <= N /\ ~(n <= n - 1)
    BY <1>0, <2>2, <2>3 DEF Port
  <2>5. n - 1 \notin Bad
    <3> HIDE DEF Bad
    <3> QED BY <2>1, <2>4, Zenon
  <2>6. Filled(g[n - 1], n - 1, V)
    BY <2>4, <2>5, Zenon
  <2>7. Filled(g[n], n, V)
    BY <1>1, <2>4, <2>6, FillPortFilled, Zenon
  <2> QED BY <2>2, <2>7, Zenon
<1>4. N <= N
  BY <1>0
<1>5. Filled(g[N], N, V)
  BY <1>0, <1>3, <1>4, Zenon
<1> QED BY <1>5, FillIsFilling, Zenon DEF g

LEMMA ResetVnisRt ==
  ASSUME IInv, RtInv, NEW V, ResetVnis(V)
  PROVE  RtKept
<1> DEFINE a == Fill(Emptied(V), V)
<1>1. routes' = a.routes /\ iface' = iface /\ vnis' = vnis /\ result' # "REFUSED" /\ (result' = "OK" => a.ok)
  BY Zenon DEF ResetVnis
<1>2. Filled(a, N, V)
  BY FillFilled, Zenon
<1> HIDE DEF a
<1>3. Used' = Used
  BY <1>1, Zenon DEF Used
<1>4. /\ routes' \in RouteTables
      /\ \A v \in Vni, k \in RouteKey : v \notin V => routes'[v][k] = routes[v][k]
      /\ \A v \in Vni, k \in RouteKey : v \in V /\ routes'[v][k] # NONE => HasAddress(routes'[v][k], v, k)
      /\ result' = "OK" =>
           \A p \in Used : p <= N /\ iface[p].vni \in V =>
             routes'[iface[p].vni][iface[p].v4] = p /\ routes'[iface[p].vni][iface[p].v6] = p
  BY <1>1, <1>2, Zenon DEF Filled
<1>5. \A p \in Used : p <= N
  BY IfaceAssumption DEF Used, Port
<1>6. HostRoutes'
  <2> SUFFICES ASSUME NEW w \in Vni, NEW m \in RouteKey \ Prefix, routes'[w][m] \in Port
               PROVE  /\ routes'[w][m] \in Used' /\ iface'[routes'[w][m]].vni = w
                      /\ m \in {iface'[routes'[w][m]].v4, iface'[routes'[w][m]].v6}
    BY Zenon DEF HostRoutes, HasAddress
  <2>1. NONE \notin Port
    BY IfaceNoneAssumption, Zenon DEF NextHop
  <2>2. HasAddress(routes'[w][m], w, m)
    BY <1>4, <2>1, SMTT(30) DEF RtInv, HostRoutes
  <2> QED BY <1>1, <1>3, <2>2, Zenon DEF HasAddress
<1>7. RoutesNeedVni'
  <2> SUFFICES ASSUME NEW w \in Vni, vnis[w] = 0 PROVE routes'[w] = NoRoutes
    BY <1>1, Zenon DEF RoutesNeedVni
  <2>1. \A p \in Used : iface[p].vni # w
    <3> SUFFICES ASSUME NEW p \in Used, iface[p].vni = w PROVE FALSE
      OBVIOUS
    <3>1. vnis[w] \in Nat \ {0}
      BY InVni, Zenon
    <3> QED BY <3>1
  <2>2. routes[w] = NoRoutes
    BY Zenon DEF RtInv, RoutesNeedVni
  <2>3. \A k \in RouteKey : NoRoutes[k] = NONE
    BY Zenon DEF NoRoutes
  <2>4. \A k \in RouteKey : routes'[w][k] = NONE
    BY <1>4, <2>1, <2>2, <2>3, Zenon DEF HasAddress
  <2> QED BY <1>4, <2>4, NoRoutesAt
<1>8. ASSUME result' = "OK" PROVE OwnKept
  <2> SUFFICES ASSUME NEW p \in Used, Routed(iface[p], p, routes) PROVE Routed(iface[p], p, routes')
    BY <1>1, <1>3, Zenon DEF OwnKept
  <2>1. iface[p].vni \in Vni /\ iface[p].v4 \in RouteKey /\ iface[p].v6 \in RouteKey
    BY InVni, Zenon
  <2>2. CASE iface[p].vni \in V
    BY <1>4, <1>5, <1>8, <2>2, Zenon DEF Routed
  <2>3. CASE iface[p].vni \notin V
    BY <1>4, <2>1, <2>3, Zenon DEF Routed
  <2> QED BY <2>2, <2>3, Zenon
<1> QED BY <1>1, <1>4, <1>6, <1>7, <1>8, Zenon DEF RtKept, RtInv

(* Every request. *)
LEMMA NextRt == ASSUME IInv, RtInv, Next PROVE RtKept
<1>1. ASSUME NEW p \in Port, NEW q \in IfaceReq, NEW u \in Ul, CreateInterface(p, q, u) PROVE RtKept
  <2> DEFINE f == [id |-> q.id, vni |-> q.vni, v4 |-> q.v4, v6 |-> q.v6, ul |-> u]
  <2>1. f \in Iface /\ f.vni = q.vni
    BY IfaceAssumption, Zenon DEF Iface
  <2>2. \/ UNCHANGED <<iface, vnis, routes>>
        \/ ~allocated[p] /\ CreateInterfaceFails(p, f, VnfOf("iface", p, q.vni, NONE))
        \/ ~allocated[p] /\ CreateInterfaceSucceeds(p, f, VnfOf("iface", p, q.vni, NONE))
    BY <1>1, Zenon DEF CreateInterface
  <2> HIDE DEF f
  <2> QED BY <2>1, <2>2, RoutesAlone, CreateInterfaceFailsRt, CreateInterfaceSucceedsRt, Zenon
<1>2. ASSUME NEW i \in Id, DeleteInterface(i) \/ UnknownInterface(i) PROVE RtKept
  BY <1>2, DeleteInterfaceRt, RoutesAlone, Zenon DEF UnknownInterface
<1>3. ASSUME NEW i \in Id, NEW k \in Prefix,
             \/ \E u \in Ul : CreatePrefix(i, k, u) \/ CreateLbPrefix(i, k, u)
             \/ DeletePrefix(i, k) \/ DeleteLbPrefix(i, k)
      PROVE  RtKept
  BY <1>3, PrefixRequests, Zenon
<1>4. ASSUME NEW v \in Vni, NEW k \in RouteKey, CreateRoute(v, k) \/ DeleteRoute(v, k) PROVE RtKept
  BY <1>4, RouteRequests, Zenon
<1>5. ASSUME NEW V, ResetVnis(V) PROVE RtKept
  BY <1>5, ResetVnisRt, Zenon
<1> QED
  BY <1>1, <1>2, <1>3, <1>4, <1>5, Zenon DEF Next, RouteKey

LEMMA InitRt == Init => RtInv
<1> SUFFICES ASSUME Init PROVE RtInv
  OBVIOUS
<1>1. NoRoutes \in [RouteKey -> NextHop \cup {NONE}] /\ \A k \in RouteKey : NoRoutes[k] = NONE
  BY Zenon DEF NoRoutes
<1>2. \A v \in Vni : routes[v] = NoRoutes
  BY Zenon DEF Init
<1>3. routes \in RouteTables
  BY <1>1, Zenon DEF Init, RouteTables
<1>4. HostRoutes
  BY <1>1, <1>2, IfaceNoneAssumption, Zenon DEF HostRoutes, NextHop
<1> QED BY <1>2, <1>3, <1>4, Zenon DEF RtInv, RoutesNeedVni

LEMMA RtInvariance == Spec => [](IInv /\ RtInv)
<1>1. IInv /\ RtInv /\ [Next]_vars => (IInv /\ RtInv)'
  <2>1. IInv /\ RtInv /\ UNCHANGED vars => (IInv /\ RtInv)'
    BY StutterIInv, RoutesAlone, Zenon DEF vars, AllButResult, RtKept
  <2> QED BY <2>1, NextKept, NextRt, Zenon DEF Kept, RtKept
<1> QED BY InitIInv, InitRt, <1>1, PTL DEF Spec

(* A VNI that no interface references has no routes (dp_vni.c): what comes *)
(* back with its first interface starts empty.                             *)
THEOREM RoutesNeedVniAlways == Spec => []RoutesNeedVni
<1>1. RtInv => RoutesNeedVni
  BY Zenon DEF RtInv
<1> QED BY RtInvariance, <1>1, PTL

(* The clean-up of a refused request leaves the routes as they were        *)
(* (the labels of dp_grpc_impl.c).                                         *)
THEOREM RefusedRequestsKeepRoutes == Spec => RefusedKeepsRoutes
<1>1. IInv /\ RtInv /\ [Next]_vars => [result' = "REFUSED" => UNCHANGED routes]_vars
  BY NextRt, Zenon DEF RtKept
<1> QED BY RtInvariance, <1>1, PTL DEF Spec, RefusedKeepsRoutes

(* An interface gets the routes of its addresses and keeps them through    *)
(* every request that succeeds, resets included (dp_lpm.c).                *)
THEOREM OwnRoutesStay == Spec => OwnRoutesKept
<1>1. IInv /\ RtInv /\ [Next]_vars =>
        [result' = "OK" =>
           \A p \in Used' :
             p \notin Used \/ Routed(iface[p], p, routes) => Routed(iface'[p], p, routes')]_vars
  BY NextRt, Zenon DEF RtKept, OwnKept
<1> QED BY RtInvariance, <1>1, PTL DEF Spec, OwnRoutesKept

-----------------------------------------------------------------------------
(* The rate limits in force, for every set of ports and of rates.          *)

(* A representable public rate is never refused, and its meter is the rate *)
(* in whole steps of 8 Mbit/s.                                             *)
LEMMA CirOfRepresentable ==
  ASSUME NEW u \in Nat, Representable(u)
  PROVE  /\ cir(u) \in Nat
         /\ ~PublicRefused(u)
         /\ cir(u) * 8 <= u
         /\ u < cir(u) * 8 + 8
<1>1. CASE u = 0
  BY <1>1 DEF cir, PublicRefused
<1>2. CASE 8 <= u /\ u < 32768
  <2>1. u \div 8 \in Nat /\ 1 <= u \div 8 /\ u \div 8 < 4096
    BY <1>2
  <2>2. cir(u) = u \div 8
    BY <2>1 DEF cir
  <2>3. (u \div 8) * 8 <= u /\ u < (u \div 8) * 8 + 8
    BY <1>2
  <2>. QED BY <2>1, <2>2, <2>3 DEF PublicRefused
<1>. QED BY <1>1, <1>2 DEF Representable

(* The meter configured for a public rate is a number. *)
LEMMA CirType == ASSUME NEW u \in Nat PROVE cir(u) \in Nat
  BY DEF cir

(* What dp_port_meter_config() may return, case by case. *)
LEMMA MeterOutcomes ==
  ASSUME NEW l \in Limits, NEW t \in Nat, NEW u \in Nat, NEW o \in meter_config(l, t, u)
  PROVE  /\ o.lim \in Limits
         /\ o.ok => o.lim.nic = o.lim.total
         /\ o.ok /\ ~PublicRefused(u) =>
              o.lim = Lim(t, cir(u), t, u)
         /\ o.ok /\ PublicRefused(u) =>
              o.lim = Lim(0, l.meter, 0, l.public)
<1>1. cir(u) \in Nat
  BY CirType, Zenon
<1>2. \/ o = [ok |-> FALSE, lim |-> l]
      \/ PublicRefused(u) /\ o = [ok |-> TRUE, lim |-> Lim(0, l.meter, 0, l.public)]
      \/ PublicRefused(u) /\ o = [ok |-> FALSE, lim |-> Lim(t, l.meter, t, l.public)]
      \/ ~PublicRefused(u) /\ o = [ok |-> TRUE, lim |-> Lim(t, cir(u), t, u)]
  BY Zenon DEF meter_config
<1>3. /\ Lim(0, l.meter, 0, l.public) \in Limits
      /\ Lim(t, l.meter, t, l.public) \in Limits
      /\ Lim(t, cir(u), t, u) \in Limits
  BY <1>1, Zenon DEF Limits, Lim
<1>4. \A n, m, v : Lim(n, m, n, v).nic = Lim(n, m, n, v).total
  BY Zenon DEF Lim
<1>5. CASE o = [ok |-> FALSE, lim |-> l]
  BY <1>5, Zenon
<1>6. CASE PublicRefused(u) /\ o = [ok |-> TRUE, lim |-> Lim(0, l.meter, 0, l.public)]
  BY <1>3, <1>4, <1>6
<1>7. CASE PublicRefused(u) /\ o = [ok |-> FALSE, lim |-> Lim(t, l.meter, t, l.public)]
  BY <1>3, <1>7, Zenon
<1>8. CASE ~PublicRefused(u) /\ o = [ok |-> TRUE, lim |-> Lim(t, cir(u), t, u)]
  BY <1>3, <1>4, <1>8, Zenon
<1>. QED BY <1>2, <1>5, <1>6, <1>7, <1>8, Zenon

(* What dp_delete_iface() clears leaves limits without a public rate. *)
LEMMA ForgottenType ==
  ASSUME NEW l \in Limits
  PROVE  Forgotten(l) \in Limits /\ Forgotten(l).public = 0
  BY Zenon DEF Forgotten, Lim, Limits

(* The inductive invariant: both properties, with the types they need. *)
IndInv == MtTypeOK /\ LimitsInForce /\ RecordedIsInForce

(* No interface is up and no limit is set at the start. *)
LEMMA MtInitial == MtInit => IndInv
  BY MtRatesAssumption DEF MtInit, IndInv, MtTypeOK, LimitsInForce, RecordedIsInForce, Limits,
     Lim, cir, Representable

(* An interface comes up with what the outcome o of its request set. *)
LEMMA CreatePreserves ==
  ASSUME IndInv, NEW p \in MtPort, NEW t \in MtRates, NEW u \in MtRates, MtCreate(p, t, u)
  PROVE  IndInv'
<1>. USE MtRatesAssumption
<1>0. t \in Nat /\ u \in Nat /\ limits[p] \in Limits /\ ~mt_up[p] /\ limits[p].public = 0
  BY Zenon DEF IndInv, MtTypeOK, MtCreate, RecordedIsInForce, Limits
<1>1. PICK o \in meter_config(limits[p], t, u) :
       \/ /\ o.ok
          /\ limits' = [limits EXCEPT ![p] = o.lim]
          /\ mt_up' = [mt_up EXCEPT ![p] = TRUE]
          /\ mt_asked' = [mt_asked EXCEPT ![p] = [total |-> t, public |-> u]]
       \/ /\ o.ok
          /\ \E reset \in meter_config(o.lim, 0, 0) :
               limits' = [limits EXCEPT ![p] = Forgotten(reset.lim)]
          /\ UNCHANGED <<mt_up, mt_asked>>
       \/ /\ ~o.ok
          /\ limits' = [limits EXCEPT ![p] = Forgotten(o.lim)]
          /\ UNCHANGED <<mt_up, mt_asked>>
  BY Zenon DEF MtCreate
<1>2. o.lim \in Limits
  BY <1>0, <1>1, MeterOutcomes, Zenon
<1>3. CASE /\ o.ok
           /\ limits' = [limits EXCEPT ![p] = o.lim]
           /\ mt_up' = [mt_up EXCEPT ![p] = TRUE]
           /\ mt_asked' = [mt_asked EXCEPT ![p] = [total |-> t, public |-> u]]
  <2>1. MtTypeOK'
    BY <1>0, <1>2, <1>3, Zenon DEF IndInv, MtTypeOK
  <2>2. limits'[p] = o.lim /\ mt_asked'[p] = [total |-> t, public |-> u] /\ mt_up'[p]
    BY <1>3, Zenon DEF IndInv, MtTypeOK
  <2>3. \A q \in MtPort \ {p} :
          limits'[q] = limits[q] /\ mt_asked'[q] = mt_asked[q] /\ mt_up'[q] = mt_up[q]
    BY <1>3, Zenon DEF IndInv, MtTypeOK
  <2>4. o.lim.nic = o.lim.total
    BY <1>0, <1>1, <1>3, MeterOutcomes, SMTT(30)
  <2>5. ~PublicRefused(u) => o.lim = Lim(t, cir(u), t, u)
    BY <1>0, <1>1, <1>3, MeterOutcomes, SMTT(30)
  <2>6. PublicRefused(u) => o.lim.public = 0
    <3>1. PublicRefused(u) =>
            o.lim = Lim(0, limits[p].meter, 0, limits[p].public)
      BY <1>0, <1>1, <1>3, MeterOutcomes, SMTT(30)
    <3>. QED BY <3>1, <1>0, SMTT(30) DEF Lim
  <2>7. LimitsInForce'
    <3>1. ASSUME Representable(u)
          PROVE  /\ o.lim.nic = t /\ o.lim.public = u
                 /\ o.lim.meter * 8 <= u /\ u < o.lim.meter * 8 + 8
      BY <3>1, <2>5, <1>0, CirOfRepresentable, SMTT(30) DEF Lim
    <3>2. mt_asked'[p].total = t /\ mt_asked'[p].public = u
      BY <2>2
    <3>3. LimitsInForce
      BY Zenon DEF IndInv
    <3>. QED BY <3>1, <3>2, <3>3, <2>2, <2>3, SMTT(30) DEF LimitsInForce
  <2>8. RecordedIsInForce'
    <3>1. o.lim.public # 0 => o.lim.meter = cir(o.lim.public) /\ o.lim.meter # 0
      BY <2>5, <2>6 DEF PublicRefused, Lim
    <3>. QED BY <3>1, <2>2, <2>3, <2>4, SMTT(30) DEF IndInv, RecordedIsInForce
  <2>. QED BY <2>1, <2>7, <2>8, Zenon DEF IndInv
<1>4. ASSUME NEW l \in Limits, l.public = 0, limits' = [limits EXCEPT ![p] = l],
             UNCHANGED <<mt_up, mt_asked>>
      PROVE  IndInv'
  BY <1>0, <1>4, Zenon DEF IndInv, MtTypeOK, LimitsInForce, RecordedIsInForce
<1>5. CASE /\ o.ok
           /\ \E reset \in meter_config(o.lim, 0, 0) :
                limits' = [limits EXCEPT ![p] = Forgotten(reset.lim)]
           /\ UNCHANGED <<mt_up, mt_asked>>
  <2>1. PICK reset \in meter_config(o.lim, 0, 0) :
          limits' = [limits EXCEPT ![p] = Forgotten(reset.lim)]
    BY <1>5, Zenon
  <2>2. reset.lim \in Limits
    BY <1>2, <2>1, MeterOutcomes, Zenon
  <2>3. Forgotten(reset.lim) \in Limits /\ Forgotten(reset.lim).public = 0
    BY <2>2, ForgottenType, Zenon
  <2>. QED BY <1>4, <1>5, <2>1, <2>3, Zenon
<1>6. CASE /\ ~o.ok
           /\ limits' = [limits EXCEPT ![p] = Forgotten(o.lim)]
           /\ UNCHANGED <<mt_up, mt_asked>>
  <2>1. Forgotten(o.lim) \in Limits /\ Forgotten(o.lim).public = 0
    BY <1>2, ForgottenType, Zenon
  <2>. QED BY <1>4, <1>6, <2>1, Zenon
<1>. QED BY <1>1, <1>3, <1>5, <1>6, Zenon

(* DeleteInterface lifts the limits and clears what was recorded. *)
LEMMA DeletePreserves ==
  ASSUME IndInv, NEW p \in MtPort, MtDelete(p)
  PROVE  IndInv'
<1>1. PICK o \in meter_config(limits[p], 0, 0) :
        limits' = [limits EXCEPT ![p] = Forgotten(o.lim)]
  BY Zenon DEF MtDelete
<1>2. limits[p] \in Limits
  BY Zenon DEF IndInv, MtTypeOK
<1>3. o.lim \in Limits
  BY <1>1, <1>2, MeterOutcomes, Zenon
<1>4. Forgotten(o.lim) \in Limits /\ Forgotten(o.lim).public = 0
  BY <1>3, ForgottenType, Zenon
<1>. QED BY <1>1, <1>4, Zenon DEF MtDelete, IndInv, MtTypeOK, LimitsInForce, RecordedIsInForce

(* The inductive invariant holds in every reachable state. *)
LEMMA AlwaysIndInv == MtSpec => []IndInv
<1>1. IndInv /\ [MtNext]_mtVars => IndInv'
  <2>1. ASSUME IndInv, MtNext PROVE IndInv'
    BY <2>1, CreatePreserves, DeletePreserves, Zenon DEF MtNext
  <2>2. ASSUME IndInv, UNCHANGED mtVars PROVE IndInv'
    BY <2>2, Zenon DEF mtVars, IndInv, MtTypeOK, LimitsInForce, RecordedIsInForce
  <2>. QED BY <2>1, <2>2, Zenon
<1>. QED BY <1>1, MtInitial, PTL DEF MtSpec

(* Whatever interfaces are created and deleted, and whichever requests to  *)
(* the NIC fail, a running interface whose public rate is representable    *)
(* has the limits that CreateInterface was asked for.                      *)
THEOREM LimitsHold == MtSpec => []LimitsInForce
  BY AlwaysIndInv, PTL DEF IndInv

(* The caps recorded for a running interface, which the read-back and the  *)
(* packet path go by, are the ones the NIC and the meter keep.             *)
THEOREM RecordHolds == MtSpec => []RecordedIsInForce
  BY AlwaysIndInv, PTL DEF IndInv
===============================================================================
