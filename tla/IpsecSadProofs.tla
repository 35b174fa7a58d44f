---------------------------- MODULE IpsecSadProofs ----------------------------
(***************************************************************************)
(* Proofs about IpsecSad for any number of slots, heap addresses,          *)
(* sessions, VNIs, SPIs and prefixes.  The invariants are not inductive on *)
(* their own: who owns an association, what the SAD finds and what the     *)
(* request in progress has promised to do depend on each other.            *)
(***************************************************************************)
EXTENDS IpsecSad, WellFoundedInduction, TLAPS

\* Ownership: what is allocated is owned by a slot or being built, and a slot owns alone.
HeapInv ==
  /\ \A h \in Handle : mem[h] # NONE => h = fresh \/ \E s \in Slot : sas[s] = h
  /\ \A s \in Slot : sas[s] # NONE =>
       mem[sas[s]] # NONE /\ session[sas[s]] # NONE /\ sas[s] # fresh
  /\ \A s, t \in Slot : sas[s] # NONE /\ sas[s] = sas[t] => s = t

\* Sessions are in the pool or held, by one live association.
SessionInv ==
  /\ \A h \in Handle : session[h] # NONE => mem[h] # NONE /\ session[h] \notin pool
  /\ \A g, h \in Handle : session[g] # NONE /\ session[g] = session[h] => g = h
  /\ \A x \in Session : x \in pool \/ \E h \in Handle : session[h] = x

\* The SAD files an association under its own key, and slots and SAD agree except for the
\* association a replacement has just displaced.
FiledInv ==
  /\ \A k \in Key : sad[k] # NONE =>
       /\ mem[sad[k]] # NONE
       /\ KeyOf(mem[sad[k]]) = k
       /\ IsLocalSideValid(mem[sad[k]])
       /\ Stored(mem[sad[k]]) = mem[sad[k]]
       /\ \/ pc = "own" /\ sad[k] = fresh
          \/ \E s \in Slot : sas[s] = sad[k]
  /\ \A s \in Slot : sas[s] # NONE =>
       \/ pc = "own" /\ s = slot
       \/ sad[KeyOf(mem[sas[s]])] = sas[s]

\* What the request in progress has established and not yet undone.
CallInv ==
  pc # "idle" =>
    /\ up
    /\ IsLocalSideValid(req)
    /\ KeyOf(req) = lookup
    /\ sas[slot] = old
    /\ sad[lookup] = IF pc = "own" THEN fresh ELSE old
    /\ old # NONE => /\ mem[old].dir = EGRESS /\ req.dir = EGRESS
                     /\ KeyOf(mem[old]) = lookup
                     /\ Stored(mem[old]) = mem[old]
    /\ fresh # NONE => mem[fresh] # NONE /\ (session[fresh] = NONE <=> pc = "session")
    /\ pc \in {"add", "own"} => mem[fresh] = Stored(req)

IInv == TypeOK /\ HeapInv /\ SessionInv /\ FiledInv /\ CallInv

-------------------------------------------------------------------------------
(* Facts about the operators. *)

\* dp_ipsec_build_key() makes a key from any association.
LEMMA KeyType ==
  ASSUME NEW r, r \in Sa \/ r \in SaSpec
  PROVE  KeyOf(r) \in Key
BY AddressAssumption, Zenon DEF KeyOf, BuildKey, LookupSpi, Masked, Key, Addr, Sa, SaSpec

\* Masking the addresses moves an association to no other key and changes no verdict on it.
LEMMA StoredFacts ==
  ASSUME NEW r \in Sa
  PROVE  /\ Stored(r) \in Sa
         /\ Stored(Stored(r)) = Stored(r)
         /\ KeyOf(Stored(r)) = KeyOf(r)
         /\ IsLocalSideValid(Stored(r)) <=> IsLocalSideValid(r)
<1>1. Stored(r) \in Sa
  BY AddressAssumption, Zenon DEF Stored, Masked, Sa, Addr
<1>2. KeyOf(Stored(r)) = KeyOf(r)
  BY Zenon DEF Stored, KeyOf, BuildKey, LookupSpi, Masked, Sa, Addr
<1>3. IsLocalSideValid(Stored(r)) <=> IsLocalSideValid(r)
  BY Zenon DEF Stored, IsLocalSideValid, Masked, Sa, Addr
<1>4. Stored(Stored(r)) = Stored(r)
  BY Zenon DEF Stored, Masked, Sa, Addr
<1> QED BY <1>1, <1>2, <1>3, <1>4, Zenon

\* dp_ipsec_get_slot() finds what is there and nothing else.
LEMMA GetSlotFacts ==
  ASSUME sas \in [Slot -> Handle \cup {NONE}], NEW h
  PROVE  /\ (\E s \in Slot : sas[s] = h) <=> GetSlot(h) \in Slot
         /\ GetSlot(h) \in Slot => sas[GetSlot(h)] = h
<1>1. DP_IPSEC_MAX_SA \notin Slot /\ Slot \subseteq Nat
  BY SlotAssumption DEF Slot
<1>2. ASSUME \E s \in Slot : sas[s] = h
      PROVE  \E s \in Slot : sas[s] = h /\ \A t \in Slot : sas[t] = h => s <= t
  <2> DEFINE T == {s \in Slot : sas[s] = h}
             R == OpToRel(<, Nat)
  <2>1. T \subseteq Nat /\ T # {}
    BY <1>1, <1>2, Zenon
  <2>2. \E x \in T : \A y \in T : ~(<<y, x>> \in R)
    <3> HIDE DEF T
    <3> QED BY <2>1, NatLessThanWellFounded, WFMin, Zenon
  <2>3. \A x, y \in Nat : <<y, x>> \notin R => x <= y
    BY DEF OpToRel
  <2> QED BY <2>1, <2>2, <2>3, Zenon
<1> QED BY <1>1, <1>2, Zenon DEF GetSlot

-------------------------------------------------------------------------------
(* The initial state and the steps that end a request without publishing anything. *)

\* dp_ipsec_init() leaves an empty database with every session in the pool.
LEMMA InitIInv == Init => IInv
<1> SUFFICES ASSUME Init PROVE IInv
  OBVIOUS
<1>1. TypeOK
  BY NoneAssumption, Zenon DEF Init, TypeOK, Building, Code
<1>2. HeapInv /\ SessionInv /\ FiledInv /\ CallInv
  BY NoneAssumption, Zenon DEF Init, HeapInv, SessionInv, FiledInv, CallInv
<1> QED BY <1>1, <1>2, Zenon DEF IInv

\* A refusal only answers: the database stays, and nothing had been built.
LEMMA RefuseIInv ==
  ASSUME IInv, pc \in {"idle", "alloc"}, NEW code \in Code, Refuse(code)
  PROVE  IInv'
<1> USE DEF IInv, Refuse, Answer, dbVars
<1>1. TypeOK'
  BY NoneAssumption, Zenon DEF TypeOK, Building
<1>2. fresh = NONE /\ fresh' = NONE
  BY Zenon DEF TypeOK, Building
<1>3. HeapInv' /\ SessionInv'
  BY <1>2, Zenon DEF HeapInv, SessionInv
<1>4. FiledInv'
  BY Zenon DEF FiledInv
<1>5. CallInv'
  BY Zenon DEF CallInv
<1> QED BY <1>1, <1>3, <1>4, <1>5, Zenon

\* Giving up on a half-built association frees it, and only it.
LEMMA AbandonIInv ==
  ASSUME IInv, pc \in {"session", "init", "add"}, NEW code \in Code, Abandon(code)
  PROVE  IInv'
<1> USE DEF IInv, Abandon, FreeSa, Answer
<1>0. fresh \in Handle /\ fresh # NONE /\ fresh' = NONE /\ pc' = "idle"
  BY NoneAssumption, Zenon DEF TypeOK, Building
<1>1. TypeOK'
  BY <1>0, NoneAssumption, Zenon DEF TypeOK, Building
<1>2. HeapInv'
  BY <1>0, Zenon DEF HeapInv, TypeOK
<1>3. SessionInv'
  BY <1>0, Zenon DEF SessionInv, TypeOK
<1>4. FiledInv'
  BY <1>0 DEF FiledInv, HeapInv, TypeOK
<1>5. CallInv'
  BY <1>0, Zenon DEF CallInv
<1> QED BY <1>1, <1>2, <1>3, <1>4, <1>5, Zenon

-------------------------------------------------------------------------------
(* One lemma per action. *)

\* The checks of dp_ipsec_create_sa() refuse, or start building for a free slot and an unused key.
LEMMA CreateIInv == ASSUME IInv, NEW r \in Sa, CreateSa(r) PROVE IInv'
<1>1. CASE CreateVerdict(r) # "PENDING" /\ Refuse(CreateVerdict(r))
  <2>1. CreateVerdict(r) \in Code
    BY Zenon DEF CreateVerdict, Code
  <2> QED BY <1>1, <2>1, RefuseIInv, Zenon DEF CreateSa
<1>2. CASE CreateVerdict(r) = "PENDING" /\ StartBuild(r, KeyOf(r), GetSlot(NONE), NONE)
  <2> USE DEF IInv, StartBuild, dbVars
  <2>0. pc = "idle" /\ fresh = NONE
    BY Zenon DEF CreateSa, TypeOK, Building
  <2>1. up /\ IsLocalSideValid(r) /\ sad[KeyOf(r)] = NONE /\ GetSlot(NONE) \in Slot
    BY <1>2, Zenon DEF CreateVerdict, LookupOne
  <2>2. sas[GetSlot(NONE)] = NONE
    BY <2>1, GetSlotFacts, Zenon DEF TypeOK
  <2>3. KeyOf(r) \in Key /\ Slot \subseteq Nat
    BY KeyType, SlotAssumption DEF Slot
  <2>4. TypeOK'
    BY <1>2, <2>0, <2>1, <2>3, NoneAssumption, Zenon DEF TypeOK, Building, Code
  <2>5. HeapInv' /\ SessionInv'
    BY <1>2, <2>0, Zenon DEF HeapInv, SessionInv
  <2>6. FiledInv'
    BY <1>2, <2>0, Zenon DEF FiledInv
  <2>7. CallInv'
    BY <1>2, <2>1, <2>2, Zenon DEF CallInv
  <2> QED BY <2>4, <2>5, <2>6, <2>7, Zenon
<1> QED BY <1>1, <1>2, Zenon DEF CreateSa

\* The name a request finds an association by, and the association it finds.
LEMMA FoundFacts ==
  ASSUME IInv, NEW id \in SaSpec, FindSa(id) # NONE
  PROVE  /\ KeyOf(id) \in Key
         /\ sad[KeyOf(id)] = FindSa(id) /\ FindSa(id) \in Handle
         /\ mem[FindSa(id)] \in Sa
         /\ KeyOf(mem[FindSa(id)]) = KeyOf(id)
         /\ SameIdentity(mem[FindSa(id)], id)
<1>1. KeyOf(id) \in Key
  BY KeyType, Zenon
<1>2. sad[KeyOf(id)] = FindSa(id) /\ SameIdentity(mem[FindSa(id)], id)
  BY Zenon DEF FindSa, LookupOne
<1> QED BY <1>1, <1>2 DEF IInv, TypeOK, FiledInv

\* The replacement of an outbound association is filed where the replaced one is.
LEMMA ReplacementFacts ==
  ASSUME NEW id \in SaSpec, NEW new_spi \in Number, NEW w \in ReplayWindow, NEW k \in KeyMaterial
  PROVE  LET r == Replacement(id, new_spi, w, k)
         IN  r \in Sa /\ r.dir = id.dir /\ (id.dir = EGRESS => KeyOf(r) = KeyOf(id))
BY Zenon DEF Replacement, SaSpec, Sa, KeyOf, BuildKey, LookupSpi

\* The checks of dp_ipsec_update_sa() refuse, or start building for the slot and key of the
\* association they found.
LEMMA UpdateIInv ==
  ASSUME IInv, NEW id \in SaSpec, NEW new_spi \in Number, NEW w \in ReplayWindow,
         NEW k \in KeyMaterial, UpdateSa(id, new_spi, w, k)
  PROVE  IInv'
<1> DEFINE r == Replacement(id, new_spi, w, k)
<1>0. r \in Sa /\ r.dir = id.dir /\ (id.dir = EGRESS => KeyOf(r) = KeyOf(id))
  BY ReplacementFacts, Zenon
<1>p. pc = "idle"
  BY Zenon DEF UpdateSa
<1>1. CASE UpdateVerdict(id, r) # "PENDING" /\ Refuse(UpdateVerdict(id, r))
  <2>1. UpdateVerdict(id, r) \in Code
    BY Zenon DEF UpdateVerdict, Code
  <2> QED BY <1>1, <1>p, <2>1, RefuseIInv, Zenon
<1>2. CASE /\ UpdateVerdict(id, r) = "PENDING"
           /\ StartBuild(r, KeyOf(id), GetSlot(FindSa(id)), FindSa(id))
  <2> HIDE DEF r
  <2> USE DEF IInv, StartBuild, dbVars
  <2>0. fresh = NONE
    BY <1>p, Zenon DEF TypeOK, Building
  <2>1. up /\ id.dir = EGRESS /\ IsLocalSideValid(r) /\ FindSa(id) # NONE
        /\ GetSlot(FindSa(id)) \in Slot
    BY <1>2, Zenon DEF UpdateVerdict
  <2>2. sas[GetSlot(FindSa(id))] = FindSa(id)
    BY <2>1, GetSlotFacts, Zenon DEF TypeOK
  <2>3. /\ KeyOf(id) \in Key /\ sad[KeyOf(id)] = FindSa(id) /\ FindSa(id) \in Handle
        /\ KeyOf(mem[FindSa(id)]) = KeyOf(id) /\ mem[FindSa(id)].dir = EGRESS
    BY <2>1, FoundFacts, Zenon DEF SameIdentity
  <2>4. TypeOK'
    BY <1>0, <1>2, <2>0, <2>1, <2>3, SlotAssumption, NoneAssumption
    DEF TypeOK, Building, Code, Slot
  <2>5. HeapInv' /\ SessionInv'
    BY <1>2, <2>0, Zenon DEF HeapInv, SessionInv
  <2>6. FiledInv'
    BY <1>2, <1>p, Zenon DEF FiledInv
  <2>7. CallInv'
    BY <1>0, <1>2, <2>0, <2>1, <2>2, <2>3, Zenon DEF CallInv, FiledInv
  <2> QED BY <2>4, <2>5, <2>6, <2>7, Zenon
<1> QED BY <1>1, <1>2, Zenon DEF UpdateSa

\* rte_zmalloc() returns memory nobody uses, or the request is refused.
LEMMA AllocIInv == ASSUME IInv, AllocSa PROVE IInv'
<1>1. CASE Refuse("OUT_OF_MEMORY")
  BY <1>1, RefuseIInv, Zenon DEF AllocSa, Code
<1>2. ASSUME NEW h \in Handle, mem[h] = NONE, mem' = [mem EXCEPT ![h] = req], fresh' = h,
             pc' = "session",
             UNCHANGED <<up, sad, sas, session, pool, req, lookup, slot, old, reply>>
      PROVE  IInv'
  <2> USE <1>2 DEF IInv
  <2>0. pc = "alloc" /\ req \in Sa /\ req # NONE /\ fresh = NONE
    BY NoneAssumption, Zenon DEF AllocSa, TypeOK, Building
  <2>1. TypeOK'
    BY <2>0, NoneAssumption, Zenon DEF TypeOK, Building
  <2>2. HeapInv'
    BY <2>0, NoneAssumption DEF HeapInv, TypeOK
  <2>3. SessionInv'
    BY <2>0, Zenon DEF SessionInv, TypeOK
  <2>4. FiledInv'
    BY <2>0 DEF FiledInv, HeapInv, TypeOK
  <2>5. CallInv'
    BY <2>0 DEF CallInv, SessionInv, HeapInv, TypeOK
  <2> QED BY <2>1, <2>2, <2>3, <2>4, <2>5, Zenon
<1> QED BY <1>1, <1>2, Zenon DEF AllocSa

\* A session moves from the pool to the association being built, or that one is freed.
LEMMA SessionIInv == ASSUME IInv, CreateSession PROVE IInv'
<1>1. CASE Abandon("SA_CREATE")
  BY <1>1, AbandonIInv, Zenon DEF CreateSession, Code
<1>2. ASSUME NEW x \in pool, pool' = pool \ {x}, session' = [session EXCEPT ![fresh] = x],
             pc' = "init", UNCHANGED <<up, sad, sas, mem, req, lookup, slot, fresh, old, reply>>
      PROVE  IInv'
  <2> USE <1>2 DEF IInv
  <2>0. pc = "session" /\ fresh \in Handle /\ fresh # NONE /\ x \in Session /\ x # NONE
    BY NoneAssumption, Zenon DEF CreateSession, TypeOK, Building
  <2>1. TypeOK'
    BY <2>0, NoneAssumption, Zenon DEF TypeOK, Building
  <2>2. HeapInv'
    BY <2>0, Zenon DEF HeapInv, TypeOK
  <2>3. SessionInv'
    <3>1. session[fresh] = NONE /\ mem[fresh] # NONE
      BY <2>0, Zenon DEF CallInv
    <3>2. \A h \in Handle : session'[h] = IF h = fresh THEN x ELSE session[h]
      BY <2>0, Zenon DEF TypeOK
    <3>3. \A h \in Handle : session[h] # x
      BY <2>0, Zenon DEF SessionInv
    <3> QED BY <2>0, <3>1, <3>2, <3>3, NoneAssumption DEF SessionInv
  <2>4. FiledInv'
    BY <2>0, Zenon DEF FiledInv
  <2>5. CallInv'
    BY <2>0, Zenon DEF CallInv, TypeOK
  <2> QED BY <2>1, <2>2, <2>3, <2>4, <2>5, Zenon
<1> QED BY <1>1, <1>2, Zenon DEF CreateSession

\* Once librte_ipsec has set it up the association carries the masked addresses.
LEMMA InitSaIInv == ASSUME IInv, InitIpsecSa PROVE IInv'
<1>1. CASE Abandon("SA_CREATE")
  BY <1>1, AbandonIInv, Zenon DEF InitIpsecSa, Code
<1>2. CASE /\ mem' = [mem EXCEPT ![fresh] = Stored(req)] /\ pc' = "add"
           /\ UNCHANGED <<up, sad, sas, session, pool, req, lookup, slot, fresh, old, reply>>
  <2> USE <1>2 DEF IInv
  <2>0. pc = "init" /\ fresh \in Handle /\ fresh # NONE /\ req \in Sa
    BY NoneAssumption, Zenon DEF InitIpsecSa, TypeOK, Building
  <2>1. Stored(req) \in Sa /\ Stored(req) # NONE
    BY <2>0, StoredFacts, NoneAssumption, Zenon
  <2>2. TypeOK'
    BY <2>0, <2>1, NoneAssumption, Zenon DEF TypeOK, Building
  <2>3. HeapInv' /\ SessionInv'
    BY <2>0, <2>1 DEF HeapInv, SessionInv, TypeOK
  <2>4. FiledInv'
    BY <2>0, <2>1 DEF FiledInv, HeapInv, TypeOK
  <2>5. CallInv'
    BY <2>0, <2>1, Zenon DEF CallInv, HeapInv, TypeOK
  <2> QED BY <2>2, <2>3, <2>4, <2>5, Zenon
<1> QED BY <1>1, <1>2, Zenon DEF InitIpsecSa

\* rte_ipsec_sad_add() publishes what is complete under the key it belongs to.
LEMMA AddIInv == ASSUME IInv, AddToSad PROVE IInv'
<1>1. CASE Abandon("SA_CREATE")
  BY <1>1, AbandonIInv, Zenon DEF AddToSad, Code
<1>2. CASE /\ sad' = [sad EXCEPT ![lookup] = fresh] /\ pc' = "own"
           /\ UNCHANGED <<up, sas, mem, session, pool, req, lookup, slot, fresh, old, reply>>
  <2> USE <1>2 DEF IInv
  <2>0. /\ pc = "add" /\ fresh \in Handle /\ fresh # NONE /\ req \in Sa /\ lookup \in Key
        /\ slot \in Slot
    BY NoneAssumption, Zenon DEF AddToSad, TypeOK, Building
  <2>1. /\ mem[fresh] = Stored(req) /\ KeyOf(mem[fresh]) = lookup
        /\ Stored(mem[fresh]) = mem[fresh] /\ IsLocalSideValid(mem[fresh])
    BY <2>0, StoredFacts, Zenon DEF CallInv
  <2>2. TypeOK'
    BY <2>0, NoneAssumption, Zenon DEF TypeOK, Building
  <2>3. HeapInv' /\ SessionInv'
    BY <2>0, Zenon DEF HeapInv, SessionInv
  <2>4. FiledInv'
    <3>1. ASSUME NEW k \in Key, sad'[k] # NONE
          PROVE  /\ mem[sad'[k]] # NONE
                 /\ KeyOf(mem[sad'[k]]) = k
                 /\ IsLocalSideValid(mem[sad'[k]])
                 /\ Stored(mem[sad'[k]]) = mem[sad'[k]]
                 /\ \/ pc' = "own" /\ sad'[k] = fresh
                    \/ \E s \in Slot : sas[s] = sad'[k]
      BY <2>0, <2>1, <3>1, Zenon DEF FiledInv, CallInv, TypeOK
    <3>2. ASSUME NEW s \in Slot, sas[s] # NONE
          PROVE  s = slot \/ sad'[KeyOf(mem[sas[s]])] = sas[s]
      <4>1. CASE KeyOf(mem[sas[s]]) # lookup
        BY <2>0, <3>2, <4>1 DEF FiledInv, TypeOK
      <4>2. CASE KeyOf(mem[sas[s]]) = lookup
        <5>1. sas[s] = old
          BY <2>0, <3>2, <4>2, Zenon DEF FiledInv, CallInv
        <5> QED BY <2>0, <3>2, <5>1, Zenon DEF CallInv, HeapInv
      <4> QED BY <4>1, <4>2, Zenon
    <3> QED BY <3>1, <3>2, Zenon DEF FiledInv
  <2>5. CallInv'
    BY <2>0, <2>1, Zenon DEF CallInv, TypeOK
  <2> QED BY <2>2, <2>3, <2>4, <2>5, Zenon
<1> QED BY <1>1, <1>2, Zenon DEF AddToSad

\* The slot changes hands and the replaced association, no longer published, is freed.
LEMMA TakeSlotIInv == ASSUME IInv, TakeSlot PROVE IInv'
<1> USE DEF IInv, Answer
<1>0. /\ pc = "own" /\ fresh \in Handle /\ fresh # NONE /\ slot \in Slot /\ lookup \in Key
      /\ pc' = "idle" /\ fresh' = NONE /\ sas' = [sas EXCEPT ![slot] = fresh]
      /\ sad' = sad /\ up' = up
  BY NoneAssumption, Zenon DEF TakeSlot, TypeOK, Building
<1>1. /\ sad[lookup] = fresh /\ sas[slot] = old /\ mem[fresh] # NONE
      /\ session[fresh] # NONE /\ old # fresh
  BY <1>0, Zenon DEF CallInv, HeapInv
<1>2. \A k \in Key : sad[k] # NONE => sad[k] # old
  BY <1>0, <1>1, Zenon DEF FiledInv, CallInv
<1>3. CASE old # NONE /\ FreeSa(old)
  <2> USE <1>3 DEF FreeSa
  <2>0. old \in Handle
    BY Zenon DEF TypeOK
  <2>1. TypeOK'
    BY <1>0, <2>0, NoneAssumption DEF TypeOK, Building, Code, TakeSlot
  <2>2. HeapInv'
    BY <1>0, <1>1, <2>0 DEF HeapInv, TypeOK
  <2>3. SessionInv'
    BY <2>0, Zenon DEF SessionInv, TypeOK
  <2>4. FiledInv'
    BY <1>0, <1>1, <1>2, <2>0 DEF FiledInv, HeapInv, TypeOK
  <2>5. CallInv'
    BY <1>0, Zenon DEF CallInv
  <2> QED BY <2>1, <2>2, <2>3, <2>4, <2>5, Zenon
<1>4. CASE old = NONE /\ UNCHANGED <<mem, session, pool>>
  <2> USE <1>4
  <2>1. TypeOK'
    BY <1>0, NoneAssumption DEF TypeOK, Building, Code, TakeSlot
  <2>2. HeapInv' /\ SessionInv'
    BY <1>0, <1>1 DEF HeapInv, SessionInv, TypeOK
  <2>3. FiledInv'
    BY <1>0, <1>1 DEF FiledInv, TypeOK
  <2>4. CallInv'
    BY <1>0, Zenon DEF CallInv
  <2> QED BY <2>1, <2>2, <2>3, <2>4, Zenon
<1> QED BY <1>3, <1>4, Zenon DEF TakeSlot

\* dp_ipsec_delete_sa() takes the association out of the SAD and its slot before it is freed.
LEMMA DeleteIInv == ASSUME IInv, NEW id \in SaSpec, DeleteSa(id) PROVE IInv'
<1>1. CASE Refuse("IPSEC_DISABLED") \/ Refuse("SA_NOT_FOUND")
  BY <1>1, RefuseIInv, Zenon DEF DeleteSa, Code
<1>2. ASSUME NEW h, h = FindSa(id), h # NONE,
             sad' = [sad EXCEPT ![KeyOf(id)] = NONE],
             sas' = [s \in Slot |-> IF s = GetSlot(h) THEN NONE ELSE sas[s]],
             FreeSa(h), Answer("OK"), UNCHANGED up
      PROVE  IInv'
  <2> USE <1>2 DEF IInv, Answer, FreeSa
  <2>0. pc = "idle" /\ fresh = NONE /\ fresh' = NONE
    BY Zenon DEF DeleteSa, TypeOK, Building
  <2>1. KeyOf(id) \in Key /\ sad[KeyOf(id)] = h /\ h \in Handle
    BY FoundFacts, Zenon
  <2>2. GetSlot(h) \in Slot /\ sas[GetSlot(h)] = h
    BY <2>0, <2>1, GetSlotFacts, Zenon DEF FiledInv, TypeOK
  <2>3. \A s \in Slot : s # GetSlot(h) => sas[s] # h
    BY <2>2, Zenon DEF HeapInv
  <2>4. \A k \in Key : k # KeyOf(id) => sad[k] # h
    BY <2>1 DEF FiledInv
  <2>5. TypeOK'
    BY <2>1, NoneAssumption, Zenon DEF TypeOK, Building, Code
  <2>6. HeapInv'
    <3> HIDE DEF FreeSa
    <3>1. \A s \in Slot : sas'[s] = IF s = GetSlot(h) THEN NONE ELSE sas[s]
      OBVIOUS
    <3>2. \A g \in Handle : g # h => mem'[g] = mem[g] /\ session'[g] = session[g]
      BY Zenon DEF FreeSa, TypeOK
    <3>3. mem'[h] = NONE
      BY <2>1, Zenon DEF FreeSa, TypeOK
    <3> QED BY <2>0, <2>2, <2>3, <3>1, <3>2, <3>3 DEF HeapInv, TypeOK
  <2>7. SessionInv'
    BY <2>1, Zenon DEF SessionInv, TypeOK
  <2>8. FiledInv'
    <3>1. ASSUME NEW k \in Key, sad'[k] # NONE
          PROVE  sad'[k] = sad[k] /\ sad[k] # h /\ k # KeyOf(id)
      BY <2>1, <2>4, <3>1, Zenon DEF TypeOK
    <3>2. ASSUME NEW s \in Slot, sas'[s] # NONE
          PROVE  sas'[s] = sas[s] /\ sas[s] # h /\ KeyOf(mem[sas[s]]) # KeyOf(id)
      BY <2>0, <2>1, <2>3, <3>2 DEF FiledInv
    <3>3. \A g \in Handle : g # h => mem'[g] = mem[g]
      BY Zenon DEF TypeOK
    <3>4. ASSUME NEW k \in Key, sad'[k] # NONE
          PROVE  \E s \in Slot : sas'[s] = sad'[k]
      <4>1. PICK s \in Slot : sas[s] = sad[k]
        BY <2>0, <3>1, <3>4, Zenon DEF FiledInv
      <4> QED BY <2>2, <3>1, <3>4, <4>1, Zenon
    <3> QED BY <2>0, <3>1, <3>2, <3>3, <3>4 DEF FiledInv, TypeOK
  <2>9. CallInv'
    BY Zenon DEF CallInv
  <2> QED BY <2>5, <2>6, <2>7, <2>8, <2>9, Zenon
<1> QED BY <1>1, <1>2, Zenon DEF DeleteSa

\* dp_ipsec_get_sa() only reads.
LEMMA GetIInv == ASSUME IInv, NEW id \in SaSpec, GetSa(id) PROVE IInv'
BY RefuseIInv, Zenon DEF GetSa, Code

\* dp_ipsec_free() releases every owned association and empties the SAD.
LEMMA ShutdownIInv == ASSUME IInv, Shutdown PROVE IInv'
<1> USE DEF IInv, Shutdown, callVars
<1>0. fresh = NONE /\ pc = "idle" /\ pc' = "idle" /\ fresh' = NONE
  BY Zenon DEF TypeOK, Building
<1>1. Owned \subseteq Handle /\ \A h \in Handle : mem[h] # NONE => h \in Owned
  BY <1>0, NoneAssumption DEF Owned, TypeOK, HeapInv
<1>2. \A h \in Handle : mem'[h] = NONE /\ session'[h] = NONE
  BY <1>1, Zenon DEF SessionInv
<1>3. \A x \in Session : x \in pool'
  BY <1>1, NoneAssumption, Zenon DEF SessionInv
<1>4. TypeOK'
  <2>1. pool' \in SUBSET Session
    BY <1>1, Zenon DEF TypeOK
  <2> QED BY <1>0, <2>1, NoneAssumption, Zenon DEF TypeOK, Building
<1>5. HeapInv' /\ SessionInv' /\ CallInv'
  BY <1>0, <1>2, <1>3, Zenon DEF HeapInv, SessionInv, CallInv
<1>6. FiledInv'
  BY <1>0, Zenon DEF FiledInv
<1> QED BY <1>4, <1>5, <1>6, Zenon

\* Every step keeps the inductive invariant.
LEMMA NextIInv == IInv /\ [Next]_vars => IInv'
<1> SUFFICES ASSUME IInv, [Next]_vars PROVE IInv'
  OBVIOUS
<1>1. CASE UNCHANGED vars
  BY <1>1 DEF IInv, vars, dbVars, callVars, TypeOK, HeapInv, SessionInv, FiledInv, CallInv
<1>2. CASE Next
  BY <1>2, CreateIInv, UpdateIInv, DeleteIInv, GetIInv, AllocIInv, SessionIInv, InitSaIInv,
     AddIInv, TakeSlotIInv, ShutdownIInv, Zenon DEF Next
<1> QED BY <1>1, <1>2, Zenon

-------------------------------------------------------------------------------
(* The theorems. *)

\* The strengthening of the safety properties holds in every reachable state of the database.
THEOREM Inductive == Spec => []IInv
BY InitIInv, NextIInv, PTL DEF Spec

\* Type correctness of every reachable state.
THEOREM TypeCorrect == Spec => []TypeOK
<1>1. IInv => TypeOK
  BY Zenon DEF IInv
<1> QED BY <1>1, Inductive, PTL

\* The data path never gets a freed, half-built or wrongly filed association from a lookup.
THEOREM LookupsAreSafe == Spec => []PublishedIsLive
<1>1. IInv => PublishedIsLive
  BY DEF IInv, PublishedIsLive, FiledInv, HeapInv, CallInv, TypeOK
<1> QED BY <1>1, Inductive, PTL

\* No association leaks and none is owned twice, however a request ends.
THEOREM NothingLeaks == Spec => []OwnedOnce
<1>1. IInv => OwnedOnce
  <2> SUFFICES ASSUME IInv, NEW h \in Handle, mem[h] # NONE
               PROVE  \/ h = fresh /\ \A s \in Slot : sas[s] # h
                      \/ h # fresh /\ \E s \in Slot : \A t \in Slot : sas[t] = h <=> t = s
    BY Zenon DEF OwnedOnce
  <2>1. h # NONE
    BY NoneAssumption, Zenon
  <2>2. CASE h = fresh
    BY <2>1, <2>2, Zenon DEF IInv, HeapInv
  <2>3. CASE h # fresh
    <3>1. PICK s \in Slot : sas[s] = h
      BY <2>3, Zenon DEF IInv, HeapInv
    <3>2. \A t \in Slot : sas[t] = h <=> t = s
      BY <2>1, <3>1, Zenon DEF IInv, HeapInv
    <3> QED BY <2>3, <3>2, Zenon
  <2> QED BY <2>2, <2>3, Zenon
<1> QED BY <1>1, Inductive, PTL

\* dp_ipsec_get_slot() always finds what the SAD finds.
THEOREM SlotsAgree == Spec => []SlotsMatchSad
<1>1. IInv => SlotsMatchSad
  <2> SUFFICES ASSUME IInv, pc = "idle", NEW h \in Handle
               PROVE  (\E s \in Slot : sas[s] = h) <=> (\E k \in Key : sad[k] = h)
    BY Zenon DEF SlotsMatchSad
  <2>1. ASSUME NEW s \in Slot, sas[s] = h PROVE \E k \in Key : sad[k] = h
    <3>1. mem[h] \in Sa
      BY <2>1, NoneAssumption DEF IInv, HeapInv, TypeOK
    <3> QED BY <2>1, <3>1, KeyType, NoneAssumption, Zenon DEF IInv, FiledInv
  <2>2. ASSUME NEW k \in Key, sad[k] = h PROVE \E s \in Slot : sas[s] = h
    BY <2>2, NoneAssumption, Zenon DEF IInv, FiledInv
  <2> QED BY <2>1, <2>2, Zenon
<1> QED BY <1>1, Inductive, PTL

\* No crypto session is lost or shared.
THEOREM SessionsAreConserved == Spec => []SessionsConserved
<1>1. IInv => SessionsConserved
  BY NoneAssumption DEF IInv, SessionsConserved, SessionInv, TypeOK
<1> QED BY <1>1, Inductive, PTL

\* The zero key of a short frame finds no association.
THEOREM ZeroKeyIsSafe == Spec => []ZeroKeyMatchesNothing
<1>1. IInv => ZeroKeyMatchesNothing
  BY DEF IInv, ZeroKeyMatchesNothing, FiledInv, IsLocalSideValid, KeyOf, BuildKey, Masked
<1> QED BY <1>1, Inductive, PTL

\* A request that fails leaves the database as it found it.
THEOREM FailureLeavesNoTrace == Spec => []UntouchedUntilAdd
<1>1. IInv => UntouchedUntilAdd
  <2> SUFFICES ASSUME IInv, pc \in {"alloc", "session", "init", "add"}
               PROVE  /\ sad[lookup] = old /\ sas[slot] = old
                      /\ \A h \in Handle : h # fresh /\ mem[h] # NONE => sad[KeyOf(mem[h])] = h
    BY Zenon DEF UntouchedUntilAdd
  <2>1. sad[lookup] = old /\ sas[slot] = old
    BY Zenon DEF IInv, CallInv
  <2>2. ASSUME NEW h \in Handle, h # fresh, mem[h] # NONE PROVE sad[KeyOf(mem[h])] = h
    <3>1. PICK s \in Slot : sas[s] = h
      BY <2>2, Zenon DEF IInv, HeapInv
    <3> QED BY <2>2, <3>1, NoneAssumption, Zenon DEF IInv, FiledInv
  <2> QED BY <2>1, <2>2, Zenon
<1> QED BY <1>1, Inductive, PTL

-------------------------------------------------------------------------------
(* The database implements the table of SaTable. *)

\* The table depends on the SAD and on what the SAD points at.
LEMMA TableFrame ==
  ASSUME sad' = sad, \A k \in Key : sad[k] # NONE => mem'[sad[k]] = mem[sad[k]]
  PROVE  Table' = Table
BY DEF Table

\* Two stored associations that would serve the same traffic have the same key, and two outbound
\* ones with the same key serve the same traffic.
LEMMA CollideKey ==
  ASSUME NEW a \in Sa, NEW b \in Sa, Stored(a) = a, Stored(b) = b
  PROVE  /\ Abs!Collide(a, b) => KeyOf(a) = KeyOf(b)
         /\ KeyOf(a) = KeyOf(b) /\ a.dir = EGRESS /\ b.dir = EGRESS =>
              a.vni = b.vni /\ a.src = b.src /\ a.dst = b.dst
<1>1. Abs!Collide(a, b) => KeyOf(a) = KeyOf(b)
  BY Zenon DEF Abs!Collide, KeyOf, BuildKey, LookupSpi, EGRESS
<1>2. \A r \in Sa : Stored(r) = r => r.src = Masked(r.src) /\ r.dst = Masked(r.dst)
  BY Zenon DEF Stored, Sa, Addr
<1>3. ASSUME KeyOf(a) = KeyOf(b), a.dir = EGRESS, b.dir = EGRESS
      PROVE  a.vni = b.vni /\ Masked(a.src) = Masked(b.src) /\ Masked(a.dst) = Masked(b.dst)
  BY <1>3, Zenon DEF KeyOf, BuildKey, LookupSpi
<1> QED BY <1>1, <1>2, <1>3, Zenon

\* rte_ipsec_sad_add() is the one step that adds to the table, or swaps.
LEMMA AddRefines == ASSUME IInv, AddToSad PROVE [Abs!Next]_Table
<1> USE DEF IInv
<1>0. pc = "add" /\ fresh \in Handle /\ fresh # NONE /\ req \in Sa /\ lookup \in Key
  BY NoneAssumption, Zenon DEF AddToSad, TypeOK, Building
<1>1. CASE Abandon("SA_CREATE")
  <2>1. \A k \in Key : sad[k] # fresh
    BY <1>0 DEF FiledInv, HeapInv
  <2> QED BY <1>0, <1>1, <2>1, TableFrame, Zenon DEF Abandon, FreeSa, TypeOK
<1>2. CASE sad' = [sad EXCEPT ![lookup] = fresh] /\ UNCHANGED mem
  <2> DEFINE b == Stored(req)
  <2>1. mem[fresh] = b /\ b \in Sa /\ KeyOf(b) = lookup /\ Stored(b) = b /\ b.dir = req.dir
    <3>1. b.dir = req.dir
      BY <1>0, Zenon DEF Stored, Sa
    <3> QED BY <1>0, <3>1, StoredFacts, Zenon DEF CallInv
  <2>2. \A k \in Key : sad'[k] = IF k = lookup THEN fresh ELSE sad[k]
    BY <1>2, Zenon DEF TypeOK
  <2>3. Table' = {mem[sad'[k]] : k \in {j \in Key : sad'[j] # NONE}}
    BY <1>2, Zenon DEF Table
  <2>4. \A k \in Key : sad[k] # NONE =>
          mem[sad[k]] \in Sa /\ KeyOf(mem[sad[k]]) = k /\ Stored(mem[sad[k]]) = mem[sad[k]]
    BY Zenon DEF FiledInv, TypeOK
  <2>5. CASE old = NONE
    <3>1. sad[lookup] = NONE
      BY <1>0, <2>5, Zenon DEF CallInv
    <3>2. Table' = Table \cup {b}
      BY <1>0, <2>1, <2>2, <2>3, <3>1 DEF Table
    <3>3. \A a \in Table : ~Abs!Collide(b, a)
      BY <2>1, <2>4, <3>1, CollideKey, Zenon DEF Table
    <3>4. Abs!Create(b)
      BY <3>2, <3>3, Zenon DEF Abs!Create
    <3> QED BY <2>1, <3>4, Zenon DEF Abs!Next
  <2>6. CASE old # NONE
    <3>1. /\ sad[lookup] = old /\ mem[old].dir = EGRESS /\ req.dir = EGRESS
          /\ KeyOf(mem[old]) = lookup
      BY <1>0, <2>6, Zenon DEF CallInv
    <3>2. mem[old] \in Table /\ mem[old] \in Sa /\ Stored(mem[old]) = mem[old]
      BY <1>0, <2>4, <2>6, <3>1, Zenon DEF Table
    <3>3. Table' = (Table \ {mem[old]}) \cup {b}
      <4>1. \A k \in Key : k # lookup /\ sad[k] # NONE => mem[sad[k]] # mem[old]
        BY <2>4, <3>1, Zenon
      <4> HIDE DEF b
      <4> QED BY <1>0, <2>1, <2>2, <2>3, <3>1, <4>1 DEF Table
    <3>4. b.vni = mem[old].vni /\ b.src = mem[old].src /\ b.dst = mem[old].dst
      BY <2>1, <3>1, <3>2, CollideKey, Zenon
    <3>5. Abs!Update(mem[old], b)
      BY <2>1, <3>1, <3>3, <3>4, Zenon DEF Abs!Update, EGRESS
    <3> QED BY <2>1, <3>2, <3>5, Zenon DEF Abs!Next
  <2> QED BY <2>5, <2>6, Zenon
<1> QED BY <1>1, <1>2, Zenon DEF AddToSad

\* A step that leaves the SAD alone and frees or fills only what it does not point at.
LEMMA OffTableRefines ==
  ASSUME IInv, NEW h, \A k \in Key : sad[k] # h, sad' = sad,
         \A g \in Handle : g # h => mem'[g] = mem[g]
  PROVE  [Abs!Next]_Table
<1>1. \A k \in Key : sad[k] # NONE => mem'[sad[k]] = mem[sad[k]]
  BY Zenon DEF IInv, TypeOK
<1> QED BY <1>1, TableFrame, Zenon

\* A refused request does not change the table.
LEMMA RefuseRefines == ASSUME IInv, NEW code, Refuse(code) PROVE [Abs!Next]_Table
BY TableFrame, Zenon DEF Refuse, dbVars

\* Passing the checks does not change the table.
LEMMA StartRefines ==
  ASSUME IInv, NEW r, NEW k, NEW s, NEW o, StartBuild(r, k, s, o) PROVE [Abs!Next]_Table
BY TableFrame, Zenon DEF StartBuild, dbVars

\* Nor do the steps of dp_ipsec_build_sa(), nor handing over the slot.
LEMMA BuildRefines ==
  ASSUME IInv, AllocSa \/ CreateSession \/ InitIpsecSa \/ TakeSlot PROVE [Abs!Next]_Table
<1>1. TypeOK /\ HeapInv /\ FiledInv /\ CallInv
  BY Zenon DEF IInv
<1>2. CASE AllocSa
  <2>1. \A k \in Key : sad[k] # NONE => mem[sad[k]] # NONE
    BY <1>1, Zenon DEF FiledInv
  <2>2. ASSUME NEW h \in Handle, mem[h] = NONE, mem' = [mem EXCEPT ![h] = req], sad' = sad
        PROVE  [Abs!Next]_Table
    <3>1. \A k \in Key : sad[k] # h
      BY <2>1, <2>2, NoneAssumption, Zenon
    <3>2. \A g \in Handle : g # h => mem'[g] = mem[g]
      BY <1>1, <2>2, Zenon DEF TypeOK
    <3> QED BY <2>2, <3>1, <3>2, OffTableRefines, Zenon
  <2> QED BY <1>2, <2>2, RefuseRefines, Zenon DEF AllocSa
<1>3. CASE CreateSession \/ InitIpsecSa
  <2>1. pc \in {"session", "init"}
    BY <1>3, Zenon DEF CreateSession, InitIpsecSa
  <2>2. fresh # NONE /\ fresh \in Handle
    BY <1>1, <2>1, Zenon DEF TypeOK, Building
  <2>3. sad' = sad /\ \A g \in Handle : g # fresh => mem'[g] = mem[g]
    BY <1>1, <1>3, <2>2, Zenon DEF CreateSession, InitIpsecSa, Abandon, FreeSa, TypeOK
  <2>4. \A k \in Key : sad[k] # NONE => \E s \in Slot : sas[s] = sad[k]
    BY <1>1, <2>1, Zenon DEF FiledInv
  <2>5. \A s \in Slot : sas[s] # fresh
    BY <1>1, <2>2, Zenon DEF HeapInv
  <2>6. \A k \in Key : sad[k] # fresh
    BY ONLY <2>2, <2>4, <2>5, Zenon
  <2> QED BY <2>3, <2>6, OffTableRefines, Zenon
<1>4. CASE TakeSlot
  <2>1. CASE old = NONE /\ UNCHANGED mem
    BY <1>4, <2>1, TableFrame, Zenon DEF TakeSlot
  <2>2. CASE old # NONE /\ FreeSa(old)
    <3>1. pc = "own" /\ sad' = sad
      BY <1>4, Zenon DEF TakeSlot
    <3>2. old \in Handle /\ slot \in Slot /\ lookup \in Key
      BY <1>1, <2>2, <3>1, Zenon DEF TypeOK
    <3>3. KeyOf(mem[old]) = lookup /\ sad[lookup] = fresh /\ sas[slot] = old
      BY <1>1, <2>2, <3>1, Zenon DEF CallInv
    <3>4. old # fresh
      BY <1>1, <2>2, <3>2, <3>3, Zenon DEF HeapInv
    <3>5. \A k \in Key : sad[k] # NONE => KeyOf(mem[sad[k]]) = k
      BY <1>1, Zenon DEF FiledInv
    <3>6. \A k \in Key : sad[k] # old
      BY ONLY <2>2, <3>3, <3>4, <3>5, Zenon
    <3>7. \A g \in Handle : g # old => mem'[g] = mem[g]
      BY <1>1, <2>2, Zenon DEF FreeSa, TypeOK
    <3> QED BY <3>1, <3>6, <3>7, OffTableRefines, Zenon
  <2> QED BY <1>4, <2>1, <2>2, Zenon DEF TakeSlot
<1> QED BY <1>2, <1>3, <1>4, Zenon

\* dp_ipsec_delete_sa() removes one association from the table, or none.
LEMMA DeleteRefines == ASSUME IInv, NEW id \in SaSpec, DeleteSa(id) PROVE [Abs!Next]_Table
<1>1. CASE Refuse("IPSEC_DISABLED") \/ Refuse("SA_NOT_FOUND")
  BY <1>1, RefuseRefines, Zenon
<1>2. ASSUME NEW h, h = FindSa(id), h # NONE, sad' = [sad EXCEPT ![KeyOf(id)] = NONE], FreeSa(h)
      PROVE  [Abs!Next]_Table
  <2> USE <1>2 DEF IInv
  <2>1. KeyOf(id) \in Key /\ sad[KeyOf(id)] = h /\ h \in Handle
    BY FoundFacts, Zenon
  <2>2. \A k \in Key : sad'[k] = IF k = KeyOf(id) THEN NONE ELSE sad[k]
    BY <2>1, Zenon DEF TypeOK
  <2>3. \A k \in Key : k # KeyOf(id) /\ sad[k] # NONE =>
          sad[k] # h /\ mem[sad[k]] # mem[h] /\ mem'[sad[k]] = mem[sad[k]]
    <3> SUFFICES ASSUME NEW k \in Key, k # KeyOf(id), sad[k] # NONE
                 PROVE  sad[k] # h /\ mem[sad[k]] # mem[h] /\ mem'[sad[k]] = mem[sad[k]]
      OBVIOUS
    <3>1. KeyOf(mem[sad[k]]) = k /\ KeyOf(mem[h]) = KeyOf(id)
      BY <2>1, Zenon DEF FiledInv
    <3>2. sad[k] # h /\ mem[sad[k]] # mem[h]
      BY ONLY <3>1, k # KeyOf(id), Zenon
    <3>3. sad[k] \in Handle
      BY Zenon DEF TypeOK
    <3>4. mem'[sad[k]] = mem[sad[k]]
      BY <3>2, <3>3, Zenon DEF FreeSa, TypeOK
    <3> QED BY <3>2, <3>4, Zenon
  <2>4. Table' = Table \ {mem[h]}
    <3>1. h # NONE
      BY <1>2, Zenon
    <3> HIDE <1>2 DEF IInv
    <3>2. ASSUME NEW x \in Table' PROVE x \in Table /\ x # mem[h]
      <4>1. PICK k \in Key : sad'[k] # NONE /\ x = mem'[sad'[k]]
        BY <3>2, Zenon DEF Table
      <4>2. k # KeyOf(id) /\ sad'[k] = sad[k] /\ sad[k] # NONE
        BY <2>2, <4>1, Zenon
      <4> QED BY <2>3, <4>1, <4>2, Zenon DEF Table
    <3>3. ASSUME NEW x \in Table, x # mem[h] PROVE x \in Table'
      <4>1. PICK k \in Key : sad[k] # NONE /\ x = mem[sad[k]]
        BY <3>3, Zenon DEF Table
      <4>2. k # KeyOf(id)
        BY <2>1, <3>3, <4>1, Zenon
      <4>3. sad'[k] = sad[k] /\ mem'[sad[k]] = mem[sad[k]]
        BY <2>2, <2>3, <4>1, <4>2, Zenon
      <4> QED BY <4>1, <4>3, Zenon DEF Table
    <3> QED BY <3>2, <3>3, Zenon
  <2>5. mem[h] \in Table
    BY <2>1, Zenon DEF Table
  <2> QED BY <2>4, <2>5, Zenon DEF Abs!Next, Abs!Delete
<1> QED BY <1>1, <1>2, Zenon DEF DeleteSa

\* The SA database of dp_ipsec.c implements the abstract table, step by step.
THEOREM Refinement == Spec => ImplementsSaTable
<1>1. Init => Abs!Init
  BY Zenon DEF Init, Abs!Init, Table
<1>2. IInv /\ [Next]_vars => [Abs!Next]_Table
  <2> SUFFICES ASSUME IInv, [Next]_vars PROVE [Abs!Next]_Table
    OBVIOUS
  <2>1. CASE UNCHANGED vars
    BY <2>1, TableFrame, Zenon DEF vars, dbVars
  <2>2. ASSUME NEW r \in Sa, CreateSa(r) PROVE [Abs!Next]_Table
    BY <2>2, RefuseRefines, StartRefines, Zenon DEF CreateSa
  <2>3. ASSUME NEW id \in SaSpec, NEW p \in Number, NEW w \in ReplayWindow, NEW k \in KeyMaterial,
               UpdateSa(id, p, w, k)
        PROVE  [Abs!Next]_Table
    BY <2>3, RefuseRefines, StartRefines, Zenon DEF UpdateSa
  <2>4. ASSUME NEW id \in SaSpec, GetSa(id) PROVE [Abs!Next]_Table
    BY <2>4, RefuseRefines, Zenon DEF GetSa
  <2>5. CASE Shutdown
    <3>1. Table' = {}
      BY <2>5, Zenon DEF Shutdown, Table
    <3> QED BY <3>1, Zenon DEF Abs!Next, Abs!Shutdown
  <2> QED BY <2>1, <2>2, <2>3, <2>4, <2>5, BuildRefines, AddRefines, DeleteRefines, Zenon DEF Next
<1> QED BY <1>1, <1>2, Inductive, PTL DEF Spec, ImplementsSaTable, Abs!Spec
===============================================================================
