------------------------------- MODULE IpsecSad -------------------------------
(***************************************************************************)
(* The Security Association database of src/src/dp_ipsec.c: the SAD (a     *)
(* hash table of librte_ipsec, external), the array dp_ipsec_sas[] of      *)
(* owning references, the associations on the heap and the crypto session  *)
(* pool, together with the four gRPC requests that work on them.           *)
(*                                                                         *)
(* Requests are processed one at a time by the rx_periodic source node of  *)
(* the only graph worker, so nothing interleaves with a request.  Create   *)
(* and Update are nevertheless cut at every call that can fail, so that    *)
(* the order of allocation, publication and release, and every clean-up    *)
(* path, are visible: pc names the call that comes next and every other    *)
(* action waits for pc = "idle".                                           *)
(*                                                                         *)
(* Key, salt, algorithm and ESN flag are one opaque value (KeyMaterial):   *)
(* the database never looks inside.  An algorithm outside the table is     *)
(* refused by the gRPC conversion before it gets here.                     *)
(***************************************************************************)
EXTENDS Naturals

CONSTANTS
  Number,         \* 32-bit values; VNIs and SPIs share the key space of the SAD
  Prefix,         \* upper halves of underlay addresses
  Suffix,         \* lower halves of underlay addresses
  ZeroSuffix,     \* the lower half dp_ipsec_build_key() writes
  LocalPrefix,    \* prefix of dp_conf_get_underlay_ip()
  ReplayWindow,   \* window sizes a request may ask for
  DP_IPSEC_REPLAY_WINDOW_MAX,
  KeyMaterial,
  DP_IPSEC_MAX_SA,
  Handle,         \* heap addresses rte_zmalloc() can return for a dp_ipsec_sa
  Session,        \* elements of dp_ipsec_session_pool
  NONE            \* the NULL pointer

ASSUME AddressAssumption == ZeroSuffix \in Suffix /\ LocalPrefix \in Prefix
ASSUME WindowAssumption  == ReplayWindow \subseteq Nat /\ DP_IPSEC_REPLAY_WINDOW_MAX \in Nat
ASSUME SlotAssumption    == DP_IPSEC_MAX_SA \in Nat \ {0}

INGRESS == "INGRESS"
EGRESS  == "EGRESS"

Slot == 0 .. DP_IPSEC_MAX_SA - 1
Addr == [prefix : Prefix, suffix : Suffix]
Key  == [spi : Number, dip : Addr, sip : Addr]

\* dp_ipsec_sa_spec: the five fields that name an association.
SaSpec == [spi : Number, vni : Number, dir : {INGRESS, EGRESS}, src : Addr, dst : Addr]

\* dp_ipsec_sa: what a request asks for and what the heap holds.
Sa == [spi : Number, vni : Number, dir : {INGRESS, EGRESS}, src : Addr, dst : Addr,
       replay_window : ReplayWindow, key : KeyMaterial]

ASSUME NoneAssumption ==
  /\ NONE \notin Handle
  /\ NONE \notin Session
  /\ NONE \notin Sa \cup Key
  /\ NONE \notin Nat

VARIABLES
  up,       \* dp_ipsec_sad is not NULL
  sad,      \* rte_ipsec_sad: the handle filed under each key, NONE if there is none
  sas,      \* dp_ipsec_sas[]
  mem,      \* the dp_ipsec_sa at each heap address, NONE where nothing is allocated
  session,  \* sa->session of each allocated association
  pool,     \* sessions still in dp_ipsec_session_pool
  pc,       \* the next call of the request being processed
  req,      \* the association it asks for
  lookup,   \* local variable key: where the association will be filed
  slot,     \* local variable slot
  fresh,    \* local variable sa / new_sa
  old,      \* local variable old_sa, NONE for a create
  reply     \* code of the last request answered

dbVars   == <<sad, sas, mem, session, pool>>
callVars == <<pc, req, lookup, slot, fresh, old>>
vars     == <<up, dbVars, callVars, reply>>

Code == {"OK", "PENDING", "IPSEC_DISABLED", "SA_BAD_ADDR", "SA_REPLAY_WINDOW", "SA_EXISTS",
         "LIMIT_REACHED", "OUT_OF_MEMORY", "SA_CREATE", "SA_DIRECTION", "SA_NOT_FOUND"}

-------------------------------------------------------------------------------
(* Keys and lookups. *)

Masked(a) == [prefix |-> a.prefix, suffix |-> ZeroSuffix]

BuildKey(lookup_spi, src, dst) == [spi |-> lookup_spi, dip |-> Masked(dst), sip |-> Masked(src)]

\* Both a dp_ipsec_sa and a dp_ipsec_sa_spec carry the fields used here.
LookupSpi(s) == IF s.dir = EGRESS THEN s.vni ELSE s.spi

KeyOf(s) == BuildKey(LookupSpi(s), s.src, s.dst)

LookupOne(s) == sad[KeyOf(s)]

SameIdentity(a, s) == a.dir = s.dir /\ a.vni = s.vni /\ a.spi = s.spi

FindSa(s) ==
  LET h == LookupOne(s) IN IF h # NONE /\ SameIdentity(mem[h], s) THEN h ELSE NONE

IsLocalSideValid(r) == (IF r.dir = EGRESS THEN r.src ELSE r.dst).prefix = LocalPrefix

IsReplayWindowValid(r) ==
  IF r.dir = EGRESS THEN r.replay_window = 0
                    ELSE r.replay_window <= DP_IPSEC_REPLAY_WINDOW_MAX

\* First index of dp_ipsec_sas[] that holds h, DP_IPSEC_MAX_SA if there is none.  Called with
\* NONE it is the scan for a free slot in dp_ipsec_create_sa().
GetSlot(h) ==
  IF \E s \in Slot : sas[s] = h
    THEN CHOOSE s \in Slot : sas[s] = h /\ \A t \in Slot : sas[t] = h => s <= t
    ELSE DP_IPSEC_MAX_SA

-------------------------------------------------------------------------------
(* Building blocks of the actions. *)

Answer(code) ==
  /\ pc' = "idle" /\ req' = NONE /\ lookup' = NONE /\ slot' = NONE
  /\ fresh' = NONE /\ old' = NONE
  /\ reply' = code

\* dp_ipsec_free_sa(h): the session goes back to its pool, the memory is released.
FreeSa(h) ==
  /\ mem' = [mem EXCEPT ![h] = NONE]
  /\ session' = [session EXCEPT ![h] = NONE]
  /\ pool' = pool \cup ({session[h]} \ {NONE})

\* Mutant: an error return that forgets dp_ipsec_free_sa().
AbandonLeaks(code) == Answer(code) /\ UNCHANGED <<up, dbVars>>

Abandon(code) ==
  /\ FreeSa(fresh)
  /\ Answer(code)
  /\ UNCHANGED <<up, sad, sas>>

StartBuild(r, k, s, replaced) ==
  /\ pc' = "alloc" /\ req' = r /\ lookup' = k /\ slot' = s
  /\ fresh' = NONE /\ old' = replaced
  /\ reply' = "PENDING"
  /\ UNCHANGED <<up, dbVars>>

Refuse(code) == Answer(code) /\ UNCHANGED <<up, dbVars>>

-------------------------------------------------------------------------------
(* dp_ipsec_create_sa() and dp_ipsec_update_sa() up to dp_ipsec_build_sa(). *)

\* What the checks of dp_ipsec_create_sa() answer, in the order they are made.
CreateVerdict(r) ==
  IF ~up                               THEN "IPSEC_DISABLED"
  ELSE IF ~IsLocalSideValid(r)         THEN "SA_BAD_ADDR"
  ELSE IF ~IsReplayWindowValid(r)      THEN "SA_REPLAY_WINDOW"
  ELSE IF LookupOne(r) # NONE          THEN "SA_EXISTS"
  ELSE IF GetSlot(NONE) \notin Slot    THEN "LIMIT_REACHED"
  ELSE "PENDING"

CreateSa(r) ==
  /\ pc = "idle"
  /\ \/ /\ CreateVerdict(r) = "PENDING"
        /\ StartBuild(r, KeyOf(r), GetSlot(NONE), NONE)
     \/ /\ CreateVerdict(r) # "PENDING"
        /\ Refuse(CreateVerdict(r))

\* dp_process_update_security_association(): the same name, everything else as asked for.
Replacement(id, new_spi, window, key) ==
  [spi |-> new_spi, vni |-> id.vni, dir |-> id.dir, src |-> id.src, dst |-> id.dst,
   replay_window |-> window, key |-> key]

UpdateVerdict(id, r) ==
  IF ~up                               THEN "IPSEC_DISABLED"
  ELSE IF id.dir # EGRESS              THEN "SA_DIRECTION"
  ELSE IF ~IsLocalSideValid(r)         THEN "SA_BAD_ADDR"
  ELSE IF ~IsReplayWindowValid(r)      THEN "SA_REPLAY_WINDOW"
  ELSE IF FindSa(id) = NONE            THEN "SA_NOT_FOUND"
  ELSE IF GetSlot(FindSa(id)) \notin Slot THEN "SA_NOT_FOUND"
  ELSE "PENDING"

UpdateSa(id, new_spi, window, key) ==
  LET r == Replacement(id, new_spi, window, key) IN
  /\ pc = "idle"
  /\ \/ /\ UpdateVerdict(id, r) = "PENDING"
        /\ StartBuild(r, KeyOf(id), GetSlot(FindSa(id)), FindSa(id))
     \/ /\ UpdateVerdict(id, r) # "PENDING"
        /\ Refuse(UpdateVerdict(id, r))

-------------------------------------------------------------------------------
(* dp_ipsec_build_sa(): memory, crypto session, librte_ipsec state. *)

AllocSa ==
  /\ pc = "alloc"
  /\ \/ \E h \in Handle :
          /\ mem[h] = NONE
          /\ mem' = [mem EXCEPT ![h] = req]
          /\ fresh' = h
          /\ pc' = "session"
          /\ UNCHANGED <<up, sad, sas, session, pool, req, lookup, slot, old, reply>>
     \/ Refuse("OUT_OF_MEMORY")

\* rte_cryptodev_sym_session_create() fails on an empty pool, and may fail in the driver.
CreateSession ==
  /\ pc = "session"
  /\ \/ \E x \in pool :
          /\ pool' = pool \ {x}
          /\ session' = [session EXCEPT ![fresh] = x]
          /\ pc' = "init"
          /\ UNCHANGED <<up, sad, sas, mem, req, lookup, slot, fresh, old, reply>>
     \/ Abandon("SA_CREATE")

\* Mutant: the addresses stay as they were asked for.
StoredAsAsked(r) == r

\* What is stored is what is matched: the addresses become the masked ones.
Stored(r) == [r EXCEPT !.src = Masked(r.src), !.dst = Masked(r.dst)]

InitIpsecSa ==
  /\ pc = "init"
  /\ \/ /\ mem' = [mem EXCEPT ![fresh] = Stored(req)]
        /\ pc' = "add"
        /\ UNCHANGED <<up, sad, sas, session, pool, req, lookup, slot, fresh, old, reply>>
     \/ Abandon("SA_CREATE")

-------------------------------------------------------------------------------
(* Publication and ownership. *)

\* rte_ipsec_sad_add() overwrites an existing key; a failure leaves the table alone.
AddToSad ==
  /\ pc = "add"
  /\ \/ /\ sad' = [sad EXCEPT ![lookup] = fresh]
        /\ pc' = "own"
        /\ UNCHANGED <<up, sas, mem, session, pool, req, lookup, slot, fresh, old, reply>>
     \/ Abandon("SA_CREATE")

\* The slot takes the new association; a replaced one is freed.
TakeSlot ==
  /\ pc = "own"
  /\ sas' = [sas EXCEPT ![slot] = fresh]
  /\ \/ old # NONE /\ FreeSa(old)
     \/ old = NONE /\ UNCHANGED <<mem, session, pool>>
  /\ Answer("OK")
  /\ UNCHANGED <<up, sad>>

\* dp_ipsec_delete_sa(); rte_ipsec_sad_del() may report a failure.
DeleteSa(id) ==
  /\ pc = "idle"
  /\ \/ ~up /\ Refuse("IPSEC_DISABLED")
     \/ up /\ Refuse("SA_NOT_FOUND")
     \/ LET h == FindSa(id) IN
        /\ up /\ h # NONE
        /\ sad' = [sad EXCEPT ![KeyOf(id)] = NONE]
        /\ sas' = [s \in Slot |-> IF s = GetSlot(h) THEN NONE ELSE sas[s]]
        /\ FreeSa(h)
        /\ Answer("OK")
        /\ UNCHANGED up

GetSa(id) ==
  /\ pc = "idle"
  /\ \/ ~up /\ Refuse("IPSEC_DISABLED")
     \/ up /\ FindSa(id) = NONE /\ Refuse("SA_NOT_FOUND")
     \/ up /\ FindSa(id) # NONE /\ Refuse("OK")

\* dp_ipsec_free(): every owned association is freed, then the SAD is destroyed.
Owned == {sas[s] : s \in Slot} \ {NONE}

Shutdown ==
  /\ pc = "idle" /\ up
  /\ up' = FALSE
  /\ mem' = [h \in Handle |-> IF h \in Owned THEN NONE ELSE mem[h]]
  /\ session' = [h \in Handle |-> IF h \in Owned THEN NONE ELSE session[h]]
  /\ pool' = pool \cup ({session[h] : h \in Owned} \ {NONE})
  /\ sas' = [s \in Slot |-> NONE]
  /\ sad' = [k \in Key |-> NONE]
  /\ UNCHANGED <<callVars, reply>>

-------------------------------------------------------------------------------

Init ==
  /\ up \in BOOLEAN          \* started with or without --enable-ipsec
  /\ sad = [k \in Key |-> NONE]
  /\ sas = [s \in Slot |-> NONE]
  /\ mem = [h \in Handle |-> NONE]
  /\ session = [h \in Handle |-> NONE]
  /\ pool = Session
  /\ pc = "idle" /\ req = NONE /\ lookup = NONE /\ slot = NONE /\ fresh = NONE /\ old = NONE
  /\ reply = "OK"

Next ==
  \/ \E r \in Sa : CreateSa(r)
  \/ \E id \in SaSpec, new_spi \in Number, w \in ReplayWindow, k \in KeyMaterial :
       UpdateSa(id, new_spi, w, k)
  \/ \E id \in SaSpec : DeleteSa(id) \/ GetSa(id)
  \/ AllocSa \/ CreateSession \/ InitIpsecSa \/ AddToSad \/ TakeSlot
  \/ Shutdown

Spec == Init /\ [][Next]_vars

-------------------------------------------------------------------------------
(* Properties. *)

Building == {"session", "init", "add", "own"}

\* Every variable has its type; the local variables of a request are set exactly while the
\* code that uses them runs.
TypeOK ==
  /\ up \in BOOLEAN
  /\ sad \in [Key -> Handle \cup {NONE}]
  /\ sas \in [Slot -> Handle \cup {NONE}]
  /\ mem \in [Handle -> Sa \cup {NONE}]
  /\ session \in [Handle -> Session \cup {NONE}]
  /\ pool \in SUBSET Session
  /\ pc \in {"idle", "alloc"} \cup Building
  /\ req \in Sa \cup {NONE} /\ (req = NONE <=> pc = "idle")
  /\ lookup \in Key \cup {NONE} /\ (lookup = NONE <=> pc = "idle")
  /\ slot \in Slot \cup {NONE} /\ (slot = NONE <=> pc = "idle")
  /\ fresh \in Handle \cup {NONE} /\ (fresh # NONE <=> pc \in Building)
  /\ old \in Handle \cup {NONE} /\ (pc = "idle" => old = NONE)
  /\ reply \in Code

\* The SAD never points at freed memory, at a half-built association, or at one that a lookup
\* under this key did not ask for.  ipsec_encap and ipsec_decap use what the lookup returns
\* without any check of their own.
PublishedIsLive ==
  \A k \in Key : sad[k] # NONE =>
    /\ mem[sad[k]] # NONE
    /\ KeyOf(mem[sad[k]]) = k
    /\ session[sad[k]] # NONE

\* Every association on the heap has exactly one owner: one slot of dp_ipsec_sas[], or the
\* request that is building it.  None leaks on a failure path and none can be freed twice.
OwnedOnce ==
  \A h \in Handle : mem[h] # NONE =>
    \/ h = fresh /\ \A s \in Slot : sas[s] # h
    \/ h # fresh /\ \E s \in Slot : \A t \in Slot : sas[t] = h <=> t = s

\* Between requests an association is in dp_ipsec_sas[] if and only if the SAD finds it: what
\* dp_ipsec_get_slot() calls impossible is impossible, and whatever is owned can be deleted.
SlotsMatchSad ==
  pc = "idle" =>
    \A h \in Handle : (\E s \in Slot : sas[s] = h) <=> (\E k \in Key : sad[k] = h)

\* A crypto session is in the pool or belongs to exactly one association, never both: none is
\* lost however a request fails.
SessionsConserved ==
  \A x \in Session :
    \/ x \in pool /\ \A h \in Handle : session[h] # x
    \/ x \notin pool /\ \E h \in Handle : mem[h] # NONE /\ \A g \in Handle : session[g] = x <=> g = h

\* A key with this host's prefix on neither side finds nothing.  This is what ipsec_decap_build_key()
\* counts on when it hands the SAD an all-zero key for a frame too short to hold an ESP header.
ZeroKeyMatchesNothing ==
  \A k \in Key : k.sip.prefix # LocalPrefix /\ k.dip.prefix # LocalPrefix => sad[k] = NONE

\* Until rte_ipsec_sad_add() has succeeded the database is what it was before the request: the
\* association to be replaced is still the one the SAD points at and still owned, and nothing is
\* filed where a new one will go.  So a request that fails leaves no trace.
UntouchedUntilAdd ==
  pc \in {"alloc", "session", "init", "add"} =>
    /\ sad[lookup] = old
    /\ sas[slot] = old
    /\ \A h \in Handle : h # fresh /\ mem[h] # NONE => sad[KeyOf(mem[h])] = h

\* The database the users see: the associations the SAD finds.
Table == {mem[sad[k]] : k \in {j \in Key : sad[j] # NONE}}

Abs == INSTANCE SaTable WITH table <- Table

\* The database implements SaTable: no duplicate outbound or inbound association, a replacement
\* in one step, and a failed request that nobody can tell from one never sent.
ImplementsSaTable == Abs!Spec

\* docs/adr/0006 and the comment in dp_ipsec_update_sa(): a host holding the maximum number of
\* associations can still rekey every one of them.  Whenever an update asks for a crypto
\* session there is one in the pool.
UpdateNeverFailsOnCapacity == pc = "session" /\ old # NONE => pool # {}
===============================================================================
