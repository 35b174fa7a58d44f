------------------------------- MODULE Maglev -------------------------------
(***************************************************************************)
(* The Maglev lookup table of a load balancer: dp_maglev.c.                *)
(*                                                                         *)
(* Every backend has a preference list over the LookupSize slots of the    *)
(* table, given by two hashes of its address.  The backends take turns,    *)
(* each claiming the first slot of its list that is still free, until the  *)
(* table is full.  A slot holds the index of a backend in the list of      *)
(* addresses, which is kept in ascending order.                            *)
(***************************************************************************)
EXTENDS Integers, Sequences

CONSTANTS
  LookupSize,   \* DP_LB_MAGLEV_LOOKUP_SIZE: 503, a prime
  Backend,      \* addresses of backends, as the numbers they compare by
  Murmur, Djb   \* address -> its two hashes

ASSUME MaglevAssumption ==
  /\ LookupSize \in Nat /\ LookupSize > 1
  /\ Backend \subseteq Nat
  /\ Murmur \in [Backend -> Nat] /\ Djb \in [Backend -> Nat]

Slot == 0 .. LookupSize - 1
POS_FREE == -1  \* DP_MAGLEV_POS_FREE

(* dp_maglev_permutation(), one entry.                                     *)
permutation(b, j) ==
  LET offset == Murmur[b] % LookupSize
      skip   == (Djb[b] % (LookupSize - 1)) + 1
  IN  (offset + j * skip) % LookupSize

(* One turn of dp_maglev_populate_iteration(): backend number i claims the *)
(* next slot of its list that nobody has, if its list has one left.        *)
populate_turn(ips, t, i) ==
  LET open == {j \in t.next[i] .. LookupSize - 1 :
                 t.hash[permutation(ips[i], j)] = POS_FREE}
  IN  IF open = {}
      THEN [hash |-> t.hash, next |-> [t.next EXCEPT ![i] = LookupSize], num |-> t.num]
      ELSE LET j == CHOOSE j \in open : \A l \in open : j <= l
           IN  [hash |-> [t.hash EXCEPT ![permutation(ips[i], j)] = i - 1],
                next |-> [t.next EXCEPT ![i] = j + 1],
                num  |-> t.num + 1]

(* The rounds of dp_maglev_populate(), turn by turn; a table that is full  *)
(* stays as it is.  LookupSize rounds are enough for every turn a backend  *)
(* can use.                                                                *)
populate_rounds(ips) ==
  LET turns[n \in 0 .. Len(ips) * LookupSize] ==
        IF n = 0
        THEN [hash |-> [s \in Slot |-> POS_FREE],
              next |-> [i \in DOMAIN ips |-> 0],
              num  |-> 0]
        ELSE LET t == turns[n - 1]
             IN  IF t.num = LookupSize THEN t
                 ELSE populate_turn(ips, t, ((n - 1) % Len(ips)) + 1)
  IN  turns[Len(ips) * LookupSize]

(* dp_maglev_populate(), with the slots nobody claimed filled in the end.  *)
calc_hash_lookup_table(ips) ==
  LET t == populate_rounds(ips)
  IN  [s \in Slot |-> IF t.hash[s] = POS_FREE THEN s % Len(ips) ELSE t.hash[s]]

(* Mutant: the address goes to the end. *)
InsertLast(ips, b) == Append(ips, b)

(* dp_add_maglev_backend(): the position before the first greater address. *)
InsertSorted(ips, b) ==
  LET n == CHOOSE m \in 0 .. Len(ips) :
             /\ \A i \in 1 .. m : ips[i] <= b
             /\ m < Len(ips) => ips[m + 1] > b
  IN  SubSeq(ips, 1, n) \o <<b>> \o SubSeq(ips, n + 1, Len(ips))

(* dp_delete_maglev_backend(): the addresses after it move down.           *)
RemoveSorted(ips, b) ==
  LET n == CHOOSE i \in DOMAIN ips : ips[i] = b
  IN  SubSeq(ips, 1, n - 1) \o SubSeq(ips, n + 1, Len(ips))

=============================================================================
