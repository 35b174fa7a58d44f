---------------------------- MODULE HaSyncProofs ----------------------------
(***************************************************************************)
(* The two processes of a host, for any number of flows and any length of a *)
(* channel: one of them handles packets, a standby process sleeps through  *)
(* nothing and has the flows of the active one, and the packets that wait  *)
(* for a process that takes over are flushed to the end.                   *)
(***************************************************************************)
EXTENDS HaSync, RxNode, FiniteSetTheorems, WellFoundedInduction, TLAPS

-----------------------------------------------------------------------------
(* At most one of any number of processes that compete for the lock of the *)
(* active process handles packets, whatever crashes, quits, restarts and   *)
(* messages come between.                                                  *)

(* The inductive invariant: a process that does not stand by has the lock  *)
(* until it ends or is told to quit, also while its worker, which does not *)
(* know yet, is still in the standby loop; and no worker leaves that loop  *)
(* before.                                                                 *)
LockInv ==
  /\ pc \in [Proc -> {"off", "starting", "check", "asleep", "active", "stopping"}]
  /\ standing_by \in [Proc -> BOOLEAN]
  /\ \A p \in Proc : pc[p] \notin {"off", "stopping"} /\ ~standing_by[p] => lockholder = p
  /\ \A p \in Proc : pc[p] \in {"active", "stopping"} => ~standing_by[p]

(* Every step of a process keeps the invariant. *)
LEMMA LockStep == LockInv /\ [HaNext]_haVars => LockInv'
<1> SUFFICES ASSUME LockInv, [HaNext]_haVars PROVE LockInv'
  OBVIOUS
<1>1. CASE UNCHANGED haVars
  BY <1>1, Zenon DEF LockInv, haVars, haWorker
<1>2. ASSUME NEW p \in Proc, UNCHANGED haWorker PROVE LockInv'
  BY <1>2, Zenon DEF LockInv, haWorker
<1>3. ASSUME NEW p \in Proc, Start(p) PROVE LockInv'
  BY <1>3, Zenon DEF LockInv, Start
<1>4. ASSUME NEW p \in Proc, RequestDump(p) PROVE LockInv'
  BY <1>4, Zenon DEF LockInv, RequestDump
<1>5. ASSUME NEW p \in Proc, Acquire(p) PROVE LockInv'
  BY <1>5, NobodyAssumption, Zenon DEF LockInv, Acquire
<1>6. ASSUME NEW p \in Proc, Check(p) PROVE LockInv'
  BY <1>6, Zenon DEF LockInv, Check
<1>7. ASSUME NEW p \in Proc, StandbyWalk(p) PROVE LockInv'
  BY <1>7, Zenon DEF LockInv, StandbyWalk
<1>8. ASSUME NEW p \in Proc, Gone(p) PROVE LockInv'
  BY <1>8, Zenon DEF LockInv, Gone
<1>9. ASSUME NEW p \in Proc, Quit(p) PROVE LockInv'
  BY <1>9, Zenon DEF LockInv, Quit
<1>10. ASSUME NEW p \in Proc, ActiveSync(p) \/ \E o \in Overload : FlowBegins(p, o) \/ FlowAges(p, o)
       PROVE  UNCHANGED haWorker
  BY <1>10, Zenon DEF ActiveSync, FlowBegins, FlowAges
<1>11. CASE HaNext
  BY <1>11, <1>2, <1>3, <1>4, <1>5, <1>6, <1>7, <1>8, <1>9, <1>10, Zenon DEF HaNext, Crash, Exit
<1> QED BY <1>1, <1>11, Zenon

(* Both processes are active at no time: the lock of dp_standby_thread()   *)
(* is taken before the worker leaves its standby loop, and given up only   *)
(* by a worker that ends (dp_force_quit(), flock()).                       *)
THEOREM OneActiveAlways == HaSpec => []OneActive
<1>1. HaInit => LockInv
  BY Zenon DEF HaInit, LockInv
<1>2. LockInv => OneActive
  BY Zenon DEF LockInv, OneActive
<1> QED BY <1>1, <1>2, LockStep, PTL DEF HaSpec

-----------------------------------------------------------------------------
LEMMA LeastNumber ==
  ASSUME NEW T, T \subseteq Nat, T # {}
  PROVE  \E x \in T : \A y \in T : x <= y
<1> DEFINE R == OpToRel(<, Nat)
<1>1. \E x \in T : \A y \in T : <<y, x>> \notin R
  BY NatLessThanWellFounded, WFMin, Zenon
<1>2. \A x, y \in Nat : <<y, x>> \notin R => x <= y
  BY DEF OpToRel
<1> HIDE DEF R
<1> QED
  BY <1>1, <1>2, Zenon

(* What holds at 0 and goes on from each number to the next holds up to    *)
(* any number.                                                             *)
LEMMA StepByStep ==
  ASSUME NEW N \in Nat, NEW T, 0 \in T, \A n \in 1 .. N : n - 1 \in T => n \in T
  PROVE  \A n \in 0 .. N : n \in T
<1> DEFINE Bad == {n \in Nat : n <= N /\ n \notin T}
<1> SUFFICES ASSUME Bad # {} PROVE FALSE
  OBVIOUS
<1>1. PICK n \in Bad : \A m \in Bad : n <= m
  BY LeastNumber, Zenon
<1>2. n \in 1 .. N /\ n - 1 \in Nat /\ n - 1 \notin Bad /\ n - 1 <= N
  BY <1>1
<1> QED BY <1>1, <1>2, Zenon

(* A sequence without one of its elements. *)
AllBut(list, i) == SubSeq(list, 1, i - 1) \o SubSeq(list, i + 1, Len(list))

LEMMA OneRemoved ==
  ASSUME NEW S, NEW list \in Seq(S), NEW i \in 1 .. Len(list)
  PROVE  /\ AllBut(list, i) \in Seq(S) /\ Len(AllBut(list, i)) = Len(list) - 1
         /\ \A k \in 1 .. Len(list) - 1 : k < i => AllBut(list, i)[k] = list[k]
         /\ \A k \in 1 .. Len(list) - 1 : k >= i => AllBut(list, i)[k] = list[k + 1]
<1> DEFINE a == SubSeq(list, 1, i - 1)
           b == SubSeq(list, i + 1, Len(list))
           new == AllBut(list, i)
<1>1. /\ a \in Seq(S) /\ Len(a) = i - 1
      /\ \A k \in 1 .. i - 1 : a[k] = list[k]
  OBVIOUS
<1>2. /\ b \in Seq(S) /\ Len(b) = Len(list) - i
      /\ \A k \in 1 .. Len(list) - i : b[k] = list[k + i]
  OBVIOUS
<1>3. new = a \o b
  BY Zenon DEF AllBut
<1> HIDE DEF a, b, new
<1>4. /\ new \in Seq(S) /\ Len(new) = Len(a) + Len(b)
      /\ \A k \in 1 .. Len(a) : new[k] = a[k]
      /\ \A k \in Len(a) + 1 .. Len(a) + Len(b) : new[k] = b[k - Len(a)]
  <2>1. ASSUME NEW x \in Seq(S), NEW y \in Seq(S)
        PROVE  /\ x \o y \in Seq(S) /\ Len(x \o y) = Len(x) + Len(y)
               /\ \A k \in 1 .. Len(x) : (x \o y)[k] = x[k]
               /\ \A k \in Len(x) + 1 .. Len(x) + Len(y) : (x \o y)[k] = y[k - Len(x)]
    OBVIOUS
  <2>2. a \in Seq(S) /\ b \in Seq(S)
    BY <1>1, <1>2, Zenon
  <2> QED
    BY <1>3, <2>1, <2>2, Zenon
<1>5. new \in Seq(S) /\ Len(new) = Len(list) - 1
  BY <1>1, <1>2, <1>4
<1>6. ASSUME NEW k \in 1 .. Len(list) - 1, k >= i PROVE new[k] = list[k + 1]
  <2>1. /\ k \in Len(a) + 1 .. Len(a) + Len(b) /\ k - Len(a) \in 1 .. Len(list) - i
        /\ (k - Len(a)) + i = k + 1
    BY <1>1, <1>2, <1>6
  <2>2. new[k] = b[k - Len(a)]
    BY <1>4, <2>1, Zenon
  <2>3. b[k - Len(a)] = list[(k - Len(a)) + i]
    BY <1>2, <2>1, Zenon
  <2> QED
    BY <2>1, <2>2, <2>3, Zenon
<1>7. ASSUME NEW k \in 1 .. Len(list) - 1, k < i PROVE new[k] = list[k]
  <2>1. k \in 1 .. Len(a) /\ k \in 1 .. i - 1
    BY <1>1, <1>7
  <2>2. new[k] = a[k]
    BY <1>4, <2>1, Zenon
  <2> QED
    BY <1>1, <2>1, <2>2, Zenon
<1> QED
  BY <1>5, <1>6, <1>7, Zenon DEF new

-----------------------------------------------------------------------------
(* What the standby process knows, for any set of flows, any length of the *)
(* channels and any number of crashes.                                     *)

Flag == {"yes", "no"}
Message == [type : {"create", "delete"}, arg : Overload, slept : Flag]
             \cup [type : {"dump"}, arg : {NOBODY}, slept : Flag]
TablePair == [overload : SUBSET Overload, cnt : Nat]

(* A portmap entry counts no more flows than there are, and if nothing     *)
(* went amiss, all of them.                                                *)
Bounded(t) == t.cnt <= Cardinality(t.overload)
Exact(t) == t.cnt = Cardinality(t.overload)

NoCreates(ms) == \A i \in 1 .. Len(ms) : ms[i].type # "create"

InTime(ms) == \A i \in 1 .. Len(ms) : ms[i].slept = "no"

(* What a process will have once it has read its messages in backup mode. *)
View(q) == Processed(Tables(q), channel[q])

HaTypes ==
  /\ pc \in [Proc -> {"off", "starting", "check", "asleep", "active", "stopping"}]
  /\ overload \in [Proc -> SUBSET Overload] /\ flow_cnt \in [Proc -> Nat]
  /\ \A p \in Proc : Bounded(Tables(p))
  /\ channel \in [Proc -> Seq(Message)]
  /\ \A p \in Proc : pc[p] = "off" => channel[p] = <<>>
  /\ dumped \in [Proc -> {"no", "yes", "outdated"}]
  /\ early \in [Proc -> BOOLEAN] /\ lost \in [Proc -> BOOLEAN]

(* A process that has not left its standby loop. *)
Waiting(p) == pc[p] \in {"starting", "check", "asleep"}

(* The messages that came in a worker's sleep are read at its end. *)
AwakeToAll ==
  \A p \in Proc : pc[p] # "asleep" => InTime(channel[p])

(* A process that waits, of which no message was lost and whose peer has   *)
(* not been replaced, will know no flow that the peer has not; once its    *)
(* request was answered it will know them all.  While both wait, it knows  *)
(* of none.                                                                *)
Follows(q, p) ==
  Waiting(q) /\ ~lost[q] /\ dumped[q] # "outdated" =>
    /\ View(q).overload \subseteq overload[p]
    /\ dumped[q] = "yes" =>
         /\ View(q).overload = overload[p]
         /\ ~early[q] => Exact(View(q))
    /\ Waiting(p) =>
         /\ Tables(q) = EmptyTables /\ NoCreates(channel[q])
         /\ dumped[q] = "yes" => Tables(p) = EmptyTables /\ NoCreates(channel[p])

HaInv ==
  /\ HaTypes
  /\ AwakeToAll /\ SleepMissesNothing
  /\ \A q \in Proc : Follows(q, Peer(q))

-----------------------------------------------------------------------------
(* The tables after each of the messages ms. *)
After(t, ms) ==
  CHOOSE f : f = [n \in 0 .. Len(ms) |-> IF n = 0 THEN t ELSE backup_process(f[n - 1], ms[n])]

Unfolds(f, t, ms) ==
  f[0] = t /\ \A n \in 1 .. Len(ms) : f[n] = backup_process(f[n - 1], ms[n])

(* sync_node_process() takes the messages one after the other: the tables  *)
(* after n of them are those after n - 1, with message n applied.          *)
LEMMA OneByOne ==
  ASSUME NEW t, NEW ms, Len(ms) \in Nat
  PROVE  Unfolds(After(t, ms), t, ms)
<1> DEFINE Begins(f, n) == f = [m \in 0 .. n |-> IF m = 0 THEN t ELSE backup_process(f[m - 1], ms[m])]
           Bad == {n \in Nat : ~ \E f : Begins(f, n)}
<1>1. Bad = {}
  <2> SUFFICES ASSUME Bad # {} PROVE FALSE
    OBVIOUS
  <2>1. PICK n \in Bad : \A m \in Bad : n <= m
    BY LeastNumber, Zenon
  <2>2. CASE n = 0
    <3> DEFINE g == [m \in 0 .. 0 |-> t]
    <3>1. Begins(g, 0)
      OBVIOUS
    <3> QED BY <2>2, <3>1, Zenon
  <2>3. CASE n # 0
    <3>1. n \in Nat /\ n - 1 \in Nat /\ n - 1 \notin Bad
      BY <2>1, <2>3
    <3>2. PICK f : Begins(f, n - 1)
      BY <3>1, Zenon
    <3> DEFINE g == [m \in 0 .. n |-> IF m = n THEN backup_process(f[n - 1], ms[n]) ELSE f[m]]
    <3>3. \A m \in 0 .. n - 1 : g[m] = f[m]
      BY <3>1
    <3>4. \A m \in 0 .. n - 1 : f[m] = IF m = 0 THEN t ELSE backup_process(f[m - 1], ms[m])
      BY <3>2, Zenon
    <3>5. g[n] = backup_process(g[n - 1], ms[n])
      BY <3>1, <3>3
    <3> HIDE DEF g
    <3>6. \A m \in 0 .. n : g[m] = IF m = 0 THEN t ELSE backup_process(g[m - 1], ms[m])
      <4> SUFFICES ASSUME NEW m \in 0 .. n PROVE g[m] = IF m = 0 THEN t ELSE backup_process(g[m - 1], ms[m])
        OBVIOUS
      <4>1. CASE m = n
        BY <4>1, <3>5, <2>3, Zenon
      <4>2. CASE m # n
        <5>1. m \in 0 .. n - 1 /\ (m # 0 => m - 1 \in 0 .. n - 1)
          BY <4>2, <3>1
        <5> QED BY <5>1, <3>3, <3>4, Zenon
      <4> QED BY <4>1, <4>2, Zenon
    <3>7. Begins(g, n)
      BY <3>6, Zenon DEF g
    <3> QED BY <3>7, <2>1, Zenon
  <2> QED BY <2>2, <2>3, Zenon
<1>2. \E f : Begins(f, Len(ms))
  BY <1>1, Zenon
<1>3. After(t, ms) = [n \in 0 .. Len(ms) |-> IF n = 0 THEN t ELSE backup_process(After(t, ms)[n - 1], ms[n])]
  BY <1>2, Zenon DEF After
<1>4. 0 \in 0 .. Len(ms) /\ \A n \in 1 .. Len(ms) : n \in 0 .. Len(ms) /\ n # 0
  OBVIOUS
<1> HIDE DEF Begins
<1> QED BY <1>3, <1>4, Zenon DEF Unfolds

LEMMA AfterAll ==
  ASSUME NEW t, NEW ms
  PROVE  Processed(t, ms) = After(t, ms)[Len(ms)]
  BY Zenon DEF Processed, After

LEMMA Concatenated ==
  ASSUME NEW t, NEW ms \in Seq(Message), NEW ns \in Seq(Message)
  PROVE  Processed(t, ms \o ns) = Processed(Processed(t, ms), ns)
<1> DEFINE both == ms \o ns
           A == After(t, both)
           B == After(t, ms)
           C == After(Processed(t, ms), ns)
<1>1. /\ Len(ms) \in Nat /\ Len(ns) \in Nat /\ Len(both) = Len(ms) + Len(ns)
      /\ \A i \in 1 .. Len(ms) : both[i] = ms[i]
      /\ \A i \in 1 .. Len(ns) : both[Len(ms) + i] = ns[i]
  OBVIOUS
<1> HIDE DEF both
<1>2. Len(both) \in Nat
  BY <1>1
<1>3. /\ A[0] = t /\ \A n \in 1 .. Len(both) : A[n] = backup_process(A[n - 1], both[n])
      /\ B[0] = t /\ \A n \in 1 .. Len(ms) : B[n] = backup_process(B[n - 1], ms[n])
      /\ C[0] = Processed(t, ms) /\ \A n \in 1 .. Len(ns) : C[n] = backup_process(C[n - 1], ns[n])
  <2>1. A[0] = t /\ \A n \in 1 .. Len(both) : A[n] = backup_process(A[n - 1], both[n])
    BY <1>2, OneByOne DEF Unfolds
  <2>2. B[0] = t /\ \A n \in 1 .. Len(ms) : B[n] = backup_process(B[n - 1], ms[n])
    BY <1>1, OneByOne DEF Unfolds
  <2>3. C[0] = Processed(t, ms) /\ \A n \in 1 .. Len(ns) : C[n] = backup_process(C[n - 1], ns[n])
    BY <1>1, OneByOne DEF Unfolds
  <2> QED BY <2>1, <2>2, <2>3, Zenon
<1>4. Processed(t, ms) = B[Len(ms)] /\ Processed(t, both) = A[Len(both)] /\ Processed(Processed(t, ms), ns) = C[Len(ns)]
  BY AfterAll, Zenon
<1> HIDE DEF A, B, C
<1>5. \A n \in 0 .. Len(ms) : A[n] = B[n]
  <2> DEFINE T == {n \in 0 .. Len(ms) : A[n] = B[n]}
  <2>1. 0 \in T
    BY <1>1, <1>3
  <2>2. ASSUME NEW n \in 1 .. Len(ms), n - 1 \in T PROVE n \in T
    <3>1. n \in 1 .. Len(both) /\ n \in 0 .. Len(ms)
      BY <1>1
    <3> QED BY <2>2, <3>1, <1>1, <1>3
  <2> HIDE DEF T
  <2>3. \A n \in 0 .. Len(ms) : n \in T
    BY <1>1, <2>1, <2>2, StepByStep, Zenon
  <2> QED BY <2>3, Zenon DEF T
<1>6. \A n \in 0 .. Len(ns) : A[Len(ms) + n] = C[n]
  <2> DEFINE T == {n \in 0 .. Len(ns) : A[Len(ms) + n] = C[n]}
  <2>1. 0 \in T
    <3>1. Len(ms) + 0 = Len(ms) /\ Len(ms) \in 0 .. Len(ms) /\ 0 \in 0 .. Len(ns)
      BY <1>1
    <3> QED BY <3>1, <1>3, <1>4, <1>5, Zenon
  <2>2. ASSUME NEW n \in 1 .. Len(ns), n - 1 \in T PROVE n \in T
    <3>1. Len(ms) + n \in 1 .. Len(both) /\ n \in 0 .. Len(ns) /\ (Len(ms) + n) - 1 = Len(ms) + (n - 1)
      BY <1>1
    <3>2. A[Len(ms) + (n - 1)] = C[n - 1] /\ both[Len(ms) + n] = ns[n]
      BY <2>2, <1>1, Zenon
    <3>3. A[Len(ms) + n] = backup_process(A[Len(ms) + (n - 1)], both[Len(ms) + n])
      BY <3>1, <1>3, Zenon
    <3> QED BY <3>1, <3>2, <3>3, <1>3, Zenon
  <2> HIDE DEF T
  <2>3. \A n \in 0 .. Len(ns) : n \in T
    BY <1>1, <2>1, <2>2, StepByStep, Zenon
  <2> QED BY <2>3, Zenon DEF T
<1>7. Len(ns) \in 0 .. Len(ns)
  BY <1>1
<1> QED BY <1>1, <1>4, <1>6, <1>7, Zenon DEF both

(* A process that reads nothing keeps what it has, and one message is      *)
(* applied once.                                                           *)
LEMMA NoneAndOne ==
  ASSUME NEW t
  PROVE  /\ Processed(t, <<>>) = t
         /\ \A ms \in Seq(Message) : Len(ms) = 1 => Processed(t, ms) = backup_process(t, ms[1])
<1>1. Len(<<>>) = 0
  OBVIOUS
<1>2. After(t, <<>>)[0] = t
  BY <1>1, OneByOne, Zenon DEF Unfolds
<1>3. ASSUME NEW ms \in Seq(Message), Len(ms) = 1
      PROVE  After(t, ms)[1] = backup_process(t, ms[1])
  <2>1. Len(ms) \in Nat /\ 1 \in 1 .. Len(ms) /\ 1 - 1 = 0
    BY <1>3
  <2>2. After(t, ms)[0] = t /\ After(t, ms)[1] = backup_process(After(t, ms)[1 - 1], ms[1])
    BY <2>1, OneByOne DEF Unfolds
  <2> QED BY <2>1, <2>2, Zenon
<1> QED BY <1>1, <1>2, <1>3, AfterAll, Zenon

(* The flows of a table are finitely many. *)
LEMMA FlowSets ==
  ASSUME NEW S \in SUBSET Overload, NEW o \in Overload
  PROVE  /\ IsFiniteSet(S) /\ Cardinality(S) \in Nat
         /\ S \cup {o} \in SUBSET Overload /\ S \ {o} \in SUBSET Overload
         /\ Cardinality(S \cup {o}) = IF o \in S THEN Cardinality(S) ELSE Cardinality(S) + 1
         /\ Cardinality(S \ {o}) = IF o \in S THEN Cardinality(S) - 1 ELSE Cardinality(S)
         /\ Cardinality(S) = 0 <=> S = {}
<1>1. IsFiniteSet(S)
  BY HaAssumption, FS_Subset, Zenon
<1> QED BY <1>1, FS_CardinalityType, FS_AddElement, FS_RemoveElement, FS_EmptySet, Zenon

(* dp_allocate_sync_snat_port(), dp_delete_snat_entries(): what a message  *)
(* does to the tables.                                                     *)
LEMMA CreateEffect ==
  ASSUME NEW t \in TablePair, Bounded(t), NEW o \in Overload, NEW u, u = sync_create(t, o)
  PROVE  /\ u \in TablePair /\ Bounded(u) /\ u.overload = t.overload \cup {o}
         /\ Exact(t) => Exact(u)
<1>1. t.overload \in SUBSET Overload /\ t.cnt \in Nat
  BY Zenon DEF TablePair
<1>2. t.cnt <= Cardinality(t.overload)
  BY Zenon DEF Bounded
<1>3. CASE t.cnt > 0 /\ o \in t.overload
  <2>1. u = t /\ t.overload = t.overload \cup {o}
    BY <1>3, Zenon DEF sync_create
  <2> QED BY <2>1, Zenon
<1>4. CASE ~(t.cnt > 0 /\ o \in t.overload)
  <2>1. u = [overload |-> t.overload \cup {o}, cnt |-> t.cnt + 1]
    BY <1>4, Zenon DEF sync_create
  <2>2. u.overload = t.overload \cup {o} /\ u.cnt = t.cnt + 1 /\ u \in TablePair
    BY <2>1, <1>1 DEF TablePair
  <2>3. Cardinality(t.overload) \in Nat
        /\ Cardinality(t.overload \cup {o}) = (IF o \in t.overload THEN Cardinality(t.overload) ELSE Cardinality(t.overload) + 1)
        /\ (Cardinality(t.overload) = 0 <=> t.overload = {})
    BY <1>1, FlowSets, Zenon
  <2>4. o \in t.overload => t.cnt = 0 /\ Cardinality(t.overload) > 0
    BY <1>1, <1>4, <2>3
  <2> QED BY <1>1, <1>2, <2>2, <2>3, <2>4 DEF Bounded, Exact
<1> QED BY <1>3, <1>4, Zenon

LEMMA DeleteEffect ==
  ASSUME NEW t \in TablePair, Bounded(t), NEW o \in Overload, NEW u, u = delete_snat_entries(t, o)
  PROVE  /\ u \in TablePair /\ Bounded(u) /\ u.overload = t.overload \ {o}
         /\ o \in t.overload /\ Exact(t) => Exact(u)
         /\ t.overload = {} => t.cnt = 0 /\ u.cnt = 0
<1>1. t.overload \in SUBSET Overload /\ t.cnt \in Nat
  BY Zenon DEF TablePair
<1>2. t.cnt <= Cardinality(t.overload)
  BY Zenon DEF Bounded
<1>3. u = [overload |-> t.overload \ {o}, cnt |-> IF t.cnt = 0 THEN 0 ELSE t.cnt - 1]
  BY Zenon DEF delete_snat_entries
<1>4. u.overload = t.overload \ {o} /\ u.cnt = (IF t.cnt = 0 THEN 0 ELSE t.cnt - 1) /\ u \in TablePair
  BY <1>1, <1>3 DEF TablePair
<1>5. /\ Cardinality(t.overload) \in Nat
      /\ Cardinality(t.overload \ {o}) = (IF o \in t.overload THEN Cardinality(t.overload) - 1 ELSE Cardinality(t.overload))
      /\ (Cardinality(t.overload) = 0 <=> t.overload = {})
  BY <1>1, FlowSets, Zenon
<1>6. o \in t.overload => Cardinality(t.overload) > 0
  BY <1>5
<1> QED BY <1>1, <1>2, <1>4, <1>5, <1>6 DEF Bounded, Exact

(* process_packet() in backup mode. *)
LEMMA MessageEffect ==
  ASSUME NEW t \in TablePair, Bounded(t), NEW m \in Message, NEW u, u = backup_process(t, m)
  PROVE  /\ u \in TablePair /\ Bounded(u)
         /\ m.type = "create" =>
              /\ m.arg \in Overload /\ u.overload = t.overload \cup {m.arg}
              /\ Exact(t) => Exact(u)
         /\ m.type = "delete" =>
              /\ m.arg \in Overload /\ u.overload = t.overload \ {m.arg}
              /\ m.arg \in t.overload /\ Exact(t) => Exact(u)
         /\ m.type = "dump" => u = t
         /\ t = EmptyTables /\ m.type # "create" => u = EmptyTables
<1>1. /\ m.type \in {"create", "delete", "dump"}
      /\ m.type # "dump" => m.arg \in Overload
  BY Zenon DEF Message
<1>2. CASE m.type = "create"
  <2>1. u = sync_create(t, m.arg)
    BY <1>2, Zenon DEF backup_process
  <2> QED BY <1>1, <1>2, <2>1, CreateEffect, Zenon
<1>3. CASE m.type = "delete"
  <2>1. u = delete_snat_entries(t, m.arg)
    BY <1>3, Zenon DEF backup_process
  <2>2. t = EmptyTables => u = EmptyTables
    BY <2>1 DEF EmptyTables, delete_snat_entries
  <2>3. /\ u \in TablePair /\ Bounded(u) /\ u.overload = t.overload \ {m.arg}
        /\ m.arg \in t.overload /\ Exact(t) => Exact(u)
    BY <1>1, <1>3, <2>1, DeleteEffect
  <2> QED BY <1>1, <1>3, <2>2, <2>3, Zenon
<1>4. CASE m.type = "dump"
  BY <1>4, Zenon DEF backup_process
<1> QED BY <1>1, <1>2, <1>3, <1>4, Zenon

LEMMA CreateRead ==
  ASSUME NEW t \in TablePair, Bounded(t), NEW m \in Message, m.type = "create"
  PROVE  /\ backup_process(t, m).overload = t.overload \cup {m.arg}
         /\ Exact(t) => Exact(backup_process(t, m))
  BY MessageEffect

LEMMA DeleteRead ==
  ASSUME NEW t \in TablePair, Bounded(t), NEW m \in Message, m.type = "delete"
  PROVE  /\ backup_process(t, m).overload = t.overload \ {m.arg}
         /\ m.arg \in t.overload /\ Exact(t) => Exact(backup_process(t, m))
  BY MessageEffect, Zenon

(* What a process makes of any messages is tables again; without a flow to *)
(* create, empty tables stay empty.                                        *)
LEMMA MessagesEffect ==
  ASSUME NEW t \in TablePair, Bounded(t), NEW ms \in Seq(Message)
  PROVE  /\ Processed(t, ms) \in TablePair /\ Bounded(Processed(t, ms))
         /\ t = EmptyTables /\ NoCreates(ms) => Processed(t, ms) = EmptyTables
<1> DEFINE A == After(t, ms)
           T == {n \in 0 .. Len(ms) : /\ A[n] \in TablePair /\ Bounded(A[n])
                                      /\ t = EmptyTables /\ NoCreates(ms) => A[n] = EmptyTables}
<1>1. Len(ms) \in Nat /\ \A n \in 1 .. Len(ms) : ms[n] \in Message
  OBVIOUS
<1>2. A[0] = t /\ \A n \in 1 .. Len(ms) : A[n] = backup_process(A[n - 1], ms[n])
  BY <1>1, OneByOne DEF Unfolds
<1>3. Processed(t, ms) = A[Len(ms)]
  BY AfterAll, Zenon
<1> HIDE DEF A
<1>4. 0 \in T
  BY <1>1, <1>2
<1>5. ASSUME NEW n \in 1 .. Len(ms), n - 1 \in T PROVE n \in T
  <2>1. n \in 0 .. Len(ms)
    BY <1>1
  <2>2. /\ A[n - 1] \in TablePair /\ Bounded(A[n - 1])
        /\ t = EmptyTables /\ NoCreates(ms) => A[n - 1] = EmptyTables
    BY <1>5, Zenon
  <2>3. A[n] = backup_process(A[n - 1], ms[n]) /\ ms[n] \in Message
    BY <1>1, <1>2, Zenon
  <2>4. NoCreates(ms) => ms[n].type # "create"
    BY Zenon DEF NoCreates
  <2>5. /\ A[n] \in TablePair /\ Bounded(A[n])
        /\ A[n - 1] = EmptyTables /\ ms[n].type # "create" => A[n] = EmptyTables
    BY <2>2, <2>3, MessageEffect
  <2> QED BY <2>1, <2>2, <2>4, <2>5, Zenon
<1> HIDE DEF T
<1>6. \A n \in 0 .. Len(ms) : n \in T
  BY <1>1, <1>4, <1>5, StepByStep, Zenon
<1>7. Len(ms) \in T
  BY <1>1, <1>6
<1> QED BY <1>3, <1>7, Zenon DEF T

(* Messages about flows alone, as a dump has them, add these flows. *)
LEMMA CreatesEffect ==
  ASSUME NEW t \in TablePair, Bounded(t), NEW ms \in Seq(Message),
         \A i \in 1 .. Len(ms) : ms[i].type = "create"
  PROVE  /\ Processed(t, ms).overload = t.overload \cup {ms[i].arg : i \in 1 .. Len(ms)}
         /\ Exact(t) => Exact(Processed(t, ms))
<1> DEFINE A == After(t, ms)
           T == {n \in 0 .. Len(ms) :
                   /\ A[n] \in TablePair /\ Bounded(A[n])
                   /\ A[n].overload = t.overload \cup {ms[i].arg : i \in 1 .. n}
                   /\ Exact(t) => Exact(A[n])}
<1>1. Len(ms) \in Nat /\ \A n \in 1 .. Len(ms) : ms[n] \in Message
  OBVIOUS
<1>2. A[0] = t /\ \A n \in 1 .. Len(ms) : A[n] = backup_process(A[n - 1], ms[n])
  BY <1>1, OneByOne DEF Unfolds
<1>3. Processed(t, ms) = A[Len(ms)]
  BY AfterAll, Zenon
<1> HIDE DEF A
<1>4. 0 \in T
  <2>1. {ms[i].arg : i \in 1 .. 0} = {} /\ 0 \in 0 .. Len(ms)
    BY <1>1
  <2> QED BY <1>2, <2>1, Zenon
<1>5. ASSUME NEW n \in 1 .. Len(ms), n - 1 \in T PROVE n \in T
  <2> DEFINE Args(k) == {ms[i].arg : i \in 1 .. k}
  <2>1. n \in 0 .. Len(ms)
    BY <1>1
  <2>2. /\ A[n - 1] \in TablePair /\ Bounded(A[n - 1]) /\ A[n - 1].overload = t.overload \cup Args(n - 1)
        /\ Exact(t) => Exact(A[n - 1])
    BY <1>5, Zenon
  <2>3. A[n] = backup_process(A[n - 1], ms[n]) /\ ms[n] \in Message /\ ms[n].type = "create"
    BY <1>1, <1>2, Zenon
  <2>4. /\ A[n] \in TablePair /\ Bounded(A[n])
        /\ A[n].overload = A[n - 1].overload \cup {ms[n].arg}
        /\ Exact(A[n - 1]) => Exact(A[n])
    <3> HIDE DEF Args
    <3>1. A[n - 1] \in TablePair /\ Bounded(A[n - 1])
      BY <2>2, Zenon
    <3>2. A[n] \in TablePair /\ Bounded(A[n])
      BY <3>1, <2>3, MessageEffect
    <3>3. A[n].overload = A[n - 1].overload \cup {ms[n].arg}
      BY <3>1, <2>3, MessageEffect, SMTT(30)
    <3>4. Exact(A[n - 1]) => Exact(A[n])
      BY <3>1, <2>3, MessageEffect, Zenon
    <3> QED BY <3>2, <3>3, <3>4, Zenon
  <2>5. Args(n) = Args(n - 1) \cup {ms[n].arg}
    <3>1. \A i : i \in 1 .. n <=> i \in 1 .. n - 1 \/ i = n
      BY <1>1
    <3> QED BY <3>1, Zenon
  <2>6. A[n].overload = t.overload \cup Args(n)
    <3> HIDE DEF Args
    <3> QED BY <2>2, <2>4, <2>5, Zenon
  <2> QED BY <2>1, <2>2, <2>4, <2>6, Zenon
<1> HIDE DEF T
<1>6. \A n \in 0 .. Len(ms) : n \in T
  BY <1>1, <1>4, <1>5, StepByStep, Zenon
<1>7. Len(ms) \in T
  BY <1>1, <1>6
<1> QED BY <1>3, <1>7, Zenon DEF T

-----------------------------------------------------------------------------
(* A message as it is sent. *)
Sent == [type : {"create", "delete"}, arg : Overload] \cup [type : {"dump"}, arg : {NOBODY}]

LEMMA Peers ==
  ASSUME NEW p \in Proc
  PROVE  /\ Peer(p) \in Proc /\ Peer(p) # p /\ Peer(Peer(p)) = p
         /\ \A r \in Proc : r = p \/ r = Peer(p)
<1>1. PICK a, b \in Proc : a # b /\ Proc = {a, b}
  BY HaAssumption, Zenon
<1>2. \A x \in Proc : Peer(x) \in Proc /\ Peer(x) # x
  BY <1>1, Zenon DEF Peer
<1> QED BY <1>1, <1>2, Zenon

LEMMA Messages ==
  /\ \A o \in Overload : Msg("create", o) \in Sent /\ Msg("delete", o) \in Sent
  /\ \A o \in Overload : Msg("create", o).type = "create" /\ Msg("create", o).arg = o
  /\ \A o \in Overload : Msg("delete", o).type = "delete" /\ Msg("delete", o).arg = o
  /\ Msg("dump", NOBODY) \in Sent /\ Msg("dump", NOBODY).type = "dump"
  BY Zenon DEF Msg, Sent

LEMMA Arrive ==
  ASSUME NEW q \in Proc, NEW ms \in Seq(Sent)
  PROVE  /\ Arriving(q, ms) \in Seq(Message) /\ Len(Arriving(q, ms)) = Len(ms)
         /\ \A i \in 1 .. Len(ms) :
              /\ Arriving(q, ms)[i].type = ms[i].type /\ Arriving(q, ms)[i].arg = ms[i].arg
              /\ pc[q] # "asleep" => Arriving(q, ms)[i].slept = "no"
<1> DEFINE Flagged(m) == [type |-> m.type, arg |-> m.arg, slept |-> IF pc[q] = "asleep" THEN "yes" ELSE "no"]
<1>1. ASSUME NEW m \in Sent
      PROVE  /\ Flagged(m) \in Message /\ Flagged(m).type = m.type /\ Flagged(m).arg = m.arg
             /\ pc[q] # "asleep" => Flagged(m).slept = "no"
  BY Zenon DEF Sent, Message, Flag
<1>2. Len(ms) \in Nat /\ DOMAIN ms = 1 .. Len(ms) /\ \A i \in 1 .. Len(ms) : ms[i] \in Sent
  OBVIOUS
<1>3. Arriving(q, ms) = [i \in 1 .. Len(ms) |-> Flagged(ms[i])]
  BY <1>2, Zenon DEF Arriving
<1> HIDE DEF Flagged
<1>4. \A i \in 1 .. Len(ms) : Arriving(q, ms)[i] = Flagged(ms[i])
  BY <1>3, Zenon
<1>5. Arriving(q, ms) \in Seq(Message) /\ Len(Arriving(q, ms)) = Len(ms)
  BY <1>1, <1>2, <1>3
<1> QED BY <1>1, <1>2, <1>4, <1>5

(* What a process has sent, ns of the messages ms, is in the other's channel. *)
Delivery(q, ch, ms, ns) ==
  /\ channel' \in [Proc -> Seq(Message)] /\ channel'[q] = ch[q] \o ns
  /\ \A r \in Proc : r # q => channel'[r] = ch[r] /\ lost'[r] = lost[r]
  /\ lost' \in [Proc -> BOOLEAN]
  /\ pc[q] = "off" => ns = <<>>
  /\ \A i \in 1 .. Len(ns) :
       /\ pc[q] # "asleep" => ns[i].slept = "no"
       /\ \E j \in 1 .. Len(ms) : ns[i].type = ms[j].type
  /\ pc[q] # "off" /\ ~lost'[q] => ns = Arriving(q, ms) /\ ~lost[q]

(* dp_sync_send_message(): what reaches the other process is the messages, *)
(* or some of them, and then it has lost one.                              *)
LEMMA Delivered ==
  ASSUME HaTypes, NEW p \in Proc, NEW q \in Proc, q = Peer(p), NEW ch \in [Proc -> Seq(Message)],
         NEW ms \in Seq(Sent), HaSend(p, ms, ch)
  PROVE  \E ns \in Seq(Message) : Delivery(q, ch, ms, ns)
<1>0. lost \in [Proc -> BOOLEAN] /\ ch[q] \in Seq(Message)
  BY Zenon DEF HaTypes
<1>1. ASSUME NEW xs \in Seq(Sent), \A i \in 1 .. Len(xs) : \E j \in 1 .. Len(ms) : xs[i] = ms[j],
             channel' = [ch EXCEPT ![q] = @ \o Arriving(q, xs)]
      PROVE  /\ Arriving(q, xs) \in Seq(Message)
             /\ channel' \in [Proc -> Seq(Message)] /\ channel'[q] = ch[q] \o Arriving(q, xs)
             /\ \A r \in Proc : r # q => channel'[r] = ch[r]
             /\ \A i \in 1 .. Len(Arriving(q, xs)) :
                  /\ pc[q] # "asleep" => Arriving(q, xs)[i].slept = "no"
                  /\ \E j \in 1 .. Len(ms) : Arriving(q, xs)[i].type = ms[j].type
  <2>1. /\ Arriving(q, xs) \in Seq(Message) /\ Len(Arriving(q, xs)) = Len(xs)
        /\ \A i \in 1 .. Len(xs) :
             /\ Arriving(q, xs)[i].type = xs[i].type
             /\ pc[q] # "asleep" => Arriving(q, xs)[i].slept = "no"
    BY Arrive, Zenon
  <2> DEFINE ns == Arriving(q, xs)
  <2> HIDE DEF ns
  <2>2. ch[q] \o ns \in Seq(Message)
    BY <1>0, <2>1 DEF ns
  <2>3. channel' = [ch EXCEPT ![q] = ch[q] \o ns]
    BY <1>1, Zenon DEF ns
  <2>4. channel' \in [Proc -> Seq(Message)] /\ channel'[q] = ch[q] \o ns /\ \A r \in Proc : r # q => channel'[r] = ch[r]
    BY <2>2, <2>3, Zenon
  <2>5. \A i \in 1 .. Len(ns) :
          /\ pc[q] # "asleep" => ns[i].slept = "no"
          /\ \E j \in 1 .. Len(ms) : ns[i].type = ms[j].type
    <3>1. Len(ns) = Len(xs) /\ \A i \in 1 .. Len(xs) : ns[i].type = xs[i].type /\ (pc[q] # "asleep" => ns[i].slept = "no")
      BY <2>1, Zenon DEF ns
    <3> QED BY <1>1, <3>1, Zenon
  <2> QED BY <2>1, <2>4, <2>5, Zenon DEF ns
<1>2. CASE pc[q] = "off" /\ channel' = ch /\ UNCHANGED lost
  <2>1. <<>> \in Seq(Message) /\ Len(<<>>) = 0 /\ ch[q] \o <<>> = ch[q]
    BY <1>0
  <2> DEFINE none == <<>>
  <2>2. none \in Seq(Message) /\ none = <<>> /\ channel'[q] = ch[q] \o none /\ 1 .. Len(none) = {}
    BY <1>2, <2>1
  <2> HIDE DEF none
  <2>3. channel' \in [Proc -> Seq(Message)] /\ lost' = lost /\ pc[q] = "off" /\ \A r \in Proc : channel'[r] = ch[r]
    BY <1>2, Zenon
  <2> QED BY <1>0, <2>2, <2>3, Zenon DEF Delivery
<1>3. CASE pc[q] # "off" /\ channel' = [ch EXCEPT ![q] = @ \o Arriving(q, ms)] /\ UNCHANGED lost
  BY <1>0, <1>1, <1>3, Zenon DEF Delivery
<1>4. CASE /\ pc[q] # "off"
           /\ \E i \in DOMAIN ms :
                channel' = [ch EXCEPT ![q] = @ \o Arriving(q, SubSeq(ms, 1, i - 1) \o SubSeq(ms, i + 1, Len(ms)))]
           /\ lost' = [lost EXCEPT ![q] = TRUE]
  <2>1. PICK i \in DOMAIN ms :
          channel' = [ch EXCEPT ![q] = @ \o Arriving(q, SubSeq(ms, 1, i - 1) \o SubSeq(ms, i + 1, Len(ms)))]
    BY <1>4, Zenon
  <2> DEFINE xs == AllBut(ms, i)
  <2>2. xs \in Seq(Sent) /\ \A k \in 1 .. Len(xs) : \E j \in 1 .. Len(ms) : xs[k] = ms[j]
    <3>1. i \in 1 .. Len(ms) /\ Len(ms) \in Nat
      OBVIOUS
    <3> HIDE DEF xs
    <3>2. /\ xs \in Seq(Sent) /\ Len(xs) = Len(ms) - 1
          /\ \A k \in 1 .. Len(ms) - 1 : k < i => xs[k] = ms[k]
          /\ \A k \in 1 .. Len(ms) - 1 : k >= i => xs[k] = ms[k + 1]
      BY <3>1, OneRemoved, Zenon DEF xs
    <3>3. \A k \in 1 .. Len(ms) - 1 : k \in 1 .. Len(ms) /\ k + 1 \in 1 .. Len(ms) /\ (k < i \/ k >= i)
      BY <3>1
    <3> QED BY <3>2, <3>3, Zenon
  <2> HIDE DEF xs
  <2>3. channel' = [ch EXCEPT ![q] = @ \o Arriving(q, xs)]
    BY <2>1, Zenon DEF xs, AllBut
  <2>4. lost' \in [Proc -> BOOLEAN] /\ lost'[q] /\ \A r \in Proc : r # q => lost'[r] = lost[r]
    BY <1>0, <1>4, Zenon
  <2> QED BY <1>0, <1>1, <1>4, <2>2, <2>3, <2>4, Zenon DEF Delivery
<1> QED BY <1>2, <1>3, <1>4, Zenon DEF HaSend

(* dp_synchronize_local_nat_flows(): a dump names the flows there are. *)
LEMMA DumpNamesAll ==
  ASSUME HaTypes, NEW p \in Proc
  PROVE  /\ Dump(p) \in Seq(Sent)
         /\ \A i \in 1 .. Len(Dump(p)) : Dump(p)[i].type = "create"
         /\ {Dump(p)[i].arg : i \in 1 .. Len(Dump(p))} = overload[p]
<1> DEFINE S == overload[p]
           N == Cardinality(S)
           Covers(f) == \A o \in S : \E i \in DOMAIN f : f[i] = o
           order == CHOOSE f \in [1 .. N -> S] : Covers(f)
<1>1. S \in SUBSET Overload /\ IsFiniteSet(S)
  <2>1. S \in SUBSET Overload
    BY Zenon DEF HaTypes
  <2> QED BY <2>1, HaAssumption, FS_Subset, Zenon
<1>2. N \in Nat /\ \E f \in [1 .. N -> S] : \A o \in S : \E i \in 1 .. N : f[i] = o
  BY <1>1, FS_CardinalityType DEF ExistsBijection, Bijection, Surjection
<1>3. order \in [1 .. N -> S] /\ \A o \in S : \E i \in 1 .. N : order[i] = o
  <2>1. \E f \in [1 .. N -> S] : Covers(f)
    BY <1>2, Zenon
  <2>2. order \in [1 .. N -> S] /\ Covers(order)
    BY <2>1, Zenon
  <2> QED BY <2>2, Zenon
<1>4. Dump(p) = [i \in 1 .. N |-> Msg("create", order[i])]
  <2>1. Dump(p) = [i \in DOMAIN order |-> Msg("create", order[i])]
    BY Zenon DEF Dump
  <2> HIDE DEF order
  <2> QED BY <2>1, <1>3, Zenon
<1> HIDE DEF order, N
<1>5. \A i \in 1 .. N : order[i] \in S /\ order[i] \in Overload /\ Dump(p)[i] = Msg("create", order[i])
  BY <1>1, <1>3, <1>4, Zenon
<1>6. Dump(p) \in Seq(Sent) /\ Len(Dump(p)) = N
  <2>1. \A i \in 1 .. N : Msg("create", order[i]) \in Sent
    BY <1>5, Messages, Zenon
  <2> QED BY <1>2, <1>4, <2>1
<1>7. \A i \in 1 .. N : Dump(p)[i].type = "create" /\ Dump(p)[i].arg = order[i]
  BY <1>5, Messages
<1> HIDE DEF S
<1>8. {Dump(p)[i].arg : i \in 1 .. N} = S
  BY <1>3, <1>5, <1>7
<1> QED BY <1>6, <1>7, <1>8, Zenon DEF S

-----------------------------------------------------------------------------
LEMMA TablesTyped ==
  ASSUME HaTypes, NEW q \in Proc
  PROVE  /\ Tables(q) \in TablePair /\ Bounded(Tables(q))
         /\ Tables(q).overload = overload[q] /\ Tables(q).cnt = flow_cnt[q]
         /\ channel[q] \in Seq(Message)
         /\ View(q) \in TablePair /\ Bounded(View(q))
         /\ Tables(q) = EmptyTables /\ NoCreates(channel[q]) => View(q) = EmptyTables
         /\ overload[q] = {} => Tables(q) = EmptyTables
<1>1. /\ Tables(q) \in TablePair /\ Bounded(Tables(q))
      /\ Tables(q).overload = overload[q] /\ Tables(q).cnt = flow_cnt[q]
      /\ channel[q] \in Seq(Message)
  BY Zenon DEF HaTypes, Tables, TablePair
<1>2. overload[q] = {} => Tables(q) = EmptyTables
  <2> SUFFICES ASSUME overload[q] = {} PROVE flow_cnt[q] = 0
    BY Zenon DEF Tables, EmptyTables
  <2>1. flow_cnt[q] <= Cardinality(overload[q]) /\ flow_cnt[q] \in Nat
    BY <1>1, Zenon DEF Bounded, HaTypes
  <2> QED BY <2>1, FS_EmptySet
<1> QED BY <1>1, <1>2, MessagesEffect, Zenon DEF View

LEMMA NothingIsExact == EmptyTables.overload = {} /\ Exact(EmptyTables)
  BY FS_EmptySet, Zenon DEF EmptyTables, Exact

(* A step that touches neither the follower's tables and messages nor what *)
(* the other has.                                                          *)
LEMMA FollowsStays ==
  ASSUME NEW q \in Proc, NEW p \in Proc, Follows(q, p),
         Waiting(q)' => Waiting(q), Tables(q)' = Tables(q), channel'[q] = channel[q],
         lost'[q] = lost[q], dumped'[q] = dumped[q], early'[q] = early[q],
         Tables(p)' = Tables(p),
         Waiting(p)' => Waiting(p) /\ (NoCreates(channel[p]) => NoCreates(channel'[p]))
  PROVE  Follows(q, p)'
<1>1. View(q)' = View(q)
  BY Zenon DEF View
<1>2. overload'[p] = overload[p]
  <2>1. Tables(p)'.overload = overload'[p] /\ Tables(p).overload = overload[p]
    BY Zenon DEF Tables
  <2> QED BY <2>1, Zenon
<1> QED BY <1>1, <1>2, Zenon DEF Follows

LEMMA Together ==
  ASSUME NEW p \in Proc, HaTypes', AwakeToAll', SleepMissesNothing',
         Follows(p, Peer(p))', Follows(Peer(p), p)'
  PROVE  HaInv'
<1>1. ASSUME NEW r \in Proc PROVE Follows(r, Peer(r))'
  BY Peers, Zenon
<1> QED BY <1>1, Zenon DEF HaInv

(* A process starts with nothing; the other follows it only if it knows of *)
(* nothing either.                                                         *)
LEMMA StartKeeps ==
  ASSUME HaInv, NEW p \in Proc, Start(p)
  PROVE  HaInv'
<1> DEFINE q == Peer(p)
<1>0. HaTypes /\ AwakeToAll /\ SleepMissesNothing /\ Follows(q, p)
  BY Peers, Zenon DEF HaInv
<1>1. q \in Proc /\ q # p
  BY Peers, Zenon
<1> HIDE DEF q
<1>2. /\ pc[p] = "off" /\ pc' = [pc EXCEPT ![p] = "starting"] /\ channel' = channel /\ missed' = missed
      /\ overload' = [overload EXCEPT ![p] = {}] /\ flow_cnt' = [flow_cnt EXCEPT ![p] = 0]
      /\ dumped' = [dumped EXCEPT ![p] = "no", ![q] =
           IF Tables(q) # EmptyTables \/ channel[q] # <<>> THEN "outdated" ELSE @]
      /\ early' = [early EXCEPT ![p] = FALSE] /\ lost' = [lost EXCEPT ![p] = FALSE]
  BY Zenon DEF Start, q
<1>3. channel[p] = <<>>
  BY <1>0, <1>2, Zenon DEF HaTypes
<1>4. /\ pc'[p] = "starting" /\ pc'[q] = pc[q] /\ overload'[p] = {} /\ flow_cnt'[p] = 0
      /\ overload'[q] = overload[q] /\ flow_cnt'[q] = flow_cnt[q]
      /\ dumped'[p] = "no" /\ (Tables(q) # EmptyTables \/ channel[q] # <<>> => dumped'[q] = "outdated")
      /\ dumped'[q] \in {dumped[q], "outdated"} /\ lost'[q] = lost[q] /\ early'[q] = early[q]
  BY <1>0, <1>1, <1>2, Zenon DEF HaTypes
<1>5. Tables(p)' = EmptyTables /\ Tables(q)' = Tables(q)
  BY <1>4, Zenon DEF Tables, EmptyTables
<1>6. /\ pc' \in [Proc -> {"off", "starting", "check", "asleep", "active", "stopping"}]
      /\ overload' \in [Proc -> SUBSET Overload] /\ flow_cnt' \in [Proc -> Nat]
      /\ channel' \in [Proc -> Seq(Message)]
      /\ dumped' \in [Proc -> {"no", "yes", "outdated"}]
      /\ early' \in [Proc -> BOOLEAN] /\ lost' \in [Proc -> BOOLEAN]
  BY <1>0, <1>1, <1>2, Zenon DEF HaTypes
<1>7. HaTypes'
  <2>1. Bounded(Tables(p)') /\ Bounded(Tables(q)')
    <3>1. Bounded(EmptyTables)
      BY FS_EmptySet DEF EmptyTables, Bounded
    <3>2. Bounded(Tables(q))
      BY <1>0, <1>1, Zenon DEF HaTypes
    <3> QED BY <1>5, <3>1, <3>2, Zenon
  <2>2. \A r \in Proc : r = p \/ r = q
    BY Peers, Zenon DEF q
  <2>3. \A r \in Proc : Bounded(Tables(r))'
    BY <2>1, <2>2, Zenon
  <2>4. \A r \in Proc : pc'[r] = "off" => channel'[r] = <<>>
    BY <1>0, <1>2, <1>3, Zenon DEF HaTypes
  <2> QED BY <1>6, <2>3, <2>4, Zenon DEF HaTypes
<1>8. AwakeToAll'
  <2>1. \A r \in Proc : pc'[r] # "asleep" => pc[r] # "asleep"
    BY <1>0, <1>2, Zenon DEF HaTypes
  <2> QED BY <1>0, <1>2, <2>1, Zenon DEF AwakeToAll
<1>9. Follows(p, q)'
  <2>1. View(p)' = EmptyTables
    BY <1>2, <1>3, <1>5, NoneAndOne, Zenon DEF View
  <2>2. NoCreates(<<>>)
    BY DEF NoCreates
  <2> QED BY <1>2, <1>3, <1>4, <1>5, <2>1, <2>2, NothingIsExact, Zenon DEF Follows
<1>10. Follows(q, p)'
  <2> SUFFICES ASSUME dumped'[q] # "outdated" PROVE Follows(q, p)'
    BY Zenon DEF Follows
  <2>1. Tables(q) = EmptyTables /\ channel[q] = <<>>
    BY <1>4, Zenon
  <2>2. View(q)' = EmptyTables
    BY <1>2, <1>5, <2>1, NoneAndOne, Zenon DEF View
  <2>3. NoCreates(<<>>)
    BY DEF NoCreates
  <2> QED BY <1>2, <1>3, <1>4, <1>5, <2>1, <2>2, <2>3, NothingIsExact, Zenon DEF Follows
<1> QED BY <1>0, <1>2, <1>7, <1>8, <1>9, <1>10, Together, Zenon DEF q, SleepMissesNothing

(* Steps that send nothing and leave the tables alone: the lock changes    *)
(* hands, the worker goes on in its loop or out of it, and a process ends, *)
(* of whatever kind the end is.                                            *)
LEMMA WorkerKeeps ==
  ASSUME HaInv, NEW p \in Proc, Acquire(p) \/ Check(p) \/ Gone(p) \/ Quit(p)
  PROVE  HaInv'
<1> DEFINE q == Peer(p)
<1>0. HaTypes /\ AwakeToAll /\ SleepMissesNothing /\ Follows(q, p) /\ Follows(p, q)
  BY Peers, Zenon DEF HaInv
<1>1. q \in Proc /\ q # p
  BY Peers, Zenon
<1> HIDE DEF q
<1>2. /\ overload' = overload /\ flow_cnt' = flow_cnt /\ dumped' = dumped /\ early' = early /\ lost' = lost
      /\ missed' = missed
      /\ channel' = channel \/ (pc'[p] = "off" /\ channel' = [channel EXCEPT ![p] = <<>>])
      /\ pc' \in [Proc -> {"off", "starting", "check", "asleep", "active", "stopping"}]
      /\ pc'[q] = pc[q]
      /\ Waiting(p)' => Waiting(p)
      /\ pc'[p] = "off" => channel'[p] = <<>>
      /\ channel'[p] # <<>> => pc[p] # "asleep" \/ pc'[p] = "asleep"
  <2>0. /\ pc \in [Proc -> {"off", "starting", "check", "asleep", "active", "stopping"}]
        /\ channel \in [Proc -> Seq(Message)]
        /\ pc[p] = "off" => channel[p] = <<>>
    BY <1>0, Zenon DEF HaTypes
  <2>1. CASE Acquire(p)
    BY <2>0, <2>1, <1>1, Zenon DEF Acquire, haTables, Waiting
  <2>2. CASE Check(p)
    BY <2>0, <2>2, <1>1, Zenon DEF Check, haTables, Waiting
  <2>3. CASE Gone(p)
    BY <2>0, <2>3, <1>1, Zenon DEF Gone, haTables, Waiting
  <2>4. CASE Quit(p)
    BY <2>0, <2>4, <1>1, Zenon DEF Quit, haTables, Waiting
  <2> QED BY <2>1, <2>2, <2>3, <2>4, Zenon
<1>3. channel' \in [Proc -> Seq(Message)] /\ channel'[q] = channel[q] /\ channel'[p] \in {channel[p], <<>>}
  <2>1. <<>> \in Seq(Message) /\ channel \in [Proc -> Seq(Message)]
    BY <1>0 DEF HaTypes
  <2> QED BY <2>1, <1>1, <1>2, Zenon
<1>4. Tables(p)' = Tables(p) /\ Tables(q)' = Tables(q) /\ \A r \in Proc : Tables(r)' = Tables(r)
  BY <1>2, Zenon DEF Tables
<1>5. \A r \in Proc : r = p \/ r = q
  BY Peers, Zenon DEF q
<1>6. HaTypes'
  <2>1. \A r \in Proc : Bounded(Tables(r))'
    BY <1>0, <1>4, Zenon DEF HaTypes
  <2>2. \A r \in Proc : pc'[r] = "off" => channel'[r] = <<>>
    BY <1>0, <1>2, <1>3, <1>5, Zenon DEF HaTypes
  <2> QED BY <1>0, <1>2, <1>3, <2>1, <2>2, Zenon DEF HaTypes
<1>7. AwakeToAll'
  <2>1. InTime(<<>>)
    BY DEF InTime
  <2>2. ASSUME pc'[q] # "asleep" PROVE InTime(channel'[q])
    BY <2>2, <1>0, <1>1, <1>2, <1>3, Zenon DEF AwakeToAll
  <2>3. ASSUME pc'[p] # "asleep" PROVE InTime(channel'[p])
    <3>1. CASE channel'[p] = <<>>
      BY <2>1, <3>1, Zenon
    <3>2. CASE channel'[p] # <<>>
      BY <2>3, <3>2, <1>0, <1>2, <1>3, Zenon DEF AwakeToAll
    <3> QED BY <3>1, <3>2, Zenon
  <2> QED BY <1>5, <2>2, <2>3, Zenon DEF AwakeToAll
<1>8. NoCreates(<<>>)
  BY DEF NoCreates
<1>9. Follows(p, q)'
  <2>1. CASE channel' = channel
    <3>1. Waiting(q)' => Waiting(q)
      BY <1>2, Zenon DEF Waiting
    <3> QED BY <1>0, <1>1, <1>2, <1>4, <2>1, <3>1, FollowsStays, Zenon
  <2>2. CASE pc'[p] = "off"
    BY <2>2, Zenon DEF Follows, Waiting
  <2> QED BY <1>2, <2>1, <2>2, Zenon
<1>10. Follows(q, p)'
  <2>1. Waiting(q)' => Waiting(q)
    BY <1>2, Zenon DEF Waiting
  <2>2. NoCreates(channel[p]) => NoCreates(channel'[p])
    BY <1>3, <1>8, Zenon
  <2> QED BY <1>0, <1>1, <1>2, <1>3, <1>4, <2>1, <2>2, FollowsStays, Zenon
<1> QED BY <1>0, <1>2, <1>6, <1>7, <1>9, <1>10, Together, Zenon DEF q, SleepMissesNothing

LEMMA Joined ==
  ASSUME NEW x \in Seq(Message), NEW y \in Seq(Message)
  PROVE  /\ x \o y \in Seq(Message)
         /\ NoCreates(x) /\ NoCreates(y) => NoCreates(x \o y)
         /\ InTime(x) /\ InTime(y) => InTime(x \o y)
<1>1. /\ x \o y \in Seq(Message) /\ Len(x) \in Nat /\ Len(y) \in Nat
      /\ \A i \in 1 .. Len(x \o y) : \/ i \in 1 .. Len(x) /\ (x \o y)[i] = x[i]
                                     \/ i - Len(x) \in 1 .. Len(y) /\ (x \o y)[i] = y[i - Len(x)]
  OBVIOUS
<1> DEFINE z == x \o y
<1> HIDE DEF z
<1>2. NoCreates(x) /\ NoCreates(y) => NoCreates(z)
  BY <1>1, Zenon DEF NoCreates, z
<1>3. InTime(x) /\ InTime(y) => InTime(z)
  BY <1>1, Zenon DEF InTime, z
<1> QED BY <1>1, <1>2, <1>3, Zenon DEF z

(* A step of p that sends messages and reads at most one of its own: types *)
(* and the marks on the messages.                                          *)
LEMMA SendKeeps ==
  ASSUME HaTypes, AwakeToAll, NEW p \in Proc, NEW q \in Proc, q = Peer(p),
         NEW ch \in [Proc -> Seq(Message)], NEW ms \in Seq(Sent), HaSend(p, ms, ch),
         ch[q] = channel[q], pc[p] # "off", InTime(channel[p]) => InTime(ch[p]),
         pc' \in [Proc -> {"off", "starting", "check", "asleep", "active", "stopping"}],
         pc'[q] = pc[q], pc[p] # "asleep", pc'[p] # "off",
         overload' \in [Proc -> SUBSET Overload], flow_cnt' \in [Proc -> Nat],
         Bounded(Tables(p)'), Tables(q)' = Tables(q),
         dumped' \in [Proc -> {"no", "yes", "outdated"}], early' \in [Proc -> BOOLEAN]
  PROVE  HaTypes' /\ AwakeToAll'
<1>0. PICK ns \in Seq(Message) : Delivery(q, ch, ms, ns)
  BY Delivered, Zenon
<1>1. /\ channel' \in [Proc -> Seq(Message)] /\ channel'[q] = ch[q] \o ns
      /\ \A r \in Proc : r # q => channel'[r] = ch[r] /\ lost'[r] = lost[r]
      /\ lost' \in [Proc -> BOOLEAN]
      /\ pc[q] = "off" => ns = <<>>
      /\ \A i \in 1 .. Len(ns) : pc[q] # "asleep" => ns[i].slept = "no"
  BY <1>0, Zenon DEF Delivery
<1>2. q # p /\ \A r \in Proc : r = p \/ r = q
  BY Peers, Zenon
<1>3. HaTypes'
  <2>1. \A r \in Proc : Bounded(Tables(r))'
    BY <1>2, Zenon DEF HaTypes
  <2>2. pc[q] = "off" => channel'[q] = <<>>
    <3>1. pc[q] = "off" => channel[q] = <<>>
      BY Zenon DEF HaTypes
    <3>2. <<>> \o <<>> = <<>>
      OBVIOUS
    <3> QED BY <1>1, <3>1, <3>2, Zenon
  <2>3. \A r \in Proc : pc'[r] = "off" => channel'[r] = <<>>
    BY <1>2, <2>2, Zenon
  <2> QED BY <1>1, <2>1, <2>3, Zenon DEF HaTypes
<1>4. AwakeToAll'
  <2>1. pc[q] # "asleep" => InTime(channel'[q])
    <3>1. pc[q] # "asleep" => InTime(channel[q]) /\ InTime(ns)
      BY <1>1, Zenon DEF AwakeToAll, InTime
    <3>2. channel[q] \in Seq(Message)
      BY Zenon DEF HaTypes
    <3> QED BY <1>1, <3>1, <3>2, Joined, Zenon
  <2>2. InTime(channel'[p])
    BY <1>1, <1>2, Zenon DEF AwakeToAll
  <2> QED BY <1>2, <2>1, <2>2, Zenon DEF AwakeToAll
<1> QED BY <1>3, <1>4, Zenon

LEMMA FirstOfOne ==
  ASSUME NEW ms \in Seq(Message), Len(ms) = 1
  PROVE  ms[1] \in Message
  OBVIOUS

(* A message that reached a process is applied to what it would have had. *)
LEMMA ViewAfterOne ==
  ASSUME HaTypes, NEW q \in Proc, NEW m \in Sent,
         channel'[q] = channel[q] \o Arriving(q, <<m>>), Tables(q)' = Tables(q)
  PROVE  \E w \in Message : w.type = m.type /\ w.arg = m.arg /\ View(q)' = backup_process(View(q), w)
<1> DEFINE ns == Arriving(q, <<m>>)
<1>1. <<m>> \in Seq(Sent) /\ Len(<<m>>) = 1 /\ <<m>>[1] = m /\ 1 \in 1 .. 1
  OBVIOUS
<1>2. ns \in Seq(Message) /\ Len(ns) = 1 /\ ns[1].type = m.type /\ ns[1].arg = m.arg
  BY <1>1, Arrive, Zenon
<1> HIDE DEF ns
<1>3. ns[1] \in Message
  BY <1>2, FirstOfOne, Zenon
<1>4. channel[q] \in Seq(Message)
  BY Zenon DEF HaTypes
<1>5. View(q)' = Processed(Processed(Tables(q), channel[q]), ns)
  BY <1>2, <1>4, Concatenated DEF View, ns
<1>6. View(q)' = backup_process(View(q), ns[1])
  BY <1>2, <1>5, NoneAndOne, Zenon DEF View
<1> QED BY <1>2, <1>3, <1>6, Zenon

(* dp_sync_send_request_dump(): the request changes no tables. *)
LEMMA RequestDumpKeeps ==
  ASSUME HaInv, NEW p \in Proc, RequestDump(p)
  PROVE  HaInv'
<1> DEFINE q == Peer(p)
           m == Msg("dump", NOBODY)
           ms == <<m>>
<1>0. HaTypes /\ AwakeToAll /\ SleepMissesNothing /\ Follows(q, p) /\ Follows(p, q)
  BY Peers, Zenon DEF HaInv
<1>1. q \in Proc /\ q # p
  BY Peers, Zenon
<1>2. m \in Sent /\ m.type = "dump"
  BY Messages, Zenon
<1>3. HaSend(p, ms, channel)
  BY Zenon DEF RequestDump
<1>4. /\ pc[p] = "starting" /\ pc' = [pc EXCEPT ![p] = "check"]
      /\ overload' = overload /\ flow_cnt' = flow_cnt /\ dumped' = dumped /\ early' = early /\ missed' = missed
  BY Zenon DEF RequestDump, haTables
<1> HIDE DEF q, m
<1>5. ms \in Seq(Sent) /\ Len(ms) = 1 /\ ms[1] = m
  BY <1>2
<1> HIDE DEF ms
<1>6. /\ pc' \in [Proc -> {"off", "starting", "check", "asleep", "active", "stopping"}]
      /\ pc'[p] = "check" /\ pc'[q] = pc[q]
  BY <1>0, <1>1, <1>4, Zenon DEF HaTypes
<1>7. Tables(p)' = Tables(p) /\ Tables(q)' = Tables(q)
  BY <1>4, Zenon DEF Tables
<1>8. HaTypes' /\ AwakeToAll'
  <2>1. Bounded(Tables(p)') /\ channel \in [Proc -> Seq(Message)]
    BY <1>0, <1>7, Zenon DEF HaTypes
  <2>2. /\ overload' \in [Proc -> SUBSET Overload] /\ flow_cnt' \in [Proc -> Nat]
        /\ dumped' \in [Proc -> {"no", "yes", "outdated"}] /\ early' \in [Proc -> BOOLEAN]
    BY <1>0, <1>4, Zenon DEF HaTypes
  <2> QED BY <1>0, <1>1, <1>3, <1>4, <1>5, <1>6, <1>7, <2>1, <2>2, SendKeeps, Zenon DEF q
<1>9. PICK ns \in Seq(Message) : Delivery(q, channel, ms, ns)
  <2>1. channel \in [Proc -> Seq(Message)]
    BY <1>0, Zenon DEF HaTypes
  <2> QED BY <1>0, <1>1, <1>3, <1>5, <2>1, Delivered, Zenon DEF q
<1>10. /\ channel'[q] = channel[q] \o ns /\ channel'[p] = channel[p] /\ lost'[p] = lost[p]
       /\ pc[q] # "off" /\ ~lost'[q] => ns = Arriving(q, ms) /\ ~lost[q]
  BY <1>1, <1>9, Zenon DEF Delivery
<1>11. NoCreates(channel[q]) => NoCreates(channel'[q])
  <2>1. NoCreates(ns)
    BY <1>2, <1>5, <1>9 DEF Delivery, NoCreates
  <2>2. channel[q] \in Seq(Message)
    BY <1>0, <1>1, Zenon DEF HaTypes
  <2> QED BY <1>10, <2>1, <2>2, Joined, Zenon
<1>12. Follows(p, q)'
  <2>1. (Waiting(p)' => Waiting(p)) /\ (Waiting(q)' => Waiting(q))
    BY <1>4, <1>6, Zenon DEF Waiting
  <2> QED BY <1>0, <1>1, <1>4, <1>7, <1>10, <1>11, <2>1, FollowsStays, Zenon
<1>13. Follows(q, p)'
  <2> SUFFICES ASSUME Waiting(q)', ~lost'[q] PROVE Follows(q, p)'
    BY Zenon DEF Follows
  <2>1. Waiting(q) /\ pc[q] # "off" /\ Waiting(p) /\ ~lost[q] /\ ns = Arriving(q, ms)
    BY <1>4, <1>6, <1>10, Zenon DEF Waiting
  <2>2. PICK w \in Message : w.type = m.type /\ w.arg = m.arg /\ View(q)' = backup_process(View(q), w)
    BY <1>0, <1>1, <1>2, <1>7, <1>10, <2>1, ViewAfterOne, Zenon DEF ms
  <2>3. View(q)' = View(q)
    BY <1>0, <1>1, <1>2, <2>2, MessageEffect, TablesTyped
  <2> QED BY <1>0, <1>4, <1>7, <1>10, <1>11, <2>1, <2>3, Zenon DEF Follows
<1> QED BY <1>0, <1>4, <1>8, <1>12, <1>13, Together, Zenon DEF q, SleepMissesNothing

(* The walk of a standby process: it has then what it would have, and two  *)
(* processes that wait learn nothing from each other.                      *)
LEMMA StandbyWalkKeeps ==
  ASSUME HaInv, NEW p \in Proc, StandbyWalk(p)
  PROVE  HaInv'
<1> DEFINE q == Peer(p)
           t == View(p)
<1>0. HaTypes /\ AwakeToAll /\ SleepMissesNothing /\ Follows(q, p) /\ Follows(p, q)
  BY Peers, Zenon DEF HaInv
<1>1. q \in Proc /\ q # p
  BY Peers, Zenon
<1>2. /\ pc[p] = "asleep" /\ pc' = [pc EXCEPT ![p] = "check"]
      /\ overload' = [overload EXCEPT ![p] = t.overload] /\ flow_cnt' = [flow_cnt EXCEPT ![p] = t.cnt]
      /\ channel' = [channel EXCEPT ![p] = <<>>]
      /\ dumped' = dumped /\ early' = early /\ lost' = lost /\ missed' = missed
  BY Zenon DEF StandbyWalk, View
<1>3. t \in TablePair /\ Bounded(t)
  BY <1>0, TablesTyped, Zenon
<1> HIDE DEF q, t
<1>4. t.overload \in SUBSET Overload /\ t.cnt \in Nat /\ t = [overload |-> t.overload, cnt |-> t.cnt]
  BY <1>3, Zenon DEF TablePair
<1>5. /\ pc' \in [Proc -> {"off", "starting", "check", "asleep", "active", "stopping"}]
      /\ pc'[p] = "check" /\ pc'[q] = pc[q]
      /\ overload' \in [Proc -> SUBSET Overload] /\ flow_cnt' \in [Proc -> Nat]
      /\ overload'[p] = t.overload /\ flow_cnt'[p] = t.cnt
      /\ overload'[q] = overload[q] /\ flow_cnt'[q] = flow_cnt[q]
  BY <1>0, <1>1, <1>2, <1>4, Zenon DEF HaTypes
<1>6. channel' \in [Proc -> Seq(Message)] /\ channel'[p] = <<>> /\ channel'[q] = channel[q]
  <2>1. <<>> \in Seq(Message) /\ channel \in [Proc -> Seq(Message)]
    BY <1>0 DEF HaTypes
  <2> QED BY <1>1, <1>2, <2>1, Zenon
<1>7. Tables(p)' = t /\ Tables(q)' = Tables(q)
  BY <1>4, <1>5, Zenon DEF Tables
<1>8. \A r \in Proc : r = p \/ r = q
  BY Peers, Zenon DEF q
<1>9. HaTypes'
  <2>1. \A r \in Proc : Bounded(Tables(r))'
    BY <1>0, <1>3, <1>7, <1>8, Zenon DEF HaTypes
  <2>2. \A r \in Proc : pc'[r] = "off" => channel'[r] = <<>>
    BY <1>0, <1>5, <1>6, <1>8, Zenon DEF HaTypes
  <2> QED BY <1>0, <1>2, <1>5, <1>6, <2>1, <2>2, Zenon DEF HaTypes
<1>10. AwakeToAll'
  <2>1. InTime(<<>>)
    BY DEF InTime
  <2> QED BY <1>0, <1>5, <1>6, <1>8, <2>1, Zenon DEF AwakeToAll
<1>11. NoCreates(<<>>)
  BY DEF NoCreates
<1>12. Waiting(p) /\ (Waiting(q)' => Waiting(q))
  BY <1>2, <1>5, Zenon DEF Waiting
<1>13. Follows(p, q)'
  <2>1. View(p)' = View(p)
    BY <1>6, <1>7, NoneAndOne, Zenon DEF View, t
  <2>2. Tables(p) = EmptyTables /\ NoCreates(channel[p]) => t = EmptyTables
    BY <1>0, TablesTyped, Zenon DEF t
  <2> QED BY <1>0, <1>2, <1>5, <1>6, <1>7, <1>11, <1>12, <2>1, <2>2, Zenon DEF Follows
<1>14. Follows(q, p)'
  <2> SUFFICES ASSUME Waiting(q)', ~lost'[q], dumped'[q] # "outdated" PROVE Follows(q, p)'
    BY Zenon DEF Follows
  <2>1. /\ Tables(q) = EmptyTables /\ NoCreates(channel[q])
        /\ dumped[q] = "yes" => Tables(p) = EmptyTables /\ NoCreates(channel[p])
    BY <1>0, <1>2, <1>12, Zenon DEF Follows
  <2>2. View(q)' = EmptyTables
    <3>1. View(q) = EmptyTables
      BY <1>0, <1>1, <2>1, TablesTyped, Zenon
    <3> QED BY <1>6, <1>7, <3>1, Zenon DEF View
  <2>3. dumped[q] = "yes" => t = EmptyTables
    BY <1>0, <2>1, TablesTyped, Zenon DEF t
  <2> QED BY <1>2, <1>5, <1>6, <1>7, <1>11, <2>1, <2>2, <2>3, NothingIsExact, Zenon DEF Follows
<1> QED BY <1>0, <1>2, <1>9, <1>10, <1>13, <1>14, Together, Zenon DEF q, SleepMissesNothing

(* A step of an active process that tells the other of one flow. *)
LEMMA TellOfFlow ==
  ASSUME HaInv, NEW p \in Proc, NEW o \in Overload, NEW m \in Sent,
         \/ m.type = "create" /\ m.arg = o /\ overload'[p] = overload[p] \cup {o} /\ o \notin overload[p]
         \/ m.type = "delete" /\ m.arg = o /\ overload'[p] = overload[p] \ {o} /\ o \in overload[p],
         Processing(p), HaSend(p, <<m>>, channel), UNCHANGED <<pc, dumped, early, missed>>,
         overload' \in [Proc -> SUBSET Overload], flow_cnt' \in [Proc -> Nat], Bounded(Tables(p)'),
         \A r \in Proc : r # p => overload'[r] = overload[r] /\ flow_cnt'[r] = flow_cnt[r]
  PROVE  HaInv'
<1> DEFINE q == Peer(p)
           ms == <<m>>
<1>0. HaTypes /\ AwakeToAll /\ SleepMissesNothing /\ Follows(q, p)
  BY Peers, Zenon DEF HaInv
<1>1. q \in Proc /\ q # p
  BY Peers, Zenon
<1>2. ms \in Seq(Sent) /\ HaSend(p, ms, channel)
  OBVIOUS
<1> HIDE DEF q, ms
<1>3. /\ channel \in [Proc -> Seq(Message)]
      /\ pc \in [Proc -> {"off", "starting", "check", "asleep", "active", "stopping"}]
      /\ dumped \in [Proc -> {"no", "yes", "outdated"}] /\ early \in [Proc -> BOOLEAN]
      /\ overload[p] \in SUBSET Overload
  BY <1>0, Zenon DEF HaTypes
<1>4. Tables(q)' = Tables(q)
  BY <1>1, Zenon DEF Tables
<1>5. pc[p] \in {"active", "stopping"}
  BY Zenon DEF Processing
<1>6. HaTypes' /\ AwakeToAll'
  BY <1>0, <1>1, <1>2, <1>3, <1>4, <1>5, SendKeeps, Zenon DEF q
<1>7. PICK ns \in Seq(Message) : Delivery(q, channel, ms, ns)
  BY <1>0, <1>1, <1>2, <1>3, Delivered, Zenon DEF q
<1>8. /\ channel'[q] = channel[q] \o ns
      /\ pc[q] # "off" /\ ~lost'[q] => ns = Arriving(q, ms) /\ ~lost[q]
  BY <1>7, Zenon DEF Delivery
<1>9. Follows(p, q)'
  BY <1>5, Zenon DEF Follows, Waiting
<1>10. Follows(q, p)'
  <2> SUFFICES ASSUME Waiting(q)', ~lost'[q], dumped'[q] # "outdated" PROVE Follows(q, p)'
    BY Zenon DEF Follows
  <2>1. Waiting(q) /\ ~lost[q] /\ ns = Arriving(q, ms) /\ ~Waiting(p)'
    BY <1>5, <1>8, Zenon DEF Waiting
  <2>2. PICK w \in Message : w.type = m.type /\ w.arg = m.arg /\ View(q)' = backup_process(View(q), w)
    BY <1>0, <1>1, <1>4, <1>8, <2>1, ViewAfterOne, Zenon DEF ms
  <2>3. View(q) \in TablePair /\ Bounded(View(q))
    BY <1>0, <1>1, TablesTyped, Zenon
  <2>4. /\ View(q).overload \subseteq overload[p]
        /\ dumped[q] = "yes" => View(q).overload = overload[p] /\ (~early[q] => Exact(View(q)))
    BY <1>0, <2>1, Zenon DEF Follows
  <2>5. CASE m.type = "create" /\ m.arg = o /\ overload'[p] = overload[p] \cup {o} /\ o \notin overload[p]
    <3>0. w.type = "create" /\ w.arg = o
      BY <2>2, <2>5, Zenon
    <3>1. View(q)'.overload = View(q).overload \cup {o} /\ (Exact(View(q)) => Exact(View(q)'))
      <4>1. /\ backup_process(View(q), w).overload = View(q).overload \cup {w.arg}
            /\ Exact(View(q)) => Exact(backup_process(View(q), w))
        BY <2>3, <3>0, CreateRead, Zenon
      <4> QED BY <2>2, <3>0, <4>1, Zenon
    <3>2. View(q)'.overload \subseteq overload'[p]
      BY <2>4, <2>5, <3>1, Zenon
    <3>3. dumped'[q] = "yes" => View(q)'.overload = overload'[p] /\ (~early'[q] => Exact(View(q)'))
      BY <2>4, <2>5, <3>1, Zenon
    <3> QED BY <2>1, <3>2, <3>3, Zenon DEF Follows
  <2>6. CASE m.type = "delete" /\ m.arg = o /\ overload'[p] = overload[p] \ {o} /\ o \in overload[p]
    <3>0. w.type = "delete" /\ w.arg = o
      BY <2>2, <2>6, Zenon
    <3>1. /\ View(q)'.overload = View(q).overload \ {o}
          /\ o \in View(q).overload /\ Exact(View(q)) => Exact(View(q)')
      <4>1. /\ backup_process(View(q), w).overload = View(q).overload \ {w.arg}
            /\ w.arg \in View(q).overload /\ Exact(View(q)) => Exact(backup_process(View(q), w))
        BY <2>3, <3>0, DeleteRead, Zenon
      <4> QED BY <2>2, <3>0, <4>1, Zenon
    <3>2. View(q)'.overload \subseteq overload'[p]
      BY <2>4, <2>6, <3>1, Zenon
    <3>3. dumped'[q] = "yes" => View(q)'.overload = overload'[p] /\ (~early'[q] => Exact(View(q)'))
      BY <2>4, <2>6, <3>1, Zenon
    <3> QED BY <2>1, <3>2, <3>3, Zenon DEF Follows
  <2> QED BY <2>5, <2>6, Zenon
<1> QED BY <1>0, <1>6, <1>9, <1>10, Together, Zenon DEF q, SleepMissesNothing

(* A flow begins, with a port of its own, or ages. *)
LEMMA FlowsKeep ==
  ASSUME HaInv, NEW p \in Proc, NEW o \in Overload, FlowBegins(p, o) \/ FlowAges(p, o)
  PROVE  HaInv'
<1>0. HaTypes
  BY Zenon DEF HaInv
<1>1. /\ overload \in [Proc -> SUBSET Overload] /\ flow_cnt \in [Proc -> Nat] /\ overload[p] \in SUBSET Overload
      /\ flow_cnt[p] \in Nat /\ Tables(p) \in TablePair /\ Bounded(Tables(p))
      /\ Tables(p).overload = overload[p] /\ Tables(p).cnt = flow_cnt[p]
  BY <1>0, TablesTyped, Zenon DEF HaTypes
<1>2. CASE FlowBegins(p, o)
  <2>1. /\ Processing(p) /\ o \notin overload[p] /\ HaSend(p, <<Msg("create", o)>>, channel)
        /\ overload' = [overload EXCEPT ![p] = @ \cup {o}] /\ flow_cnt' = [flow_cnt EXCEPT ![p] = @ + 1]
        /\ UNCHANGED <<pc, dumped, early, missed>>
    BY <1>2, Zenon DEF FlowBegins, haWorker
  <2>2. /\ overload' \in [Proc -> SUBSET Overload] /\ flow_cnt' \in [Proc -> Nat]
        /\ overload'[p] = overload[p] \cup {o} /\ flow_cnt'[p] = flow_cnt[p] + 1
        /\ \A r \in Proc : r # p => overload'[r] = overload[r] /\ flow_cnt'[r] = flow_cnt[r]
    BY <1>1, <2>1
  <2>3. Bounded(Tables(p)')
    <3>1. Tables(p)'.overload = overload[p] \cup {o} /\ Tables(p)'.cnt = flow_cnt[p] + 1
      BY <2>2, Zenon DEF Tables
    <3>2. flow_cnt[p] <= Cardinality(overload[p])
      BY <1>1, Zenon DEF Bounded
    <3>3. Cardinality(overload[p]) \in Nat /\ Cardinality(overload[p] \cup {o}) = Cardinality(overload[p]) + 1
      BY <1>1, <2>1, FlowSets, Zenon
    <3> QED BY <1>1, <3>1, <3>2, <3>3 DEF Bounded
  <2>4. Msg("create", o) \in Sent /\ Msg("create", o).type = "create" /\ Msg("create", o).arg = o
    BY Messages, Zenon
  <2> QED BY <2>1, <2>2, <2>3, <2>4, TellOfFlow, Zenon
<1>3. CASE FlowAges(p, o)
  <2> DEFINE t == delete_snat_entries(Tables(p), o)
  <2>1. /\ Processing(p) /\ o \in overload[p] /\ HaSend(p, <<Msg("delete", o)>>, channel)
        /\ overload' = [overload EXCEPT ![p] = t.overload] /\ flow_cnt' = [flow_cnt EXCEPT ![p] = t.cnt]
        /\ UNCHANGED <<pc, dumped, early, missed>>
    BY <1>3, Zenon DEF FlowAges, haWorker
  <2>2. t \in TablePair /\ Bounded(t) /\ t.overload = overload[p] \ {o}
    BY <1>1, DeleteEffect
  <2> HIDE DEF t
  <2>3. t.overload \in SUBSET Overload /\ t.cnt \in Nat /\ t = [overload |-> t.overload, cnt |-> t.cnt]
    BY <2>2, Zenon DEF TablePair
  <2>4. /\ overload' \in [Proc -> SUBSET Overload] /\ flow_cnt' \in [Proc -> Nat]
        /\ overload'[p] = t.overload /\ flow_cnt'[p] = t.cnt
        /\ \A r \in Proc : r # p => overload'[r] = overload[r] /\ flow_cnt'[r] = flow_cnt[r]
    BY <1>1, <2>1, <2>3, Zenon
  <2>5. Bounded(Tables(p)')
    BY <2>2, <2>3, <2>4, Zenon DEF Tables
  <2>6. Msg("delete", o) \in Sent /\ Msg("delete", o).type = "delete" /\ Msg("delete", o).arg = o
    BY Messages, Zenon
  <2> QED BY <2>1, <2>2, <2>4, <2>5, <2>6, TellOfFlow, Zenon
<1> QED BY <1>2, <1>3, Zenon

LEMMA RestOfChannel ==
  ASSUME NEW ms \in Seq(Message), ms # <<>>
  PROVE  /\ Tail(ms) \in Seq(Message)
         /\ InTime(ms) => InTime(Tail(ms)) /\ Head(ms).slept = "no"
<1>1. /\ Tail(ms) \in Seq(Message) /\ Len(Tail(ms)) = Len(ms) - 1 /\ Len(ms) \in Nat /\ Len(ms) >= 1
      /\ \A i \in 1 .. Len(ms) - 1 : Tail(ms)[i] = ms[i + 1]
      /\ Head(ms) = ms[1]
  OBVIOUS
<1>2. \A i \in 1 .. Len(ms) - 1 : i + 1 \in 1 .. Len(ms)
  BY <1>1
<1>3. 1 \in 1 .. Len(ms)
  BY <1>1
<1> QED BY <1>1, <1>2, <1>3 DEF InTime

(* An active process answers a request with all its flows: the other one   *)
(* will then know them all, and count them right if it knew none.  What    *)
(* else it reads was not sent in its sleep.                                *)
LEMMA ActiveSyncKeeps ==
  ASSUME HaInv, NEW p \in Proc, ActiveSync(p)
  PROVE  HaInv'
<1> DEFINE q == Peer(p)
           m == Head(channel[p])
           rest == [channel EXCEPT ![p] = Tail(@)]
<1>0. HaTypes /\ AwakeToAll /\ SleepMissesNothing /\ Follows(q, p)
  BY Peers, Zenon DEF HaInv
<1>1. q \in Proc /\ q # p
  BY Peers, Zenon
<1>2. /\ pc[p] \in {"active", "stopping"} /\ channel[p] # <<>> /\ channel[p] \in Seq(Message)
      /\ channel \in [Proc -> Seq(Message)]
      /\ pc' = pc /\ overload' = overload /\ flow_cnt' = flow_cnt
  BY <1>0, Zenon DEF HaTypes, ActiveSync, Processing, haWorker, haTables
<1>3. InTime(channel[p])
  BY <1>0, <1>2, Zenon DEF AwakeToAll
<1>4. Tail(channel[p]) \in Seq(Message) /\ InTime(Tail(channel[p])) /\ m.slept = "no"
  BY <1>2, <1>3, RestOfChannel, Zenon
<1>5. rest \in [Proc -> Seq(Message)] /\ rest[p] = Tail(channel[p]) /\ rest[q] = channel[q]
  BY <1>1, <1>2, <1>4, Zenon
<1>6. Tables(p)' = Tables(p) /\ Tables(q)' = Tables(q) /\ \A r \in Proc : Tables(r)' = Tables(r)
  BY <1>2, Zenon DEF Tables
<1>7. Follows(p, q)'
  BY <1>2, Zenon DEF Follows, Waiting
<1>8. CASE m.type = "dump"
  <2>1. /\ HaSend(p, Dump(p), rest)
        /\ dumped' = [dumped EXCEPT ![q] = IF pc[q] # "off" /\ @ = "no" THEN "yes" ELSE @]
        /\ early' = [early EXCEPT ![q] =
             overload[q] # {} \/ \E i \in DOMAIN channel[q] : channel[q][i].type = "create"]
        /\ missed' = missed
    BY <1>8, Zenon DEF ActiveSync
  <2> HIDE DEF q, m, rest
  <2> DEFINE late == overload[q] # {} \/ \E i \in DOMAIN channel[q] : channel[q][i].type = "create"
  <2>2. late \in BOOLEAN /\ early' = [early EXCEPT ![q] = late]
    BY <2>1, Zenon
  <2>3. ~late => overload[q] = {} /\ NoCreates(channel[q])
    <3>1. channel[q] \in Seq(Message)
      BY <1>1, <1>2, Zenon
    <3> QED BY <3>1 DEF NoCreates
  <2> HIDE DEF late
  <2>4. /\ dumped' \in [Proc -> {"no", "yes", "outdated"}] /\ early' \in [Proc -> BOOLEAN] /\ early'[q] = late
        /\ dumped[q] = "outdated" => dumped'[q] = "outdated"
    BY <1>0, <1>1, <2>1, <2>2, Zenon DEF HaTypes
  <2>5. HaTypes' /\ AwakeToAll'
    <3>1. /\ Bounded(Tables(p)') /\ overload' \in [Proc -> SUBSET Overload] /\ flow_cnt' \in [Proc -> Nat]
          /\ pc' \in [Proc -> {"off", "starting", "check", "asleep", "active", "stopping"}]
      BY <1>0, <1>2, <1>6, Zenon DEF HaTypes
    <3>2. Dump(p) \in Seq(Sent)
      BY <1>0, DumpNamesAll, Zenon
    <3>3. q = Peer(p) /\ InTime(rest[p]) /\ pc'[q] = pc[q] /\ pc[p] # "off" /\ pc[p] # "asleep" /\ pc'[p] # "off"
      BY <1>2, <1>4, <1>5, Zenon DEF q
    <3>4. HaSend(p, Dump(p), rest) /\ rest \in [Proc -> Seq(Message)] /\ rest[q] = channel[q]
      BY <1>5, <2>1, Zenon
    <3>5. dumped' \in [Proc -> {"no", "yes", "outdated"}] /\ early' \in [Proc -> BOOLEAN] /\ Tables(q)' = Tables(q)
      BY <1>6, <2>4, Zenon
    <3> QED BY <1>0, <1>1, <3>1, <3>2, <3>3, <3>4, <3>5, SendKeeps, Zenon
  <2>6. PICK ns \in Seq(Message) : Delivery(q, rest, Dump(p), ns)
    <3>1. Dump(p) \in Seq(Sent)
      BY <1>0, DumpNamesAll, Zenon
    <3> QED BY <1>0, <1>1, <1>5, <2>1, <3>1, Delivered, Zenon DEF q
  <2>7. /\ channel'[q] = channel[q] \o ns
        /\ pc[q] # "off" /\ ~lost'[q] => ns = Arriving(q, Dump(p)) /\ ~lost[q]
    BY <1>5, <2>6, Zenon DEF Delivery
  <2>8. Follows(q, p)'
    <3> SUFFICES ASSUME Waiting(q)', ~lost'[q], dumped'[q] # "outdated" PROVE Follows(q, p)'
      BY Zenon DEF Follows
    <3>1. Waiting(q) /\ ~lost[q] /\ ns = Arriving(q, Dump(p)) /\ ~Waiting(p)' /\ dumped[q] # "outdated"
      BY <1>2, <2>4, <2>7, Zenon DEF Waiting
    <3>2. /\ \A i \in 1 .. Len(ns) : ns[i].type = "create"
          /\ {ns[i].arg : i \in 1 .. Len(ns)} = overload[p]
      <4>1. /\ Dump(p) \in Seq(Sent)
            /\ \A i \in 1 .. Len(Dump(p)) : Dump(p)[i].type = "create"
            /\ {Dump(p)[i].arg : i \in 1 .. Len(Dump(p))} = overload[p]
        BY <1>0, DumpNamesAll, Zenon
      <4>2. /\ Len(ns) = Len(Dump(p))
            /\ \A i \in 1 .. Len(ns) : ns[i].type = Dump(p)[i].type /\ ns[i].arg = Dump(p)[i].arg
        BY <1>1, <3>1, <4>1, Arrive, SMTT(30)
      <4> QED BY <4>1, <4>2, Zenon
    <3>3. View(q)' = Processed(View(q), ns)
      <4>1. channel[q] \in Seq(Message)
        BY <1>1, <1>2, Zenon
      <4> QED BY <1>6, <2>7, <4>1, Concatenated DEF View
    <3>4. View(q) \in TablePair /\ Bounded(View(q))
      BY <1>0, <1>1, TablesTyped, Zenon
    <3>5. View(q)'.overload = View(q).overload \cup overload[p] /\ (Exact(View(q)) => Exact(View(q)'))
      BY <3>2, <3>3, <3>4, CreatesEffect, Zenon
    <3>6. View(q).overload \subseteq overload[p]
      BY <1>0, <3>1, Zenon DEF Follows
    <3>7. ~early'[q] => Exact(View(q))
      <4> SUFFICES ASSUME ~early'[q] PROVE Exact(View(q))
        OBVIOUS
      <4>1. overload[q] = {} /\ NoCreates(channel[q])
        BY <2>3, <2>4, Zenon
      <4>2. View(q) = EmptyTables
        BY <1>0, <1>1, <4>1, TablesTyped, Zenon
      <4> QED BY <4>2, NothingIsExact, Zenon
    <3> QED BY <1>2, <3>1, <3>5, <3>6, <3>7, Zenon DEF Follows
  <2> QED BY <1>0, <1>7, <2>1, <2>5, <2>8, Together, Zenon DEF q, SleepMissesNothing
<1>9. CASE m.type # "dump"
  <2>1. /\ channel' = rest /\ missed' = (missed \/ m.slept = "yes")
        /\ dumped' = dumped /\ early' = early /\ lost' = lost
    BY <1>9, Zenon DEF ActiveSync
  <2> HIDE DEF q, m, rest
  <2>2. SleepMissesNothing'
    BY <1>0, <1>4, <2>1, Zenon DEF SleepMissesNothing
  <2>3. \A r \in Proc : r = p \/ r = q
    BY Peers, Zenon DEF q
  <2>4. HaTypes'
    <3>1. \A r \in Proc : Bounded(Tables(r))'
      BY <1>0, <1>6, Zenon DEF HaTypes
    <3>2. \A r \in Proc : pc'[r] = "off" => channel'[r] = <<>>
      BY <1>0, <1>2, <1>5, <2>1, <2>3, Zenon DEF HaTypes
    <3> QED BY <1>0, <1>2, <1>5, <2>1, <3>1, <3>2, Zenon DEF HaTypes
  <2>5. AwakeToAll'
    BY <1>0, <1>2, <1>4, <1>5, <2>1, <2>3, Zenon DEF AwakeToAll
  <2>6. Follows(q, p)'
    <3>1. (Waiting(q)' => Waiting(q)) /\ ~Waiting(p)'
      BY <1>2, Zenon DEF Waiting
    <3> QED BY <1>0, <1>1, <1>5, <1>6, <2>1, <3>1, FollowsStays, Zenon
  <2> QED BY <1>7, <2>2, <2>4, <2>5, <2>6, Together, Zenon DEF q
<1> QED BY <1>8, <1>9, Zenon

LEMMA HaStart == HaInit => HaInv
<1> SUFFICES ASSUME HaInit PROVE HaInv
  OBVIOUS
<1>1. \A p \in Proc : pc[p] = "off" /\ channel[p] = <<>> /\ overload[p] = {} /\ flow_cnt[p] = 0
  BY Zenon DEF HaInit
<1>2. HaTypes
  <2>1. \A p \in Proc : Tables(p) = EmptyTables
    BY <1>1, Zenon DEF Tables, EmptyTables
  <2>2. Bounded(EmptyTables)
    BY FS_EmptySet DEF EmptyTables, Bounded
  <2>3. <<>> \in Seq(Message) /\ {} \in SUBSET Overload
    OBVIOUS
  <2> QED BY <1>1, <2>1, <2>2, <2>3, Zenon DEF HaTypes, HaInit
<1>3. AwakeToAll
  <2>1. InTime(<<>>)
    BY DEF InTime
  <2> QED BY <1>1, <2>1, Zenon DEF AwakeToAll
<1>4. \A p \in Proc : Follows(p, Peer(p))
  BY <1>1, Zenon DEF Follows, Waiting
<1> QED BY <1>2, <1>3, <1>4, Zenon DEF HaInv, HaInit, SleepMissesNothing

LEMMA HaStep == HaInv /\ [HaNext]_haVars => HaInv'
<1> SUFFICES ASSUME HaInv, [HaNext]_haVars PROVE HaInv'
  OBVIOUS
<1>1. CASE UNCHANGED haVars
  <2>1. /\ pc' = pc /\ overload' = overload /\ flow_cnt' = flow_cnt /\ channel' = channel
        /\ dumped' = dumped /\ early' = early /\ lost' = lost /\ missed' = missed
    BY <1>1, Zenon DEF haVars, haWorker, haTables
  <2>2. \A p \in Proc : Tables(p)' = Tables(p) /\ View(p)' = View(p) /\ (Waiting(p)' <=> Waiting(p))
    BY <2>1, Zenon DEF Tables, View, Waiting
  <2>3. HaTypes' /\ AwakeToAll' /\ SleepMissesNothing'
    BY <2>1, <2>2, Zenon DEF HaInv, HaTypes, AwakeToAll, SleepMissesNothing
  <2>4. ASSUME NEW p \in Proc PROVE Follows(p, Peer(p))'
    <3>1. Follows(p, Peer(p)) /\ Peer(p) \in Proc
      BY Peers, Zenon DEF HaInv
    <3> QED BY <2>1, <2>2, <3>1, FollowsStays, Zenon
  <2> QED BY <2>3, <2>4, Zenon DEF HaInv
<1>2. CASE HaNext
  <2>1. PICK p \in Proc :
          \/ Start(p) \/ RequestDump(p) \/ Acquire(p) \/ Check(p) \/ StandbyWalk(p)
          \/ ActiveSync(p) \/ Crash(p) \/ Quit(p) \/ Exit(p)
          \/ \E o \in Overload : FlowBegins(p, o) \/ FlowAges(p, o)
    BY <1>2, Zenon DEF HaNext
  <2>2. Crash(p) \/ Exit(p) => Gone(p)
    BY Zenon DEF Crash, Exit
  <2> QED BY <2>1, <2>2, StartKeeps, RequestDumpKeeps, WorkerKeeps, StandbyWalkKeeps, ActiveSyncKeeps, FlowsKeep, Zenon
<1> QED BY <1>1, <1>2, Zenon

(* HaInv holds in every reachable state of the two processes: what a       *)
(* standby process holds, with what is still on its way to it, follows the *)
(* flows of the other one (dp_sync.c, sync_node.c).                        *)
THEOREM HaInvariance == HaSpec => []HaInv
  BY HaStart, HaStep, PTL DEF HaSpec

(* No message that comes in the sleep of the standby loop is turned down   *)
(* when the process has become active (the comment in graph_main_loop()).  *)
THEOREM NothingMissedInSleep == HaSpec => []SleepMissesNothing
<1>1. HaInv => SleepMissesNothing
  BY Zenon DEF HaInv
<1> QED BY <1>1, HaInvariance, PTL

(* A standby process whose request was answered, that lost no message and  *)
(* has read all of them has the flows of the active one, and counts them   *)
(* right unless it was told of flows before (dp_process_sync_nat(),        *)
(* dp_synchronize_local_nat_flows()): for any flows, restarts and delays.  *)
THEOREM StandbyConverges == HaSpec => []FlowsConverge
<1>1. HaInv => FlowsConverge
  <2> SUFFICES ASSUME HaInv, NEW p \in Proc, NEW q \in Proc, InStep(p, q)
               PROVE  /\ overload[q] = overload[p]
                      /\ ~early[q] /\ flow_cnt[p] = Cardinality(overload[p]) => flow_cnt[q] = flow_cnt[p]
    BY Zenon DEF FlowsConverge
  <2>1. p # q /\ Waiting(q) /\ dumped[q] = "yes" /\ ~lost[q] /\ channel[q] = <<>>
    BY Zenon DEF InStep, Standby, Waiting
  <2>2. Follows(q, p)
    BY <2>1, Peers, Zenon DEF HaInv
  <2>3. View(q) = Tables(q)
    BY <2>1, NoneAndOne, Zenon DEF View
  <2>4. Tables(q).overload = overload[q] /\ Tables(q).cnt = flow_cnt[q]
    BY Zenon DEF Tables
  <2> QED BY <2>1, <2>2, <2>3, <2>4, Zenon DEF Follows, Exact
<1> QED BY <1>1, HaInvariance, PTL

-----------------------------------------------------------------------------
RxPacket == [port : RxPort, at : Nat]

(* A queue in the order of its timestamps, none of them in the future. *)
InOrder(q, now) ==
  /\ \A i, j \in 1 .. Len(q) : i < j => q[i].at < q[j].at
  /\ \A i \in 1 .. Len(q) : q[i].at <= now

(* What the flush has freed is older than the takeover. *)
FreedAreOld == \A x \in rx_freed : x.at < flush_timestamp

(* The inductive invariant of the Rx nodes: the timestamps grow along a    *)
(* queue, so that everything behind the first new packet is new as well.   *)
RxInv ==
  /\ rx_clock \in Nat /\ flush_timestamp \in Nat /\ rx_standing_by \in BOOLEAN
  /\ flush_old_packets \in [RxPort -> BOOLEAN]
  /\ rx_queue \in [RxPort -> Seq(RxPacket)]
  /\ \A p \in RxPort : InOrder(rx_queue[p], rx_clock)
  /\ flush_timestamp <= rx_clock + 1
  /\ rx_standing_by => rx_freed = {}
  /\ FlushedToTheEnd /\ FreedAreOld

LEMMA Timestamps ==
  /\ \A x \in RxPacket : x.at \in Nat
  /\ \A p \in RxPort, t \in Nat : [port |-> p, at |-> t] \in RxPacket
  BY Zenon DEF RxPacket

LEMMA QueueTyped ==
  ASSUME RxInv, NEW p \in RxPort
  PROVE  /\ rx_queue[p] \in Seq(RxPacket)
         /\ \A i \in 1 .. Len(rx_queue[p]) : rx_queue[p][i].at \in Nat
<1>1. rx_queue[p] \in Seq(RxPacket)
  BY Zenon DEF RxInv
<1>2. \A i \in 1 .. Len(rx_queue[p]) : rx_queue[p][i] \in RxPacket
  BY <1>1
<1> QED
  BY <1>1, <1>2, Timestamps, Zenon

(* rx_find_old_packets(): what comes before the first new packet. *)
LEMMA OldComeFirst ==
  ASSUME NEW S, NEW burst \in Seq(S), \A i \in 1 .. Len(burst) : burst[i].at \in Nat, flush_timestamp \in Nat,
         NEW old, old = rx_find_old_packets(burst)
  PROVE  /\ old \in 0 .. Len(burst)
         /\ \A i \in 1 .. old : burst[i].at < flush_timestamp
         /\ old # Len(burst) => old + 1 \in 1 .. Len(burst) /\ burst[old + 1].at >= flush_timestamp
<1> DEFINE new == {i \in DOMAIN burst : burst[i].at >= flush_timestamp}
           first == CHOOSE i \in new : \A j \in new : i <= j
<1>1. new \subseteq Nat /\ Len(burst) \in Nat
  OBVIOUS
<1>2. old = IF new = {} THEN Len(burst) ELSE first - 1
  BY Zenon DEF rx_find_old_packets
<1>3. \A i \in 1 .. Len(burst) : i \notin new => burst[i].at < flush_timestamp
  OBVIOUS
<1>4. \A i \in new : i \in 1 .. Len(burst) /\ burst[i].at >= flush_timestamp
  OBVIOUS
<1> HIDE DEF new
<1>5. CASE new = {}
  BY <1>1, <1>2, <1>3, <1>5
<1>6. CASE new # {}
  <2>1. first \in new /\ \A j \in new : first <= j
    BY <1>1, <1>6, LeastNumber, Zenon
  <2> HIDE DEF first
  <2>2. old = first - 1 /\ first \in 1 .. Len(burst)
    BY <1>2, <1>4, <1>6, <2>1, Zenon
  <2>3. \A i \in 1 .. old : i \in 1 .. Len(burst) /\ i \notin new
    BY <1>1, <2>1, <2>2
  <2>4. old \in 0 .. Len(burst) /\ old + 1 = first
    BY <1>1, <2>2
  <2> QED
    BY <1>3, <1>4, <2>1, <2>2, <2>3, <2>4, Zenon
<1> QED
  BY <1>5, <1>6, Zenon

LEMMA RxStart ==
  RxInit => RxInv
<1> SUFFICES ASSUME RxInit PROVE RxInv
  OBVIOUS
<1>1. rx_queue \in [RxPort -> Seq(RxPacket)]
  BY DEF RxInit
<1>2. \A p \in RxPort : rx_queue[p] = <<>>
  BY Zenon DEF RxInit
<1>3. ASSUME NEW p \in RxPort PROVE InOrder(rx_queue[p], rx_clock)
  BY <1>2 DEF InOrder
<1> QED
  BY <1>1, <1>3 DEF RxInit, RxInv, FlushedToTheEnd, FreedAreOld

LEMMA ReceiveKeeps ==
  ASSUME RxInv, NEW p \in RxPort, RxReceive(p)
  PROVE  RxInv'
<1> DEFINE q == rx_queue[p]
           x == [port |-> p, at |-> rx_clock + 1]
           new == Append(q, x)
<1>1. q \in Seq(RxPacket) /\ x \in RxPacket /\ x.at = rx_clock + 1 /\ rx_clock \in Nat /\ flush_timestamp \in Nat
  BY QueueTyped, Timestamps DEF RxInv
<1> HIDE DEF x
<1>2. /\ new \in Seq(RxPacket) /\ Len(new) = Len(q) + 1 /\ Len(q) \in Nat
      /\ \A i \in 1 .. Len(q) : new[i] = q[i]
      /\ new[Len(q) + 1] = x
  BY <1>1
<1>3. rx_clock' = rx_clock + 1 /\ rx_queue' = [rx_queue EXCEPT ![p] = new]
  BY Zenon DEF RxReceive, x
<1> HIDE DEF new
<1>4. /\ rx_queue' \in [RxPort -> Seq(RxPacket)] /\ rx_queue'[p] = new
      /\ \A r \in RxPort : r # p => rx_queue'[r] = rx_queue[r]
  BY <1>2, <1>3, Zenon DEF RxInv
<1>5. \A i \in 1 .. Len(q) : q[i].at \in Nat /\ q[i].at <= rx_clock
  BY QueueTyped, Zenon DEF RxInv, InOrder
<1>6. InOrder(new, rx_clock')
  <2>1. \A i, j \in 1 .. Len(q) : i < j => q[i].at < q[j].at
    BY Zenon DEF RxInv, InOrder
  <2>2. \A i \in 1 .. Len(q) : new[i].at = q[i].at
    BY <1>2, Zenon
  <2>3. new[Len(q) + 1].at = rx_clock + 1
    BY <1>1, <1>2, Zenon
  <2> HIDE DEF q
  <2>4. \A i \in 1 .. Len(q) + 1 : i \in 1 .. Len(q) \/ i = Len(q) + 1
    BY <1>1
  <2>5. \A i \in 1 .. Len(q) + 1 : new[i].at <= rx_clock + 1
    BY <1>1, <1>5, <2>2, <2>3, <2>4, SMTT(30)
  <2>6. \A i, j \in 1 .. Len(q) + 1 : i < j => new[i].at < new[j].at
    BY <1>1, <1>2, <1>5, <2>1, <2>2, <2>3, <2>4, SMTT(30)
  <2> QED
    BY <1>2, <1>3, <2>5, <2>6, Zenon DEF InOrder
<1>7. ASSUME NEW r \in RxPort, r # p PROVE InOrder(rx_queue'[r], rx_clock')
  <2>1. \A i \in 1 .. Len(rx_queue[r]) : rx_queue[r][i].at \in Nat
    BY QueueTyped, Zenon
  <2>2. InOrder(rx_queue[r], rx_clock)
    BY Zenon DEF RxInv
  <2>3. rx_queue'[r] = rx_queue[r]
    BY <1>4, <1>7, Zenon
  <2>4. \A i \in 1 .. Len(rx_queue[r]) : rx_queue[r][i].at <= rx_clock + 1
    BY <1>1, <2>1, <2>2 DEF InOrder
  <2> QED
    BY <1>3, <2>2, <2>3, <2>4, Zenon DEF InOrder
<1>8. FlushedToTheEnd'
  <2>1. UNCHANGED <<rx_standing_by, flush_timestamp, flush_old_packets>>
    BY Zenon DEF RxReceive
  <2> SUFFICES ASSUME ~rx_standing_by, flush_timestamp > 0, NEW r \in RxPort, ~flush_old_packets[r],
                      NEW i \in DOMAIN rx_queue'[r]
               PROVE  rx_queue'[r][i].at >= flush_timestamp
    BY <2>1, Zenon DEF FlushedToTheEnd
  <2>2. \A j \in DOMAIN rx_queue[r] : rx_queue[r][j].at >= flush_timestamp
    BY Zenon DEF RxInv, FlushedToTheEnd
  <2>3. CASE r # p
    BY <1>4, <2>2, <2>3, Zenon
  <2>4. CASE r = p
    <3>1. i \in 1 .. Len(q) + 1
      BY <1>2, <1>4, <2>4, SMTT(30)
    <3>2. CASE i \in 1 .. Len(q)
      BY <1>1, <1>2, <1>4, <2>2, <2>4, <3>2, SMTT(30)
    <3>3. CASE i = Len(q) + 1
      <4>1. flush_timestamp <= rx_clock + 1
        BY Zenon DEF RxInv
      <4> QED
        BY <1>1, <1>2, <1>4, <2>4, <3>3, <4>1, Zenon
    <3> QED
      BY <1>2, <3>1, <3>2, <3>3, SMTT(30)
  <2> QED
    BY <2>3, <2>4, Zenon
<1>9. UNCHANGED <<rx_standing_by, flush_timestamp, flush_old_packets, rx_freed>>
  BY Zenon DEF RxReceive
<1>10. \A r \in RxPort : InOrder(rx_queue'[r], rx_clock')
  BY <1>4, <1>6, <1>7, Zenon
<1>11. rx_clock' \in Nat /\ flush_timestamp <= rx_clock' + 1
  BY <1>1, <1>3 DEF RxInv
<1> QED
  BY <1>4, <1>8, <1>9, <1>10, <1>11, Zenon DEF RxInv, FreedAreOld

LEMMA TakeoverKeeps ==
  ASSUME RxInv, rx_node_start_processing
  PROVE  RxInv'
<1>1. /\ rx_standing_by /\ rx_standing_by' = FALSE
      /\ UNCHANGED <<rx_clock, rx_queue, rx_freed>>
      /\ flush_timestamp' \in {0, rx_clock + 1}
      /\ flush_old_packets' = [p \in RxPort |-> flush_timestamp' > 0]
  BY Zenon DEF rx_node_start_processing, get_current_timestamp
<1>2. FlushedToTheEnd' /\ FreedAreOld'
  BY <1>1, Zenon DEF FlushedToTheEnd, FreedAreOld, RxInv
<1>3. flush_timestamp' \in Nat /\ flush_timestamp' <= rx_clock + 1
  BY <1>1 DEF RxInv
<1>4. flush_old_packets' \in [RxPort -> BOOLEAN]
  BY <1>1
<1> QED
  BY <1>1, <1>2, <1>3, <1>4, Zenon DEF RxInv

LEMMA WalkKeeps ==
  ASSUME RxInv, NEW p \in RxPort, rx_node_process(p)
  PROVE  RxInv'
<1> DEFINE q     == rx_queue[p]
           n     == IF Len(q) < RxBurst THEN Len(q) ELSE RxBurst
           burst == SubSeq(q, 1, n)
           old   == IF flush_old_packets[p] THEN rx_find_old_packets(burst) ELSE 0
           rest  == SubSeq(q, n + 1, Len(q))
<1>1. /\ q \in Seq(RxPacket) /\ Len(q) \in Nat /\ \A i \in 1 .. Len(q) : q[i].at \in Nat
      /\ InOrder(q, rx_clock) /\ rx_clock \in Nat /\ flush_timestamp \in Nat
  BY QueueTyped DEF RxInv
<1>2. /\ rx_queue' = [rx_queue EXCEPT ![p] = rest]
      /\ rx_freed' = rx_freed \cup Packets(SubSeq(burst, 1, old))
      /\ flush_old_packets' = [flush_old_packets EXCEPT ![p] = @ /\ old = n]
      /\ ~rx_standing_by /\ UNCHANGED <<rx_clock, rx_standing_by, flush_timestamp>>
  BY Zenon DEF rx_node_process, flush_continues
<1>3. n \in 0 .. Len(q)
  BY <1>1, RxAssumption
<1> HIDE DEF q
<1>4. /\ burst \in Seq(RxPacket) /\ Len(burst) = n
      /\ \A i \in 1 .. n : burst[i] = q[i]
  <2> HIDE DEF n
  <2> QED
    BY <1>1, <1>3
<1>5. /\ rest \in Seq(RxPacket) /\ Len(rest) = Len(q) - n
      /\ \A i \in 1 .. Len(q) - n : rest[i] = q[n + i]
  <2> HIDE DEF n
  <2> QED
    BY <1>1, <1>3
<1> HIDE DEF n, burst, rest
<1>6. ASSUME flush_old_packets[p]
      PROVE  /\ old \in 0 .. n
             /\ \A i \in 1 .. old : q[i].at < flush_timestamp
             /\ old # n => old + 1 \in 1 .. n /\ q[old + 1].at >= flush_timestamp
  <2>1. old = rx_find_old_packets(burst)
    BY <1>6, Zenon
  <2> HIDE DEF old
  <2>2. \A i \in 1 .. Len(burst) : burst[i].at \in Nat
    BY <1>1, <1>3, <1>4
  <2>3. /\ old \in 0 .. Len(burst)
        /\ \A i \in 1 .. old : burst[i].at < flush_timestamp
        /\ old # Len(burst) => old + 1 \in 1 .. Len(burst) /\ burst[old + 1].at >= flush_timestamp
    BY <1>1, <1>4, <2>1, <2>2, OldComeFirst, Zenon
  <2>4. \A i \in 1 .. old : i \in 1 .. n
    BY <1>3, <1>4, <2>3
  <2> QED
    BY <1>4, <2>3, <2>4, Zenon
<1>7. old \in 0 .. n /\ \A i \in 1 .. old : q[i].at < flush_timestamp
  <2>1. CASE flush_old_packets[p]
    BY <1>6, <2>1, Zenon
  <2>2. CASE ~flush_old_packets[p]
    BY <1>3, <2>2
  <2> QED
    BY <2>1, <2>2, Zenon
<1> HIDE DEF old
<1>8. /\ rx_queue' \in [RxPort -> Seq(RxPacket)] /\ rx_queue'[p] = rest
      /\ \A r \in RxPort : r # p => rx_queue'[r] = rx_queue[r]
  BY <1>2, <1>5, Zenon DEF RxInv
<1>9. InOrder(rest, rx_clock)
  <2>1. \A i, j \in 1 .. Len(q) : i < j => q[i].at < q[j].at
    BY <1>1, Zenon DEF InOrder
  <2>2. \A i \in 1 .. Len(q) : q[i].at <= rx_clock
    BY <1>1, Zenon DEF InOrder
  <2>3. \A i \in 1 .. Len(rest) : n + i \in 1 .. Len(q) /\ rest[i].at = q[n + i].at
    BY <1>1, <1>3, <1>5, SMTT(30)
  <2>4. \A i, j \in 1 .. Len(rest) : i < j => n + i < n + j
    BY <1>3, <1>5
  <2>5. \A i, j \in 1 .. Len(rest) : i < j => rest[i].at < rest[j].at
    BY <2>1, <2>3, <2>4, Zenon
  <2> QED
    BY <2>2, <2>3, <2>5, Zenon DEF InOrder
<1>10. \A r \in RxPort : InOrder(rx_queue'[r], rx_clock')
  BY <1>2, <1>8, <1>9, Zenon DEF RxInv
<1>11. FreedAreOld'
  <2>1. Len(SubSeq(burst, 1, old)) = old /\ \A i \in 1 .. old : SubSeq(burst, 1, old)[i] = burst[i]
    BY <1>3, <1>4, <1>7
  <2>2. DOMAIN SubSeq(burst, 1, old) = 1 .. old
    BY <1>3, <1>4, <1>7
  <2>3. \A i \in 1 .. old : burst[i].at = q[i].at
    BY <1>3, <1>4, <1>7
  <2>4. \A x \in Packets(SubSeq(burst, 1, old)) : x.at < flush_timestamp
    BY <1>7, <2>1, <2>2, <2>3, Zenon DEF Packets
  <2> QED
    BY <1>2, <2>4, Zenon DEF RxInv, FreedAreOld
<1>12. flush_old_packets' \in [RxPort -> BOOLEAN]
  BY <1>2, Zenon DEF RxInv
<1>13. FlushedToTheEnd'
  <2> SUFFICES ASSUME ~rx_standing_by, flush_timestamp > 0, NEW r \in RxPort, ~flush_old_packets'[r],
                      NEW i \in 1 .. Len(rx_queue'[r])
               PROVE  rx_queue'[r][i].at >= flush_timestamp
    BY <1>2, <1>8, SMTT(30) DEF FlushedToTheEnd
  <2>1. ~flush_old_packets[r] => \A j \in 1 .. Len(rx_queue[r]) : rx_queue[r][j].at >= flush_timestamp
    BY QueueTyped DEF RxInv, FlushedToTheEnd
  <2>2. CASE r # p
    BY <1>2, <1>8, <2>1, <2>2, Zenon DEF RxInv
  <2>3. CASE r = p
    <3>1. n + i \in 1 .. Len(q) /\ rest[i].at = q[n + i].at /\ i \in Nat /\ i >= 1
      BY <1>1, <1>3, <1>5, <1>8, <2>3, SMTT(30)
    <3>2. CASE ~flush_old_packets[p]
      BY <1>8, <2>1, <2>3, <3>1, <3>2, Zenon DEF q
    <3>3. CASE flush_old_packets[p]
      <4>1. old # n
        BY <1>2, <2>3, <3>3, Zenon DEF RxInv
      <4>2. old + 1 \in 1 .. n /\ q[old + 1].at >= flush_timestamp
        BY <1>6, <3>3, <4>1, Zenon
      <4>3. old + 1 \in 1 .. Len(q) /\ old + 1 < n + i
        BY <1>1, <1>3, <1>7, <3>1, <4>2, SMTT(30)
      <4>4. q[old + 1].at < q[n + i].at
        BY <1>1, <3>1, <4>3, Zenon DEF InOrder
      <4>5. q[old + 1].at \in Nat /\ q[n + i].at \in Nat
        BY <1>1, <3>1, <4>3, Zenon
      <4> QED
        BY <1>1, <1>8, <2>3, <3>1, <4>2, <4>4, <4>5, SMTT(30)
    <3> QED
      BY <3>2, <3>3, Zenon
  <2> QED
    BY <2>2, <2>3, Zenon
<1> QED
  BY <1>2, <1>8, <1>10, <1>11, <1>12, <1>13, Zenon DEF RxInv

LEMMA RxInvariance ==
  RxSpec => []RxInv
<1>1. RxInv /\ [RxNext]_rx_vars => RxInv'
  <2> SUFFICES ASSUME RxInv, [RxNext]_rx_vars PROVE RxInv'
    OBVIOUS
  <2>1. CASE UNCHANGED rx_vars
    BY <2>1, Zenon DEF RxInv, rx_vars, InOrder, FlushedToTheEnd, FreedAreOld
  <2>2. CASE RxNext
    BY <2>2, ReceiveKeeps, TakeoverKeeps, WalkKeeps, Zenon DEF RxNext
  <2> QED
    BY <2>1, <2>2, Zenon
<1> QED
  BY <1>1, RxStart, PTL DEF RxSpec

(***************************************************************************)
(* For every burst size: an Rx node that has left the flush has nothing    *)
(* from before the takeover in its queue (rx_node_process).                *)
(***************************************************************************)
THEOREM FlushReachesTheEnd ==
  RxSpec => []FlushedToTheEnd
<1>1. RxInv => FlushedToTheEnd
  BY Zenon DEF RxInv
<1> QED
  BY <1>1, RxInvariance, PTL

(***************************************************************************)
(* The flush frees nothing that was received after the takeover            *)
(* (rx_find_old_packets).                                                  *)
(***************************************************************************)
THEOREM OnlyOldPacketsFreed ==
  RxSpec => []FreedAreOld
<1>1. RxInv => FreedAreOld
  BY Zenon DEF RxInv
<1> QED
  BY <1>1, RxInvariance, PTL

=============================================================================
