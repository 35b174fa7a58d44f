------------------------------- MODULE HaSync -------------------------------
(***************************************************************************)
(* Two dpservice processes, one active and one standing by: who processes  *)
(* packets (dpdk_layer.c), and how the standby process is kept up to date  *)
(* (dp_sync.c, sync_node.c, the sync functions of dp_nat.c, dp_flow.c and  *)
(* dp_port.c).                                                             *)
(*                                                                         *)
(* The NAT table is that of one portmap key: its portmap entry, which      *)
(* counts its flows, and the portoverload entries of those flows.  The     *)
(* connections of the virtual services and the neighbours' addresses take  *)
(* the same way; a message overwrites them.                                *)
(***************************************************************************)
EXTENDS Naturals, FiniteSets, Sequences

CONSTANTS
  Proc,         \* the two processes
  Overload,     \* portoverload keys of the flows
  NOBODY,
  MaxQueue,     \* bound: a process with that many messages to read is sent no news
  MaxEnds       \* bound: how often a process crashes or is told to quit

VARIABLES
  pc,           \* where the worker is; see below
  lockholder,   \* process that holds the active lock
  standing_by,
  overload,     \* keys in the process's portoverload table
  flow_cnt,     \* flows its portmap entry counts; 0: no entry
  channel,      \* messages to the process, in order
  dumped,       \* its dump request is answered; "outdated": by a process since replaced
  early,        \* it was told of NAT flows before that
  lost,         \* the sync port dropped a message to it
  missed,       \* it turned down a message that came in its sleep
  ends

(* Worker: "off", "starting" (sync port is started), "check" (evaluates    *)
(* the condition of the standby loop), "asleep" (in that loop), "active",  *)
(* "stopping" (active, told to quit, still in its last graph walk).        *)
haWorker == <<pc, lockholder, standing_by>>
haTables == <<overload, flow_cnt>>
haVars == <<haWorker, haTables, channel, dumped, early, lost, missed, ends>>

ASSUME NobodyAssumption == NOBODY \notin Proc
ASSUME HaAssumption ==
  /\ \E p, q \in Proc : p # q /\ Proc = {p, q}
  /\ IsFiniteSet(Overload)

Peer(p) == CHOOSE q \in Proc : q # p
HasRoom(p) == Len(channel[Peer(p)]) < MaxQueue
Processing(p) == pc[p] \in {"active", "stopping"}
Standby(p) == pc[p] \in {"check", "asleep"}

-----------------------------------------------------------------------------
(* A process's tables while messages are applied to them. *)
Tables(p) == [overload |-> overload[p], cnt |-> flow_cnt[p]]
EmptyTables == [overload |-> {}, cnt |-> 0]

(* Mutant: a flow that is known is counted again. *)
sync_createTwice(t, o) == [overload |-> t.overload \cup {o}, cnt |-> t.cnt + 1]

(* dp_allocate_sync_snat_port(): a key that is there is ignored, but only  *)
(* while the portmap entry is.                                             *)
sync_create(t, o) ==
  IF t.cnt > 0 /\ o \in t.overload THEN t
  ELSE [overload |-> t.overload \cup {o}, cnt |-> t.cnt + 1]

(* dp_delete_snat_entries(): the portmap entry counts a flow less even     *)
(* when the portoverload key was not there.                                *)
delete_snat_entries(t, o) ==
  [overload |-> t.overload \ {o}, cnt |-> IF t.cnt = 0 THEN 0 ELSE t.cnt - 1]

(* Mutant: flows that ended are not taken note of. *)
backup_processKeeps(t, m) == IF m.type = "create" THEN sync_create(t, m.arg) ELSE t

(* process_packet() in backup mode; a dump request is turned down. *)
backup_process(t, m) ==
  CASE m.type = "create" -> sync_create(t, m.arg)
    [] m.type = "delete" -> delete_snat_entries(t, m.arg)
    [] OTHER -> t

(* What is left of the tables after the messages ms, in their order. *)
Processed(t, ms) ==
  LET after[n \in 0 .. Len(ms)] == IF n = 0 THEN t ELSE backup_process(after[n - 1], ms[n])
  IN  after[Len(ms)]

Msg(type, arg) == [type |-> type, arg |-> arg]

(* dp_synchronize_local_nat_flows(): every entry once, in the table's order. *)
Dump(p) ==
  LET S     == overload[p]
      order == CHOOSE f \in [1 .. Cardinality(S) -> S] : \A o \in S : \E i \in DOMAIN f : f[i] = o
  IN  [i \in DOMAIN order |-> Msg("create", order[i])]

(* Messages as they reach q; "slept" records whether its worker was in its *)
(* sleep.                                                                  *)
Arriving(q, ms) ==
  [i \in DOMAIN ms |-> [type |-> ms[i].type, arg |-> ms[i].arg,
                        slept |-> IF pc[q] = "asleep" THEN "yes" ELSE "no"]]

(* dp_sync_send_message() of p: a message the port does not take is gone,  *)
(* and the caller is not told.  ch are the channels as they are then.      *)
(* Bound: one lost message in the life of the receiver.                    *)
HaSend(p, msgs, ch) ==
  LET q == Peer(p)
      To(ms) == [ch EXCEPT ![q] = @ \o Arriving(q, ms)]
  IN  \/ /\ pc[q] = "off"
         /\ channel' = ch
         /\ UNCHANGED lost
      \/ /\ pc[q] # "off"
         /\ channel' = To(msgs)
         /\ UNCHANGED lost
      \/ /\ pc[q] # "off" /\ \A r \in Proc : ~lost[r]
         /\ \E i \in DOMAIN msgs : channel' = To(SubSeq(msgs, 1, i - 1) \o SubSeq(msgs, i + 1, Len(msgs)))
         /\ lost' = [lost EXCEPT ![q] = TRUE]

-----------------------------------------------------------------------------
HaInit ==
  /\ pc = [p \in Proc |-> "off"] /\ lockholder = NOBODY
  /\ standing_by = [p \in Proc |-> TRUE]
  /\ overload = [p \in Proc |-> {}] /\ flow_cnt = [p \in Proc |-> 0]
  /\ channel = [p \in Proc |-> <<>>]
  /\ dumped = [p \in Proc |-> "no"] /\ early = [p \in Proc |-> FALSE]
  /\ lost = [p \in Proc |-> FALSE] /\ missed = FALSE /\ ends = 0

(* init_interfaces() up to dp_start_sync_port(), with everything empty. *)
Start(p) ==
  /\ pc[p] = "off"
  /\ pc' = [pc EXCEPT ![p] = "starting"]
  /\ standing_by' = [standing_by EXCEPT ![p] = TRUE]
  /\ overload' = [overload EXCEPT ![p] = {}]
  /\ flow_cnt' = [flow_cnt EXCEPT ![p] = 0]
  /\ dumped' = [dumped EXCEPT ![p] = "no", ![Peer(p)] =
       IF Tables(Peer(p)) # EmptyTables \/ channel[Peer(p)] # <<>> THEN "outdated" ELSE @]
  /\ early' = [early EXCEPT ![p] = FALSE]
  /\ lost' = [lost EXCEPT ![p] = FALSE]
  /\ UNCHANGED <<lockholder, channel, missed, ends>>

(* graph_main_loop() begins *)
RequestDump(p) ==
  /\ pc[p] = "starting"
  /\ pc' = [pc EXCEPT ![p] = "check"]
  /\ HaSend(p, <<Msg("dump", NOBODY)>>, channel)
  /\ UNCHANGED <<lockholder, standing_by, haTables, dumped, early, missed, ends>>

(* dp_standby_thread() *)
Acquire(p) ==
  /\ lockholder = NOBODY /\ standing_by[p] /\ pc[p] # "off"
  /\ lockholder' = p
  /\ standing_by' = [standing_by EXCEPT ![p] = FALSE]
  /\ UNCHANGED <<pc, haTables, channel, dumped, early, lost, missed, ends>>

(* The loop's condition; out of the loop the mode is switched and packet   *)
(* processing starts.                                                      *)
Check(p) ==
  /\ pc[p] = "check"
  /\ pc' = [pc EXCEPT ![p] = IF standing_by[p] THEN "asleep" ELSE "active"]
  /\ UNCHANGED <<lockholder, standing_by, haTables, channel, dumped, early, lost, missed, ends>>

(* Mutant: the walk comes before the sleep. *)
StandbyWalkFirst(p) ==
  LET Late(m) == m.slept = "yes"
      InTime(m) == m.slept = "no"
      t == Processed(Tables(p), SelectSeq(channel[p], InTime))
  IN  /\ pc[p] = "asleep"
      /\ pc' = [pc EXCEPT ![p] = "check"]
      /\ overload' = [overload EXCEPT ![p] = t.overload]
      /\ flow_cnt' = [flow_cnt EXCEPT ![p] = t.cnt]
      /\ channel' = [channel EXCEPT ![p] = SelectSeq(@, Late)]
      /\ UNCHANGED <<lockholder, standing_by, dumped, early, lost, missed, ends>>

(* The end of the sleep and the walk: sync_node_process() empties the      *)
(* queue in backup mode.                                                   *)
StandbyWalk(p) ==
  LET t == Processed(Tables(p), channel[p])
  IN  /\ pc[p] = "asleep"
      /\ pc' = [pc EXCEPT ![p] = "check"]
      /\ overload' = [overload EXCEPT ![p] = t.overload]
      /\ flow_cnt' = [flow_cnt EXCEPT ![p] = t.cnt]
      /\ channel' = [channel EXCEPT ![p] = <<>>]
      /\ UNCHANGED <<lockholder, standing_by, dumped, early, lost, missed, ends>>

(* process_packet() of an active process answers requests, and turns       *)
(* everything else down.                                                   *)
ActiveSync(p) ==
  LET q == Peer(p)
      m == Head(channel[p])
      rest == [channel EXCEPT ![p] = Tail(@)]
  IN  /\ Processing(p) /\ channel[p] # <<>>
      /\ IF m.type = "dump"
         THEN /\ HaSend(p, Dump(p), rest)
              /\ dumped' = [dumped EXCEPT ![q] = IF pc[q] # "off" /\ @ = "no" THEN "yes" ELSE @]
              /\ early' = [early EXCEPT ![q] =
                   overload[q] # {} \/ \E i \in DOMAIN channel[q] : channel[q][i].type = "create"]
              /\ UNCHANGED missed
         ELSE /\ channel' = rest
              /\ missed' = (missed \/ m.slept = "yes")
              /\ UNCHANGED <<dumped, early, lost>>
      /\ UNCHANGED <<haWorker, haTables, ends>>

(* A packet of a new flow gets a NAT port, and the flow times out; the     *)
(* other process is told.                                                  *)
FlowBegins(p, o) ==
  /\ Processing(p) /\ o \notin overload[p] /\ HasRoom(p)
  /\ overload' = [overload EXCEPT ![p] = @ \cup {o}]
  /\ flow_cnt' = [flow_cnt EXCEPT ![p] = @ + 1]
  /\ HaSend(p, <<Msg("create", o)>>, channel)
  /\ UNCHANGED <<haWorker, dumped, early, missed, ends>>

FlowAges(p, o) ==
  LET t == delete_snat_entries(Tables(p), o)
  IN  /\ Processing(p) /\ o \in overload[p] /\ HasRoom(p)
      /\ overload' = [overload EXCEPT ![p] = t.overload]
      /\ flow_cnt' = [flow_cnt EXCEPT ![p] = t.cnt]
      /\ HaSend(p, <<Msg("delete", o)>>, channel)
      /\ UNCHANGED <<haWorker, dumped, early, missed, ends>>

(* Mutant: the lock survives the process. *)
GoneKeepsLock(p) ==
  /\ pc' = [pc EXCEPT ![p] = "off"]
  /\ channel' = [channel EXCEPT ![p] = <<>>]
  /\ UNCHANGED <<lockholder, standing_by, haTables, dumped, early, lost, missed>>

(* A process is gone, and with it its lock and what it did not read. *)
Gone(p) ==
  /\ pc' = [pc EXCEPT ![p] = "off"]
  /\ lockholder' = IF lockholder = p THEN NOBODY ELSE lockholder
  /\ channel' = [channel EXCEPT ![p] = <<>>]
  /\ UNCHANGED <<standing_by, haTables, dumped, early, lost, missed>>

Crash(p) ==
  /\ pc[p] # "off" /\ ends < MaxEnds
  /\ ends' = ends + 1
  /\ Gone(p)

(* The worker's last walk is over and the process ends. *)
Exit(p) == pc[p] = "stopping" /\ Gone(p) /\ UNCHANGED ends

(* dp_force_quit() closes the lock file at once; the worker of an active   *)
(* process finishes its graph walk.                                        *)
Quit(p) ==
  /\ pc[p] = "active" /\ ends < MaxEnds
  /\ ends' = ends + 1
  /\ pc' = [pc EXCEPT ![p] = "stopping"]
  /\ lockholder' = NOBODY
  /\ UNCHANGED <<standing_by, haTables, channel, dumped, early, lost, missed>>

HaNext == \E p \in Proc :
  \/ Start(p) \/ RequestDump(p) \/ Acquire(p) \/ Check(p) \/ StandbyWalk(p)
  \/ ActiveSync(p) \/ Crash(p) \/ Quit(p) \/ Exit(p)
  \/ \E o \in Overload : FlowBegins(p, o) \/ FlowAges(p, o)

(* The threads of a running process keep running. *)
HaFairness == \A p \in Proc :
  WF_haVars(RequestDump(p)) /\ WF_haVars(Acquire(p)) /\ WF_haVars(Check(p)) /\ WF_haVars(StandbyWalk(p))

HaSpec == HaInit /\ [][HaNext]_haVars /\ HaFairness

-----------------------------------------------------------------------------
(* The type of the processes' state. *)
HaTypeOK ==
  /\ pc \in [Proc -> {"off", "starting", "check", "asleep", "active", "stopping"}]
  /\ lockholder \in Proc \cup {NOBODY} /\ standing_by \in [Proc -> BOOLEAN]
  /\ overload \in [Proc -> SUBSET Overload] /\ flow_cnt \in [Proc -> 0 .. Cardinality(Overload)]
  /\ missed \in BOOLEAN /\ ends \in 0 .. MaxEnds

(***************************************************************************)
(* Both processes process packets at the same time only while one of them  *)
(* finishes the graph walk during which it was told to quit.               *)
(***************************************************************************)
OneActive ==
  \A p, q \in Proc : p # q /\ pc[p] = "active" => pc[q] # "active"

(***************************************************************************)
(* The comment in graph_main_loop(): sync messages that arrive during the  *)
(* sleep of the standby process are still processed in backup mode; none   *)
(* is left in the queue to be rejected once the process is active.         *)
(***************************************************************************)
SleepMissesNothing == ~missed

InStep(p, q) ==
  pc[p] = "active" /\ Standby(q) /\ dumped[q] = "yes" /\ ~lost[q] /\ channel[q] = <<>>

(***************************************************************************)
(* A standby process whose dump request was answered, that lost no message *)
(* and has read all of them, has the flows of the active one, whatever     *)
(* happened while it started; and if it was told of no flow before the     *)
(* dump, its portmap entry counts the flows as a right active one does.    *)
(***************************************************************************)
FlowsConverge == \A p, q \in Proc : InStep(p, q) =>
  /\ overload[q] = overload[p]
  /\ ~early[q] /\ flow_cnt[p] = Cardinality(overload[p]) => flow_cnt[q] = flow_cnt[p]

(***************************************************************************)
(* A process that stands by becomes active, unless it ends or another one  *)
(* is active: whoever loses the lock, and whether it crashed or quit.      *)
(***************************************************************************)
StandbyTakesOver == \A p \in Proc :
  Standby(p) ~> (pc[p] = "off" \/ \E q \in Proc : Processing(q))
=============================================================================
