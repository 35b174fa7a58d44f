------------------------------- MODULE Capture -------------------------------
(***************************************************************************)
(* Capturing offloaded packets: dp_rte_flow_capture.c, the capture         *)
(* handlers of dp_grpc_impl.c, and the start and stop of the ports whose   *)
(* default flow rules capturing replaces (dp_port.c).  Offloading is on    *)
(* and the ports are not in multiport mode.                                *)
(*                                                                         *)
(* A VF has a rule that makes its packets jump to the group that handles   *)
(* them ("vnet"), or to one that copies them first ("capture").  A port    *)
(* holds a handle of each of its two default rules.  Destroying a rule     *)
(* leaves the handle behind, "stale"; what destroying a rule by a stale    *)
(* handle does is not defined.                                             *)
(***************************************************************************)
EXTENDS Naturals, Sequences

CONSTANTS
  CapVf, CapPf,   \* ports
  CapRequests,    \* lists of ports a CaptureStart may ask for, UNKNOWN included
  MaxCapFailures, \* bound: flow rules the driver refuses to install or destroy
  UNKNOWN         \* an interface that does not exist

VARIABLES
  cap_allocated,  \* port is started
  named,          \* VF has an interface id
  captured,
  jump_flow,      \* handle default_jump_flow, by what its rule does
  capture_flow,   \* handle default_capture_flow
  capture_enabled,
  undefined,      \* a rule was destroyed by a stale handle
  cap_failures,
  cap_last        \* the last request and its result

capRules == <<captured, jump_flow, capture_flow>>
capVars == <<cap_allocated, named, capRules, capture_enabled, undefined, cap_failures, cap_last>>

CapPort == CapVf \cup CapPf

ASSUME CapAssumption ==
  /\ CapVf \cap CapPf = {} /\ UNKNOWN \notin CapPort /\ MaxCapFailures \in Nat
  /\ \A l \in CapRequests : l \in Seq(CapPort \cup {UNKNOWN})

(* One port's rules while a request works on them. *)
Rules(jump, copy, undef) == [jump |-> jump, copy |-> copy, undef |-> undef]
RulesOf(p) == Rules(jump_flow[p], capture_flow[p], FALSE)
CapLive(h) == h \notin {"none", "stale"}
Destroyed(h) == IF h = "none" THEN "none" ELSE "stale"

(* What a call leaves behind, with the number of failures: it succeeds     *)
(* without any.  The driver may refuse to turn the rules r into s.         *)
Outcome(fails, rules) == [fails |-> fails, rules |-> rules]
Ok(o) == o.fails = 0
Tried(r, s) == {Outcome(0, s), Outcome(1, r)}

(* dp_destroy_default_flow(): the second rule is not tried when the first  *)
(* one fails.                                                              *)
destroy_default_flow(r) ==
  LET gone1 == Rules(Destroyed(r.jump), r.copy, r.undef \/ r.jump = "stale")
      gone2 == Rules(Destroyed(r.jump), Destroyed(r.copy), gone1.undef \/ r.copy = "stale")
  IN  Tried(r, gone2) \cup (IF r.copy = "none" THEN {} ELSE {Outcome(1, gone1)})

(* dp_install_jump_rule_in_default_group(): packets jump to the group.     *)
install_jump_rule(r, group) == Tried(r, Rules(group, r.copy, r.undef))

(* dp_install_default_rule_in_capture_group() and the actions of           *)
(* dp_configure_pkt_capture_action(): in the capture group packets are     *)
(* copied to the capture node, and jump on.                                *)
install_capture_rule(r) == Tried(r, Rules(r.jump, "on", r.undef))

(* a, and after its success b. *)
Then(A, B(_)) ==
  UNION {IF Ok(a) THEN B(a.rules) ELSE {a} : a \in A}

(* dp_enable_pkt_capture() on a port that is started and not captured.  A  *)
(* VF whose second rule is refused gets its old rule back.                 *)
enable_pkt_capture(p) ==
  LET Back(r) == Then(destroy_default_flow(r), LAMBDA x : install_jump_rule(x, "vnet"))
      CopyOrBack(r) ==
        UNION {IF Ok(c) THEN {c}
               ELSE {Outcome(b.fails + 1, b.rules) : b \in Back(r)}
               : c \in install_capture_rule(r)}
  IN  Then(destroy_default_flow(RulesOf(p)),
           LAMBDA r : IF p \in CapPf THEN install_capture_rule(r)
                      ELSE Then(install_jump_rule(r, "capture"), CopyOrBack))

(* dp_disable_pkt_capture_on_all_ifaces() calls dp_enable_pkt_capture(),   *)
(* which refuses the first port that is captured, and changes nothing.     *)
DisableAllFails(c) == \E p \in CapPort : cap_allocated[p] /\ c[p]

-----------------------------------------------------------------------------
CapInit ==
  /\ cap_allocated = [p \in CapPort |-> p \in CapPf]
  /\ named = [p \in CapPort |-> p \in CapPf]
  /\ captured = [p \in CapPort |-> FALSE]
  /\ jump_flow = [p \in CapPort |-> "none"]
  /\ capture_flow = [p \in CapPort |-> "none"]
  /\ capture_enabled = FALSE /\ undefined = FALSE /\ cap_failures = 0
  /\ cap_last = [call |-> "none", result |-> "OK", ports |-> <<>>]

Took(p, o) ==
  /\ cap_failures + o.fails <= MaxCapFailures
  /\ cap_failures' = cap_failures + o.fails
  /\ undefined' = (undefined \/ o.rules.undef)
  /\ jump_flow' = [jump_flow EXCEPT ![p] = o.rules.jump]
  /\ capture_flow' = [capture_flow EXCEPT ![p] = o.rules.copy]

(* dp_start_port() when an interface is created; without its first rule    *)
(* the process ends.                                                       *)
StartPort(p) ==
  /\ p \in CapVf /\ ~cap_allocated[p]
  /\ \E o \in install_jump_rule(RulesOf(p), "vnet") : Ok(o) /\ Took(p, o)
  /\ cap_allocated' = [cap_allocated EXCEPT ![p] = TRUE]
  /\ named' = [named EXCEPT ![p] = TRUE]
  /\ cap_last' = [call |-> "port", result |-> "OK", ports |-> <<p>>]
  /\ UNCHANGED <<captured, capture_enabled>>

(* Mutant: the rules are not destroyed. *)
StopPortKeepsRules(p) ==
  /\ p \in CapVf /\ named[p]
  /\ cap_allocated' = [cap_allocated EXCEPT ![p] = FALSE]
  /\ named' = [named EXCEPT ![p] = FALSE]
  /\ cap_last' = [call |-> "port", result |-> "OK", ports |-> <<p>>]
  /\ UNCHANGED <<capRules, undefined, cap_failures, capture_enabled>>

(* dp_stop_port() when it is deleted.  The interface goes even when a rule *)
(* or the device cannot be stopped; "captured" keeps its value.            *)
StopPort(p) ==
  /\ p \in CapVf /\ named[p]
  /\ \E o \in destroy_default_flow(RulesOf(p)), devfails \in {0, 1} :
       /\ Ok(o) \/ devfails = 0
       /\ Took(p, Outcome(o.fails + devfails, o.rules))
       /\ cap_allocated' = [cap_allocated EXCEPT ![p] = ~Ok(o) \/ devfails = 1]
  /\ named' = [named EXCEPT ![p] = FALSE]
  /\ cap_last' = [call |-> "port", result |-> "OK", ports |-> <<p>>]
  /\ UNCHANGED <<captured, capture_enabled>>

(* dp_process_capture_start(), one port of the list per step; the requests *)
(* of a CaptureStart are not interrupted.                                  *)
StartAnswers(r, c) ==
  /\ cap_last' = [call |-> "start", ports |-> cap_last.ports,
                  result |-> IF r # "OK" /\ DisableAllFails(c) THEN "ROLLBACK" ELSE r]
  /\ capture_enabled' = (r = "OK")

CaptureStart(l) ==
  /\ ~capture_enabled
  /\ cap_last' = [call |-> "starting", result |-> 1, ports |-> l]
  /\ UNCHANGED <<cap_allocated, named, capRules, capture_enabled, undefined, cap_failures>>

CaptureStartPort ==
  LET p == cap_last.ports[cap_last.result]
  IN  /\ cap_last.call = "starting" /\ cap_last.result <= Len(cap_last.ports)
      /\ \/ /\ p = UNKNOWN \/ (p \in CapPort /\ (~named[p] \/ captured[p]))
            /\ StartAnswers("refused", captured)
            /\ UNCHANGED <<capRules, undefined, cap_failures>>
         \/ /\ p # UNKNOWN /\ named[p] /\ ~captured[p]
            /\ \E o \in enable_pkt_capture(p) :
                 /\ Took(p, o)
                 /\ captured' = [captured EXCEPT ![p] = Ok(o)]
                 /\ IF Ok(o)
                    THEN /\ cap_last' = [call |-> "starting", result |-> cap_last.result + 1, ports |-> cap_last.ports]
                         /\ UNCHANGED capture_enabled
                    ELSE StartAnswers("refused", captured')
      /\ UNCHANGED <<cap_allocated, named>>

CaptureStarted ==
  /\ cap_last.call = "starting" /\ cap_last.result > Len(cap_last.ports)
  /\ StartAnswers("OK", captured)
  /\ UNCHANGED <<cap_allocated, named, capRules, undefined, cap_failures>>

(* dp_process_capture_stop() *)
CaptureStop ==
  /\ capture_enabled
  /\ IF DisableAllFails(captured)
     THEN /\ cap_last' = [call |-> "stop", result |-> "refused", ports |-> <<>>]
          /\ UNCHANGED capture_enabled
     ELSE /\ cap_last' = [call |-> "stop", result |-> "OK", ports |-> <<>>]
          /\ capture_enabled' = FALSE
  /\ UNCHANGED <<cap_allocated, named, capRules, undefined, cap_failures>>

Interruptible == cap_last.call # "starting"

CapNext ==
  \/ /\ Interruptible
     /\ \/ \E p \in CapVf : StartPort(p) \/ StopPort(p)
        \/ \E l \in CapRequests : CaptureStart(l)
        \/ CaptureStop
  \/ CaptureStartPort \/ CaptureStarted

CapSpec == CapInit /\ [][CapNext]_capVars

-----------------------------------------------------------------------------
(* The type of the handles and flags. *)
CapTypeOK ==
  /\ cap_allocated \in [CapPort -> BOOLEAN] /\ named \in [CapPort -> BOOLEAN]
  /\ captured \in [CapPort -> BOOLEAN]
  /\ jump_flow \in [CapPort -> {"none", "stale", "vnet", "capture"}]
  /\ capture_flow \in [CapPort -> {"none", "stale", "on"}]
  /\ capture_enabled \in BOOLEAN /\ undefined \in BOOLEAN
  /\ cap_failures \in 0 .. MaxCapFailures

(***************************************************************************)
(* As long as the driver refuses nothing, the packets of a VF that is      *)
(* started reach the group that handles them, directly or through the      *)
(* capture group, and no rule survives the stop of its port: turning the   *)
(* capture on, deleting a captured interface and creating it again         *)
(* included.                                                               *)
(***************************************************************************)
PacketsStayHandled ==
  cap_failures = 0 /\ ~undefined => \A p \in CapVf :
    IF cap_allocated[p]
    THEN jump_flow[p] = "vnet" \/ (jump_flow[p] = "capture" /\ capture_flow[p] = "on")
    ELSE ~CapLive(jump_flow[p]) /\ ~CapLive(capture_flow[p])

(***************************************************************************)
(* CaptureStart does all or nothing, or says so: unless it answers         *)
(* ROLLBACK, a refused request has left no port captured, and after OK     *)
(* every port of the list is.                                              *)
(***************************************************************************)
StartIsAllOrNothing ==
  cap_last.call = "start" =>
    /\ cap_last.result = "refused" => \A p \in CapPort : cap_allocated[p] => ~captured[p]
    /\ cap_last.result = "OK" => \A i \in DOMAIN cap_last.ports : captured[cap_last.ports[i]]

(***************************************************************************)
(* A rule is destroyed through a stale handle only after a refused rule or *)
(* after a captured interface was deleted and created again: the handles   *)
(* and the flag "captured" of a port outlive its stop.                     *)
(***************************************************************************)
StaleOnlyAfterRestart ==
  [][undefined' /\ ~undefined => cap_failures' > 0 \/ \E p \in CapVf : captured[p] /\ cap_allocated[p]
       /\ capture_flow[p] = "stale"]_capVars

(***************************************************************************)
(* docs/deployment/capture_offloaded_rx_pkts.md: "The following command is *)
(* used to stop capturing on all configured interfaces."                   *)
(***************************************************************************)
StopStopsCapturing ==
  cap_last.call = "stop" => \A p \in CapPort : ~(cap_allocated[p] /\ captured[p])

=============================================================================
