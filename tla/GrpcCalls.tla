----------------------------- MODULE GrpcCalls -----------------------------
(***************************************************************************)
(* How a gRPC call travels: the gRPC thread (GRPCService::HandleRpcs(),    *)
(* BaseCall::HandleRpc()) writes one request into grpc_tx_queue and spins  *)
(* until the graph worker's reply, one message buffer or a chain of them,  *)
(* has come back through grpc_rx_queue (dp_grpc_responder.c).  The calls   *)
(* are reduced to the five shapes the code tells apart: Initialize, which  *)
(* needs no initialization; CheckInitialized, which never reaches the      *)
(* worker; Create and Delete, answered by one buffer; and List, whose      *)
(* reply is as long as the table it lists.                                 *)
(***************************************************************************)
EXTENDS Naturals, Sequences

CONSTANTS
  RepCapacity,    \* rep_capacity: how many messages one reply buffer holds
  MaxReplies,     \* DP_GRPC_REPLY_ARR_SIZE: the longest chain (48)
  RxSize,         \* what grpc_rx_queue holds (DP_GRPC_Q_SIZE - 1)
  MaxEntries,     \* how many entries the listed table has room for
  MaxGrpcFailures,\* bound: how often an allocation or a table operation fails
  NOCALL          \* the gRPC thread waits in cq_->Next()

\* The longest chain fits into the empty ring.
ASSUME ChainFitsRing == MaxReplies <= RxSize

ASSUME GrpcBounds == {RepCapacity, MaxReplies, RxSize} \subseteq Nat \ {0}

VARIABLES
  initialized,    \* GRPCService::initialized
  call,           \* the call the gRPC thread handles: its type and reply_ so far
  grpc_tx_queue,  \* requests to the worker
  grpc_rx_queue,  \* reply buffers from the worker
  entries,        \* the table that Create and Delete change, as a sequence
  work,           \* what the worker did for the call: its result and the table it listed
  answer,         \* the answer of the last finished call, with what the worker did
  grpc_failures

grpc_vars == <<initialized, call, grpc_tx_queue, grpc_rx_queue, entries, work, answer,
               grpc_failures>>

CallType == {"Initialize", "CheckInitialized", "Create", "Delete", "List"}

NoWork == [code |-> "none", table |-> <<>>]

GrpcInit ==
  /\ initialized = FALSE
  /\ call = NOCALL
  /\ grpc_tx_queue = <<>>
  /\ grpc_rx_queue = <<>>
  /\ entries = <<>>
  /\ work = NoWork
  /\ answer = [type |-> "none", grpc |-> "none", code |-> "none", got |-> <<>>, work |-> NoWork]
  /\ grpc_failures = 0

GrpcFails ==
  /\ grpc_failures < MaxGrpcFailures
  /\ grpc_failures' = grpc_failures + 1

GrpcWorks == UNCHANGED grpc_failures

\* Finish(): the client gets a gRPC status and, with OK, the status and list set so far.
Finish(type, grpc, code, got) ==
  /\ answer' = [type |-> type, grpc |-> grpc, code |-> code, got |-> got, work |-> work]
  /\ call' = NOCALL
  /\ work' = NoWork

\* HandleRpc() in REQUEST, up to a request that is answered without the worker: before
\* Initialize, refused by FillRequest(), or not written to the ring.  Initialize carries
\* nothing that FillRequest() could refuse, and neither does CheckInitialized.
RequestRefused(type) ==
  /\ call = NOCALL
  /\ \/ type # "Initialize" /\ ~initialized /\ GrpcWorks
        /\ Finish(type, "ABORTED", "none", <<>>)
     \/ type \in {"Create", "Delete", "List"} /\ initialized /\ GrpcWorks
        /\ Finish(type, "INVALID_ARGUMENT", "none", <<>>)
     \/ type # "CheckInitialized" /\ (initialized \/ type = "Initialize") /\ GrpcFails
        /\ Finish(type, "INTERNAL", "none", <<>>)
  /\ UNCHANGED <<initialized, grpc_tx_queue, grpc_rx_queue, entries>>

\* HandleRpc() in REQUEST, with the request written; HandleRpcs() then calls it until it
\* leaves AWAIT_MSG.
RequestWritten(type) ==
  /\ call = NOCALL
  /\ type # "CheckInitialized"
  /\ initialized \/ type = "Initialize"
  /\ call' = [type |-> type, code |-> "none", got |-> <<>>]
  /\ grpc_tx_queue' = Append(grpc_tx_queue, type)
  /\ UNCHANGED <<initialized, grpc_rx_queue, entries, work, answer, grpc_failures>>

\* NoIpcCall: CheckInitialized writes no request and waits for no reply.
CheckInitialized ==
  /\ call = NOCALL
  /\ initialized
  /\ Finish("CheckInitialized", "OK", "OK", <<>>)
  /\ UNCHANGED <<initialized, grpc_tx_queue, grpc_rx_queue, entries, grpc_failures>>

\* A reply buffer as the worker leaves it in the ring.
GrpcReply(type, chained, code, msgs) ==
  [type |-> type, is_chained |-> chained, err_code |-> code, msgs |-> msgs]

\* dp_grpc_add_reply(), dp_grpc_alloc_reply(): the chain that carries the messages s, filled
\* buffer by buffer; a new buffer marks the one before it as chained, only the first holds the
\* error code, and the last one holds what is left.
ChainLength(s) == IF s = <<>> THEN 1 ELSE (Len(s) + RepCapacity - 1) \div RepCapacity

\* Mutant: the last buffer is marked as chained, too.
ChainWithoutEnd(type, code, s) ==
  [i \in 1 .. ChainLength(s) |->
     GrpcReply(type, TRUE, IF i = 1 THEN code ELSE "OK",
           SubSeq(s, (i - 1) * RepCapacity + 1,
                     IF i * RepCapacity < Len(s) THEN i * RepCapacity ELSE Len(s)))]

Chain(type, code, s) ==
  [i \in 1 .. ChainLength(s) |->
     GrpcReply(type, i < ChainLength(s), IF i = 1 THEN code ELSE "OK",
           SubSeq(s, (i - 1) * RepCapacity + 1,
                     IF i * RepCapacity < Len(s) THEN i * RepCapacity ELSE Len(s)))]

\* dp_grpc_send_response(): what does not fit into the ring is freed.
send_response(replies) ==
  grpc_rx_queue' = grpc_rx_queue \o
    SubSeq(replies, 1, IF Len(replies) + Len(grpc_rx_queue) <= RxSize THEN Len(replies)
                       ELSE RxSize - Len(grpc_rx_queue))

\* dp_process_request() for a call that is answered by one buffer.  Initialize empties the
\* tables, and fails without emptying all of them when a table cannot be created again.
WorkSingle(type) ==
  /\ \/ /\ type = "Create" /\ Len(entries) < MaxEntries
        /\ entries' = Append(entries, Len(entries) + 1)
        /\ work' = [code |-> "OK", table |-> <<>>]
        /\ GrpcWorks
     \/ /\ type = "Delete" /\ entries # <<>>
        /\ entries' = SubSeq(entries, 1, Len(entries) - 1)
        /\ work' = [code |-> "OK", table |-> <<>>]
        /\ GrpcWorks
     \/ /\ \/ type = "Create" /\ Len(entries) = MaxEntries
           \/ type = "Delete" /\ entries = <<>>
        /\ work' = [code |-> "REFUSED", table |-> <<>>]
        /\ UNCHANGED entries
        /\ GrpcWorks
     \/ /\ type = "Initialize"
        /\ entries' = <<>>
        /\ work' = [code |-> "OK", table |-> <<>>]
        /\ GrpcWorks
     \/ /\ type \in {"Initialize", "Create"}
        /\ work' = [code |-> "ERROR", table |-> <<>>]
        /\ UNCHANGED entries
        /\ GrpcFails
  /\ send_response(<<GrpcReply(type, FALSE, work'.code, <<>>)>>)

\* The list handlers: they stop with DP_GRPC_ERR_OUT_OF_MEMORY at the first message that needs
\* a buffer more than the array of replies holds, or one that cannot be allocated.
WorkList ==
  \E n \in 0 .. Len(entries) :
    LET full  == MaxReplies * RepCapacity
        whole == n = Len(entries) /\ n <= full
    IN  /\ work' = [code |-> IF whole THEN "OK" ELSE "OUT_OF_MEMORY", table |-> entries]
        /\ \/ whole /\ GrpcWorks
           \/ n = full /\ n < Len(entries) /\ GrpcWorks
           \/ n < full /\ n < Len(entries) /\ n > 0 /\ n % RepCapacity = 0 /\ GrpcFails
        /\ send_response(Chain("List", work'.code, SubSeq(entries, 1, n)))
        /\ UNCHANGED entries

\* dp_process_request(), called by the worker's periodic node for every request in the ring.
Work ==
  /\ grpc_tx_queue # <<>>
  /\ grpc_tx_queue' = Tail(grpc_tx_queue)
  /\ IF Head(grpc_tx_queue) = "List" THEN WorkList ELSE WorkSingle(Head(grpc_tx_queue))
  /\ UNCHANGED <<initialized, call, answer>>

\* SingleReplyCall::HandleReply(); InitializeCall::ParseReply() sets the init status.
SingleReply ==
  LET reply == Head(grpc_rx_queue)
  IN  /\ call.type # "List"
      /\ IF reply.type # call.type \/ reply.is_chained \/ reply.msgs # <<>>
         THEN Finish(call.type, "INTERNAL", "none", <<>>) /\ UNCHANGED initialized
         ELSE /\ Finish(call.type, "OK", reply.err_code, <<>>)
              /\ initialized' = (initialized \/ (call.type = "Initialize" /\ reply.err_code = "OK"))

\* MultiReplyCall::HandleReply(), one turn of its loop: the messages of a buffer that holds an
\* error are skipped, the status is that of the buffer read last, and the loop ends with the
\* first buffer that is not chained.
MultiReply ==
  LET reply == Head(grpc_rx_queue)
      got   == IF reply.err_code = "OK" THEN call.got \o reply.msgs ELSE call.got
  IN  /\ call.type = "List"
      /\ UNCHANGED initialized
      /\ IF reply.type # call.type
         THEN Finish(call.type, "INTERNAL", "none", <<>>)
         ELSE IF reply.is_chained
         THEN call' = [call EXCEPT !.code = reply.err_code, !.got = got] /\ UNCHANGED <<work, answer>>
         ELSE Finish(call.type, "OK", reply.err_code, got)

\* HandleRpc() in AWAIT_MSG with a buffer to read; without one it is called again.
HandleReply ==
  /\ call # NOCALL
  /\ grpc_rx_queue # <<>>
  /\ grpc_rx_queue' = Tail(grpc_rx_queue)
  /\ SingleReply \/ MultiReply
  /\ UNCHANGED <<grpc_tx_queue, entries, grpc_failures>>

GrpcNext ==
  \/ \E type \in CallType : RequestRefused(type) \/ RequestWritten(type)
  \/ CheckInitialized
  \/ Work
  \/ HandleReply

\* The worker walks its graph for ever and looks into the ring on every walk, and the gRPC
\* thread spins on the call it has written.
GrpcFairness == WF_grpc_vars(Work) /\ WF_grpc_vars(HandleReply)

GrpcSpec == GrpcInit /\ [][GrpcNext]_grpc_vars /\ GrpcFairness

-----------------------------------------------------------------------------
\* Type invariant.
GrpcTypeOK ==
  /\ initialized \in BOOLEAN
  /\ call = NOCALL \/ call.type \in CallType \ {"CheckInitialized"}
  /\ Len(grpc_tx_queue) <= 1
  /\ Len(grpc_rx_queue) <= RxSize
  /\ Len(entries) <= MaxEntries
  /\ answer.grpc \in {"none", "OK", "ABORTED", "INVALID_ARGUMENT", "INTERNAL"}
  /\ grpc_failures \in 0 .. MaxGrpcFailures

\* The two rings never hold anything of another call: both are empty when the gRPC thread goes
\* back for the next call, and until then every buffer in them is of the call it handles.
\* (HandleReply() does not compare anything but the type, so a buffer left behind would be the
\* answer to the next call of that type.)
RingsBelongToCall ==
  /\ call = NOCALL => grpc_tx_queue = <<>> /\ grpc_rx_queue = <<>>
  /\ call # NOCALL =>
       /\ \A i \in 1 .. Len(grpc_tx_queue) : grpc_tx_queue[i] = call.type
       /\ \A i \in 1 .. Len(grpc_rx_queue) : grpc_rx_queue[i].type = call.type
       /\ grpc_tx_queue = <<>> \/ grpc_rx_queue = <<>>

\* A client that is told OK by gRPC is told what the worker did: the worker's error code and,
\* for a list, all of the table in its order.  A list that was cut off after its first buffer
\* is the exception: the status of a list is that of its last buffer.
AnswerIsTheWorkers ==
  answer.grpc = "OK" /\ answer.type # "CheckInitialized" =>
    \/ /\ answer.code = answer.work.code
       /\ answer.code = "OK" => answer.got = answer.work.table
    \/ answer.type = "List" /\ answer.work.code = "OUT_OF_MEMORY" /\ answer.code = "OK"

\* Every call the gRPC thread has written to the worker is answered: the thread, which handles
\* one call at a time, never spins on a chain whose end does not come.
CallsFinish == call # NOCALL ~> call = NOCALL
=============================================================================
