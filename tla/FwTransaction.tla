---------------------------- MODULE FwTransaction ----------------------------
(***************************************************************************)
(* Asynchronous transactions of libhinawa: HinawaFwReq (fw_req.c) sends a  *)
(* request subaction through the character device of a HinawaFwNode        *)
(* (fw_node.c), the node keeps a registry of the HinawaFwReq objects whose *)
(* response is awaited, and the event dispatcher (the GSource of the node, *)
(* run by the thread of some GMainContext) reads the response events,      *)
(* looks the object up in the registry and emits "responded" on it.        *)
(*                                                                         *)
(* Processes: the application threads Threads, which call                  *)
(* hinawa_fw_req_transaction_with_tstamp() ("transaction") and             *)
(* hinawa_fw_req_request() ("request"); one dispatcher; the kernel and the *)
(* bus (external), which answer, in any order, what was sent and may       *)
(* unplug the node.                                                        *)
(*                                                                         *)
(* Steps are cut where another thread can see or change shared state:      *)
(* between the two accesses of the unlocked g_list_prepend(), at each      *)
(* acquisition of transactions_mutex, and around each signal handler.  A   *)
(* critical section of the waiter's own mutex is one step.                 *)
(***************************************************************************)
EXTENDS Naturals, Sequences, FiniteSets

CONSTANTS
    Threads,        \* application threads
    Reqs,           \* addresses of HinawaFwReq objects: a member stands for every
                    \* object that is allocated there, one after the other
    MaxCalls,       \* bound: calls made by one thread
    Kinds,          \* the calls the application makes
    Rcodes,         \* the rcodes the bus answers with
    Discipline,     \* how the application picks the HinawaFwReq of a call
    BadArgs         \* may a call violate the g_return_val_if_fail() conditions?

ASSUME ThreadsAssumption == "disp" \notin Threads /\ "nobody" \notin Threads
ASSUME MaxCallsAssumption == MaxCalls \in Nat
ASSUME KindsAssumption == Kinds \subseteq {"transaction", "request"}
ASSUME RcodesAssumption == "none" \notin Rcodes
ASSUME DisciplineAssumption == Discipline \in {"settled", "serial", "shared"}
ASSUME BadArgsAssumption == BadArgs \in BOOLEAN

VARIABLES
    node,           \* priv->fd and the device behind it: "new", "open", "gone"
    pc,             \* pc[t]: the next statement of thread t
    kind,           \* kind[t]: the function t is in
    req,            \* req[t]: the HinawaFwReq of t's call
    calls,          \* calls[t]: calls t has begun, the current one included
    waiter,         \* waiter[t]: rcode of the struct waiter on t's stack
    error,          \* error[t]: *error of t's call
    ret,            \* ret[t]: what t's last call returned
    transactions,   \* priv->transactions as a bag: transactions[r] entries of r
    saved,          \* saved[a]: the list actor a has read and not yet replaced
    mutex,          \* owner of priv->transactions_mutex
    connected,      \* threads whose handler is connected to "responded"
    inflight,       \* sent and not answered (external)
    queue,          \* response events the dispatcher has not read (external)
    disp,           \* the dispatcher: its statement, event and emission
    invalidated     \* history: calls past hinawa_fw_node_invalidate_transaction()

app == <<pc, kind, req, calls, waiter, error, ret>>
registry == <<transactions, saved, mutex>>
bus == <<node, inflight, queue>>
vars == <<app, registry, bus, invalidated, connected, disp>>

Actors == Threads \cup {"disp"}
Calls == Threads \X (1..MaxCalls)
Call(t) == <<t, calls[t]>>
NoResponse == [call |-> <<>>, rcode |-> "none"]    \* w.rcode == G_MAXUINT
Responses == [call: Calls, rcode: Rcodes]
Events == [req: Reqs, call: Calls, rcode: Rcodes]
EmptyBag == [r \in Reqs |-> 0]

\* The rcodes transaction_with_tstamp() reports by their own HinawaFwReqError.
ListedRcodes == {"CONFLICT_ERROR", "DATA_ERROR", "TYPE_ERROR", "ADDRESS_ERROR",
                 "SEND_ERROR", "CANCELLED", "BUSY", "GENERATION", "NO_ACK"}
ErrorCodes == ListedRcodes \cup {"none", "NOT_OPENED", "DISCONNECTED", "INVALID"}

AppPcs == {"idle", "request", "prepend", "store", "ioctl", "wait",
           "invalidate", "unlink", "verdict"}

DispPcs == {"unattached", "idle", "read", "lookup", "unlink", "emit", "handler",
            "removed"}

Idle == [pc |-> "idle", todo |-> {}, event |-> <<>>, cur |-> "nobody", call |-> <<>>]

-----------------------------------------------------------------------------
\* hinawa_fw_req_new(), hinawa_fw_node_new() and hinawa_fw_node_init(): no
\* descriptor, an empty registry, no call, no GSource attached.
Init ==
    /\ node = "new"
    /\ pc = [t \in Threads |-> "idle"]
    /\ kind = [t \in Threads |-> "request"]
    /\ req \in [Threads -> Reqs]
    /\ calls = [t \in Threads |-> 0]
    /\ waiter = [t \in Threads |-> NoResponse]
    /\ error = [t \in Threads |-> "none"]
    /\ ret = [t \in Threads |-> "none"]
    /\ transactions = EmptyBag
    /\ saved = [a \in Actors |-> EmptyBag]
    /\ mutex = "nobody"
    /\ connected = {}
    /\ inflight = {}
    /\ queue = <<>>
    /\ disp = [Idle EXCEPT !.pc = "unattached"]
    /\ invalidated = {}

-----------------------------------------------------------------------------
\* The node.

\* hinawa_fw_node_open(): the descriptor becomes valid.
Open ==
    /\ node = "new"
    /\ node' = "open"
    /\ UNCHANGED <<app, registry, inflight, queue, invalidated, connected, disp>>

\* hinawa_fw_node_create_source(), and the application attaching the GSource
\* to a running main context.
CreateSource ==
    /\ disp.pc = "unattached"
    /\ node # "new"
    /\ disp' = Idle
    /\ UNCHANGED <<app, registry, bus, invalidated, connected>>

\* External: the device is removed.  Nothing answers what is in flight, and
\* the descriptor polls as G_IO_ERR.
Unplug ==
    /\ node = "open"
    /\ node' = "gone"
    /\ inflight' = {}
    /\ UNCHANGED <<app, registry, queue, invalidated, connected, disp>>

\* External: a response subaction arrives, or the kernel gives up on it with an
\* rcode of its own.  Responses come in any order.
Respond ==
    \E m \in inflight, rc \in Rcodes :
        /\ inflight' = inflight \ {m}
        /\ queue' = Append(queue, [req |-> m.req, call |-> m.call, rcode |-> rc])
        /\ UNCHANGED <<node, app, registry, invalidated, connected, disp>>

-----------------------------------------------------------------------------
\* The application threads.

\* The event in the dispatcher's hands is a response to object r.
Handled(r) ==
    /\ disp.pc \in {"lookup", "unlink", "emit", "handler"}
    /\ disp.event.req = r

\* A response to object r, of whichever call, is in flight, unread or handled.
Outstanding(r) ==
    \/ \E m \in inflight : m.req = r
    \/ \E i \in 1..Len(queue) : queue[i].req = r
    \/ Handled(r)

\* The HinawaFwReq an application that follows Discipline may use for a call: any,
\* also one that another call uses; one that is in no call, be it an old object or
\* a new one allocated where an old one was freed, as hinawa_fw_fcp_command_with_
\* tstamp() does for every command (fw_fcp.c:263-271); or one of these whose earlier
\* responses have all been handled.
Usable(r) ==
    LET free == \A t \in Threads : pc[t] # "idle" => req[t] # r
    IN  CASE Discipline = "shared"  -> TRUE
          [] Discipline = "serial"  -> free
          [] Discipline = "settled" -> free /\ ~Outstanding(r)

BeginCall(t, r, k) ==
    /\ pc[t] = "idle"
    /\ calls[t] < MaxCalls
    /\ k \in Kinds
    /\ Usable(r)
    /\ pc' = [pc EXCEPT ![t] = "request"]
    /\ kind' = [kind EXCEPT ![t] = k]
    /\ req' = [req EXCEPT ![t] = r]
    /\ calls' = [calls EXCEPT ![t] = @ + 1]
    /\ error' = [error EXCEPT ![t] = "none"]
    /\ ret' = [ret EXCEPT ![t] = "none"]
    /\ UNCHANGED <<registry, bus, invalidated, disp>>

\* transaction_with_tstamp() up to its call of hinawa_fw_req_request(): the
\* waiter on the stack is initialised and its handler connected.
BeginTransaction(t, r) ==
    /\ BeginCall(t, r, "transaction")
    /\ waiter' = [waiter EXCEPT ![t] = NoResponse]
    /\ connected' = connected \cup {t}

\* hinawa_fw_req_request() called by the application itself.
BeginRequest(t, r) ==
    /\ BeginCall(t, r, "request")
    /\ UNCHANGED <<waiter, connected>>

\* g_signal_handler_disconnect(): an emission in progress skips the handler,
\* unless the handler has already been entered.
Disconnect(t) ==
    /\ connected' = connected \ {t}
    /\ disp' = [disp EXCEPT !.todo = @ \ {t}]

Return(t, v) ==
    /\ pc' = [pc EXCEPT ![t] = "idle"]
    /\ ret' = [ret EXCEPT ![t] = v]

\* A g_return_val_if_fail() of hinawa_fw_req_request(): it returns FALSE, and
\* so does the transaction around it, with no invalidation.
RefuseArguments(t) ==
    /\ BadArgs
    /\ pc[t] = "request"
    /\ Return(t, "FALSE")
    /\ Disconnect(t)
    /\ UNCHANGED <<kind, req, calls, waiter, error, registry, bus, invalidated>>

\* The end of hinawa_fw_req_request().  Its "return err >= 0" is TRUE whatever
\* happened, because hinawa_fw_node_ioctl() returns 0 or a positive errno: an
\* application sees TRUE, a transaction goes on to wait.
AfterSend(t) ==
    IF kind[t] = "transaction"
    THEN pc' = [pc EXCEPT ![t] = "wait"] /\ UNCHANGED ret
    ELSE Return(t, "TRUE")

\* hinawa_fw_node_ioctl() on a node that is not opened: nothing is registered.
SendNotOpened(t) ==
    /\ pc[t] = "request"
    /\ node = "new"
    /\ error' = [error EXCEPT ![t] = "NOT_OPENED"]
    /\ AfterSend(t)
    /\ UNCHANGED <<kind, req, calls, waiter, registry, bus, invalidated, connected, disp>>

\* Mutant: the request is sent without being registered.
CheckOpenedUnregistered(t) ==
    /\ pc[t] = "request"
    /\ node # "new"
    /\ pc' = [pc EXCEPT ![t] = "ioctl"]
    /\ UNCHANGED <<kind, req, calls, waiter, error, ret, registry, bus, invalidated,
                   connected, disp>>

\* hinawa_fw_node_ioctl() on an opened node goes on to register the object.
CheckOpened(t) ==
    /\ pc[t] = "request"
    /\ node # "new"
    /\ pc' = [pc EXCEPT ![t] = "prepend"]
    /\ UNCHANGED <<kind, req, calls, waiter, error, ret, registry, bus, invalidated,
                   connected, disp>>

\* g_list_prepend(priv->transactions, req) without transactions_mutex.  The
\* argument is read here ...
PrependRead(t) ==
    /\ pc[t] = "prepend"
    /\ saved' = [saved EXCEPT ![t] = transactions]
    /\ pc' = [pc EXCEPT ![t] = "store"]
    /\ UNCHANGED <<kind, req, calls, waiter, error, ret, transactions, mutex, bus,
                   invalidated, connected, disp>>

\* ... and the new head, linked to the head that was read, stored here.  What
\* other threads prepended in between is lost.  What they deleted in between is
\* out of the list, or back in it when the deleted link was the head that was
\* read (a link to freed memory: either outcome is possible).
Prepended(t) ==
    {[r \in Reqs |-> (IF r = req[t] THEN 1 ELSE 0) + kept[r]] :
        kept \in {[r \in Reqs |-> IF r \in back \/ saved[t][r] < transactions[r]
                                  THEN saved[t][r] ELSE transactions[r]] :
                     back \in SUBSET Reqs}}

PrependStore(t) ==
    /\ pc[t] = "store"
    /\ transactions' \in Prepended(t)
    /\ saved' = [saved EXCEPT ![t] = EmptyBag]
    /\ pc' = [pc EXCEPT ![t] = "ioctl"]
    /\ UNCHANGED <<kind, req, calls, waiter, error, ret, mutex, bus, invalidated,
                   connected, disp>>

\* The ioctl: the kernel accepts the request.
SendIoctl(t) ==
    /\ pc[t] = "ioctl"
    /\ node = "open"
    /\ inflight' = inflight \cup {[req |-> req[t], call |-> Call(t)]}
    /\ AfterSend(t)
    /\ UNCHANGED <<kind, req, calls, waiter, error, node, queue, registry, invalidated,
                   connected, disp>>

\* The ioctl fails: with ENODEV when the device is gone, with another errno (no
\* memory, a tcode the kernel refuses) otherwise.  The entry stays registered.
SendFails(t) ==
    /\ pc[t] = "ioctl"
    /\ error' = [error EXCEPT ![t] = IF node = "gone" THEN "DISCONNECTED"
                                                      ELSE "SEND_ERROR"]
    /\ AfterSend(t)
    /\ UNCHANGED <<kind, req, calls, waiter, registry, bus, invalidated, connected, disp>>

\* The loop on w.rcode ends, because a handler stored an rcode or because
\* g_cond_wait_until() timed out (at any moment: the timeout is the caller's).
StopWaiting(t) ==
    /\ pc[t] = "wait"
    /\ pc' = [pc EXCEPT ![t] = "invalidate"]
    /\ Disconnect(t)
    /\ UNCHANGED <<kind, req, calls, waiter, error, ret, registry, bus, invalidated>>

\* hinawa_fw_node_invalidate_transaction() takes transactions_mutex and looks
\* its object up; it goes on to delete an entry that it found.
InvalidateFound(t) ==
    /\ pc' = [pc EXCEPT ![t] = "unlink"]
    /\ mutex' = t
    /\ saved' = [saved EXCEPT ![t] = transactions]
    /\ UNCHANGED invalidated

\* Mutant: the mutex is not released when there is no entry.
InvalidateNotFoundLocked(t) ==
    /\ pc' = [pc EXCEPT ![t] = "verdict"]
    /\ invalidated' = invalidated \cup {Call(t)}
    /\ mutex' = t
    /\ UNCHANGED saved

InvalidateNotFound(t) ==
    /\ pc' = [pc EXCEPT ![t] = "verdict"]
    /\ invalidated' = invalidated \cup {Call(t)}
    /\ UNCHANGED <<mutex, saved>>

\* Mutant: the result of g_list_find() is not checked.
InvalidateUnchecked(t) ==
    /\ pc[t] = "invalidate"
    /\ mutex = "nobody"
    /\ InvalidateFound(t)
    /\ UNCHANGED <<kind, req, calls, waiter, error, ret, transactions, bus,
                   connected, disp>>

InvalidateLookup(t) ==
    /\ pc[t] = "invalidate"
    /\ mutex = "nobody"
    /\ IF transactions[req[t]] > 0 THEN InvalidateFound(t) ELSE InvalidateNotFound(t)
    /\ UNCHANGED <<kind, req, calls, waiter, error, ret, transactions, bus,
                   connected, disp>>

\* g_list_delete_link(): the head stored last is the one read first, so that
\* what was prepended in between (prepending takes no mutex) is lost.
Deleted(a, r) == [saved[a] EXCEPT ![r] = @ - 1]

\* Mutant: the list is not set to what g_list_delete_link() returns.
InvalidateUnlinkLost(t) ==
    /\ pc[t] = "unlink"
    /\ saved' = [saved EXCEPT ![t] = EmptyBag]
    /\ mutex' = "nobody"
    /\ pc' = [pc EXCEPT ![t] = "verdict"]
    /\ invalidated' = invalidated \cup {Call(t)}
    /\ UNCHANGED <<kind, req, calls, waiter, error, ret, transactions, bus,
                   connected, disp>>

\* The entry is deleted, and the mutex released.
InvalidateUnlink(t) ==
    /\ pc[t] = "unlink"
    /\ transactions' = Deleted(t, req[t])
    /\ saved' = [saved EXCEPT ![t] = EmptyBag]
    /\ mutex' = "nobody"
    /\ pc' = [pc EXCEPT ![t] = "verdict"]
    /\ invalidated' = invalidated \cup {Call(t)}
    /\ UNCHANGED <<kind, req, calls, waiter, error, ret, bus, connected, disp>>

\* Mutant: a transaction that timed out is taken for one that completed.
ResultOfUnset(w) == IF w.rcode \in {"COMPLETE", "none"} THEN "TRUE" ELSE "FALSE"

\* The result of a transaction by the rcode in its waiter.  g_set_error() keeps
\* an error that is already set.
ResultOf(w) == IF w.rcode = "COMPLETE" THEN "TRUE" ELSE "FALSE"
ErrorOf(w) ==
    CASE w.rcode = "none" -> "CANCELLED"
      [] w.rcode = "COMPLETE" -> "none"
      [] w.rcode \in ListedRcodes -> w.rcode
      [] OTHER -> "INVALID"

\* The rest of transaction_with_tstamp(): w is read without its mutex.
Finish(t) ==
    /\ pc[t] = "verdict"
    /\ Return(t, ResultOf(waiter[t]))
    /\ error' = [error EXCEPT ![t] = IF @ = "none" THEN ErrorOf(waiter[t]) ELSE @]
    /\ UNCHANGED <<kind, req, calls, waiter, registry, bus, invalidated, connected, disp>>

-----------------------------------------------------------------------------
\* The dispatcher: dispatch_src() in the thread of the main context.

\* The descriptor polls as readable.
Poll ==
    /\ disp.pc = "idle"
    /\ node = "open"
    /\ queue # <<>>
    /\ disp' = [disp EXCEPT !.pc = "read"]
    /\ UNCHANGED <<app, registry, bus, invalidated, connected>>

\* The descriptor polls as G_IO_ERR: "disconnected" is emitted and the source
\* removed; what is still in the queue is never read.
Disconnected ==
    /\ disp.pc = "idle"
    /\ node = "gone"
    /\ disp' = [disp EXCEPT !.pc = "removed"]
    /\ UNCHANGED <<app, registry, bus, invalidated, connected>>

\* read(): the closure of the event is the HinawaFwReq.
ReadEvent ==
    /\ disp.pc = "read"
    /\ disp' = [disp EXCEPT !.pc = "lookup", !.event = Head(queue)]
    /\ queue' = Tail(queue)
    /\ UNCHANGED <<node, inflight, app, registry, invalidated, connected>>

\* Under transactions_mutex: g_list_find().  An object that is not registered
\* makes the dispatcher drop the event.
Lookup ==
    /\ disp.pc = "lookup"
    /\ mutex = "nobody"
    /\ transactions[disp.event.req] > 0
    /\ mutex' = "disp"
    /\ saved' = [saved EXCEPT !["disp"] = transactions]
    /\ disp' = [disp EXCEPT !.pc = "unlink"]
    /\ UNCHANGED <<app, transactions, bus, invalidated, connected>>

\* Mutant: the mutex is not released when there is no entry.
DropLocked ==
    /\ disp.pc = "lookup"
    /\ mutex = "nobody"
    /\ transactions[disp.event.req] = 0
    /\ mutex' = "disp"
    /\ disp' = Idle
    /\ UNCHANGED <<app, transactions, saved, bus, invalidated, connected>>

Drop ==
    /\ disp.pc = "lookup"
    /\ mutex = "nobody"
    /\ transactions[disp.event.req] = 0
    /\ disp' = Idle
    /\ UNCHANGED <<app, registry, bus, invalidated, connected>>

\* Mutant: the mutex is released before the emission.
UnlinkUnlocked ==
    /\ disp.pc = "unlink"
    /\ transactions' = Deleted("disp", disp.event.req)
    /\ saved' = [saved EXCEPT !["disp"] = EmptyBag]
    /\ mutex' = "nobody"
    /\ disp' = [disp EXCEPT !.pc = "emit",
                            !.todo = {t \in connected : req[t] = disp.event.req}]
    /\ UNCHANGED <<app, bus, invalidated, connected>>

\* g_list_delete_link(), and g_signal_emit() of "responded" begins: it calls the
\* handlers connected to the object now.
Unlink ==
    /\ disp.pc = "unlink"
    /\ transactions' = Deleted("disp", disp.event.req)
    /\ saved' = [saved EXCEPT !["disp"] = EmptyBag]
    /\ disp' = [disp EXCEPT !.pc = "emit",
                            !.todo = {t \in connected : req[t] = disp.event.req}]
    /\ UNCHANGED <<app, mutex, bus, invalidated, connected>>

\* The emission enters the handler of thread t ...
EnterHandler ==
    /\ disp.pc = "emit"
    /\ \E t \in disp.todo :
          disp' = [disp EXCEPT !.pc = "handler", !.todo = @ \ {t},
                               !.cur = t, !.call = Call(t)]
    /\ UNCHANGED <<app, registry, bus, invalidated, connected>>

\* ... which stores the response in the waiter on the stack of t and signals.
RunHandler ==
    /\ disp.pc = "handler"
    /\ waiter' = [waiter EXCEPT ![disp.cur] =
                     [call |-> disp.event.call, rcode |-> disp.event.rcode]]
    /\ disp' = [disp EXCEPT !.pc = "emit", !.cur = "nobody", !.call = <<>>]
    /\ UNCHANGED <<pc, kind, req, calls, error, ret, registry, bus, invalidated, connected>>

\* The emission ends, and transactions_mutex is released.
EmitDone ==
    /\ disp.pc = "emit"
    /\ disp.todo = {}
    /\ mutex' = "nobody"
    /\ disp' = Idle
    /\ UNCHANGED <<app, transactions, saved, bus, invalidated, connected>>

-----------------------------------------------------------------------------
ThreadStep(t) ==
    \/ RefuseArguments(t) \/ SendNotOpened(t) \/ CheckOpened(t)
    \/ PrependRead(t) \/ PrependStore(t)
    \/ SendIoctl(t) \/ SendFails(t) \/ StopWaiting(t)
    \/ InvalidateLookup(t) \/ InvalidateUnlink(t) \/ Finish(t)

BeginStep(t) == \E r \in Reqs : BeginTransaction(t, r) \/ BeginRequest(t, r)

DispatcherStep ==
    \/ Poll \/ Disconnected \/ ReadEvent \/ Lookup \/ Drop \/ Unlink
    \/ EnterHandler \/ RunHandler \/ EmitDone

Next ==
    \/ \E t \in Threads : BeginStep(t) \/ ThreadStep(t)
    \/ DispatcherStep
    \/ Open \/ CreateSource \/ Unplug \/ Respond

Spec == Init /\ [][Next]_vars

\* Threads and the dispatcher are scheduled; the application opens nothing,
\* attaches nothing and calls nothing by force; the bus owes no answer.
FairSpec ==
    /\ Spec
    /\ \A t \in Threads : WF_vars(ThreadStep(t))
    /\ WF_vars(DispatcherStep)
-----------------------------------------------------------------------------
AppTypeOK ==
    /\ pc \in [Threads -> AppPcs]
    /\ kind \in [Threads -> {"transaction", "request"}]
    /\ req \in [Threads -> Reqs]
    /\ calls \in [Threads -> 0..MaxCalls]
    /\ waiter \in [Threads -> Responses \cup {NoResponse}]
    /\ error \in [Threads -> ErrorCodes]
    /\ ret \in [Threads -> {"none", "TRUE", "FALSE"}]

RegistryTypeOK ==
    /\ transactions \in [Reqs -> Nat]
    /\ saved \in [Actors -> [Reqs -> Nat]]
    /\ mutex \in Actors \cup {"nobody"}

BusTypeOK ==
    /\ node \in {"new", "open", "gone"}
    /\ inflight \subseteq [req: Reqs, call: Calls]
    /\ queue \in Seq(Events)

DispTypeOK ==
    /\ connected \subseteq Threads
    /\ disp \in [pc: DispPcs, todo: SUBSET Threads, event: Events \cup {<<>>},
                 cur: Threads \cup {"nobody"}, call: Calls \cup {<<>>}]

GhostTypeOK == invalidated \subseteq Calls

\* Every variable has its type; in particular no entry of the registry is
\* deleted that is not there.
TypeOK == AppTypeOK /\ RegistryTypeOK /\ BusTypeOK /\ DispTypeOK /\ GhostTypeOK

\* A handler of "responded" writes into a struct waiter on the stack of the
\* calling thread (fw_req.c:216): while a handler is entered, the call it was
\* connected for is still in progress and has not begun to read its verdict.
\* The thread leaves the waiting loop and disconnects without asking the
\* dispatcher; only the invalidation "always for safe" (fw_req.c:317), which
\* waits for the mutex the dispatcher holds during the emission, ensures it.
WaiterOutlivesHandler ==
    disp.pc = "handler" =>
        /\ Call(disp.cur) = disp.call
        /\ pc[disp.cur] \notin {"idle", "verdict"}

\* A timeout that races with a late response (fw_req.c:309 and 320) gives one
\* consistent answer: what a transaction returned agrees with what its waiter
\* holds, then and at any later moment.
VerdictStands ==
    \A t \in Threads :
        (pc[t] = "idle" /\ kind[t] = "transaction" /\ Call(t) \in invalidated) =>
            /\ ret[t] = ResultOf(waiter[t])
            /\ error[t] \in {ErrorOf(waiter[t]), "NOT_OPENED", "DISCONNECTED", "SEND_ERROR"}

\* The response in a waiter answers the very request of its call, not an
\* earlier one that timed out, nor one of another thread (fw_node.c:566).
OwnResponse ==
    \A t \in Threads :
        (kind[t] = "transaction" /\ waiter[t] # NoResponse) => waiter[t].call = Call(t)

\* "When the response subaction arrives and running event dispatcher reads the
\* contents, responded signal handler is called" (fw_req.c:132): the dispatcher
\* drops only the responses of calls that were invalidated.
DroppedOnlyInvalidated ==
    [][Drop => disp.event.call \in invalidated]_vars

\* "Don't process request invalidated in advance." (fw_node.c:564): a response
\* is taken up only while its call is not invalidated.
InvalidatedNotProcessed ==
    [][Unlink => disp.event.call \notin invalidated]_vars

\* Every call returns, whether the bus answers or not, whether the dispatcher
\* runs or not, and also when the node is unplugged (fw_req.c:309).
CallReturns ==
    \A t \in Threads : pc[t] # "idle" ~> pc[t] = "idle"

\* The dispatcher gets through every event it has begun (fw_node.c:565): it is
\* never stuck on transactions_mutex.
DispatcherReturns ==
    disp.pc \in {"read", "lookup", "unlink", "emit", "handler"} ~> disp.pc = "idle"
-----------------------------------------------------------------------------
\* The call a thread sees: in progress until pc is back at "idle", its answer
\* what its waiter holds.
Blocking == INSTANCE BlockingCall WITH
    phase <- [t \in Threads |-> IF pc[t] = "idle" THEN "idle" ELSE kind[t]],
    answer <- waiter

\* However the registry, the dispatcher, the timeout and the invalidation
\* interleave, the calls of fw_req.c are those of BlockingCall: one answer at
\* most, to the call's own request (fw_node.c:566), none after the verdict was
\* read (fw_req.c:320), and a result that is the one of this answer.
ImplementsBlockingCall == Blocking!Spec
=============================================================================
