------------------------- MODULE FwTransactionProofs -------------------------
(***************************************************************************)
(* Theorems about FwTransaction for every set of threads and of            *)
(* HinawaFwReq objects, every number of calls and every rcode.             *)
(***************************************************************************)
EXTENDS FwTransaction, TLAPS

\* The statements of a call up to the end of the waiting loop.
Sending == {"request", "prepend", "store", "ioctl"}
Waiting == Sending \cup {"wait"}

\* The shape of the local state behind the statement an actor is at.
AppShape ==
    \A t \in Threads :
        /\ pc[t] # "idle" => calls[t] > 0
        /\ pc[t] = "unlink" => saved[t][req[t]] > 0
        /\ t \in connected => kind[t] = "transaction" /\ pc[t] \in Waiting

DispShape ==
    /\ disp.todo \subseteq connected
    /\ disp.pc = "read" => queue # <<>>
    /\ disp.pc \in {"lookup", "unlink", "emit", "handler"} => disp.event \in Events
    /\ disp.pc = "unlink" => saved["disp"][disp.event.req] > 0
    /\ disp.pc = "handler" => disp.cur \in Threads /\ disp.call \in Calls

TypeInv == TypeOK /\ AppShape /\ DispShape

-----------------------------------------------------------------------------
USE ThreadsAssumption, MaxCallsAssumption, KindsAssumption, RcodesAssumption

LEMMA TypeInit == Init => TypeInv
  <1> SUFFICES ASSUME Init PROVE TypeInv
    OBVIOUS
  <1>1. AppTypeOK
    BY DEF Init, AppTypeOK, AppPcs, ErrorCodes
  <1>2. RegistryTypeOK
    BY DEF Init, RegistryTypeOK, EmptyBag, Actors
  <1>3. BusTypeOK
    BY DEF Init, BusTypeOK
  <1>4. DispTypeOK
    BY DEF Init, DispTypeOK, DispPcs, Idle
  <1>5. AppShape /\ DispShape
    BY DEF Init, AppShape, DispShape, Idle
  <1> QED BY <1>1, <1>2, <1>3, <1>4, <1>5 DEF TypeInv, TypeOK, GhostTypeOK, Init

\* A call by an application thread keeps the types.
LEMMA TypeBegin ==
    ASSUME TypeInv, NEW t \in Threads, BeginStep(t)
    PROVE  TypeInv'
  <1>1. PICK r \in Reqs : BeginTransaction(t, r) \/ BeginRequest(t, r)
    BY DEF BeginStep
  <1>2. PICK k \in {"transaction", "request"} : BeginCall(t, r, k)
    BY <1>1 DEF BeginTransaction, BeginRequest
  <1>3. /\ waiter' \in [Threads -> Responses \cup {NoResponse}]
        /\ connected' \subseteq connected \cup {t}
        /\ connected \subseteq connected'
    BY <1>1 DEF BeginTransaction, BeginRequest, TypeInv, TypeOK, AppTypeOK, DispTypeOK
  <1>9. t \in connected' => kind'[t] = "transaction"
    BY <1>1 DEF BeginTransaction, BeginRequest, BeginCall, TypeInv, TypeOK, AppTypeOK,
                AppShape, Waiting, Sending
  <1> USE DEF TypeInv, TypeOK, BeginCall, registry, bus, app
  <1>4. AppTypeOK'
    <2>1. calls' \in [Threads -> 0..MaxCalls]
      BY <1>2 DEF AppTypeOK
    <2>2. pc' \in [Threads -> AppPcs] /\ error' \in [Threads -> ErrorCodes]
      BY <1>2 DEF AppTypeOK, AppPcs, ErrorCodes
    <2> QED BY <1>2, <1>3, <2>1, <2>2 DEF AppTypeOK
  <1>5. RegistryTypeOK' /\ BusTypeOK' /\ GhostTypeOK'
    BY <1>2 DEF RegistryTypeOK, BusTypeOK, GhostTypeOK
  <1>6. DispTypeOK'
    BY <1>2, <1>3 DEF DispTypeOK
  <1>7. AppShape'
    BY <1>2, <1>3, <1>9 DEF AppTypeOK, AppShape, Waiting, Sending
  <1>8. DispShape'
    BY <1>2, <1>3 DEF DispShape
  <1> QED BY <1>4, <1>5, <1>6, <1>7, <1>8

\* The end of hinawa_fw_req_request() returns or goes on to wait.
LEMMA TypeAfterSend ==
    ASSUME AppTypeOK, NEW t \in Threads, AfterSend(t)
    PROVE  /\ pc' \in [Threads -> AppPcs]
           /\ ret' \in [Threads -> {"none", "TRUE", "FALSE"}]
           /\ \A u \in Threads \ {t} : pc'[u] = pc[u]
           /\ pc'[t] \in {"idle", "wait"}
           /\ kind[t] = "transaction" => pc'[t] = "wait"
  BY DEF AppTypeOK, AfterSend, Return, AppPcs

\* Disconnecting a handler keeps the types of the emission it is taken from.
LEMMA TypeDisconnect ==
    ASSUME DispTypeOK, DispShape, NEW t \in Threads, Disconnect(t), UNCHANGED <<saved, queue>>
    PROVE  DispTypeOK' /\ DispShape'
  BY DEF DispTypeOK, DispShape, Disconnect

\* A step of an application thread inside a call keeps the types.
LEMMA TypeThread ==
    ASSUME TypeInv, NEW t \in Threads, ThreadStep(t)
    PROVE  TypeInv'
  <1> USE DEF TypeInv, TypeOK, registry, bus, app
  <1>1. CASE RefuseArguments(t)
    <2>1. AppTypeOK'
      BY <1>1 DEF RefuseArguments, Return, AppTypeOK, AppPcs
    <2>2. RegistryTypeOK' /\ BusTypeOK' /\ GhostTypeOK'
      BY <1>1 DEF RefuseArguments, RegistryTypeOK, BusTypeOK, GhostTypeOK
    <2>3. DispTypeOK' /\ DispShape'
      BY <1>1, TypeDisconnect DEF RefuseArguments
    <2>4. AppShape'
      BY <1>1 DEF RefuseArguments, Return, Disconnect, AppTypeOK, AppShape, Waiting, Sending
    <2> QED BY <2>1, <2>2, <2>3, <2>4
  <1>2. CASE SendNotOpened(t)
    <2>1. AppTypeOK'
      BY <1>2, TypeAfterSend DEF SendNotOpened, AppTypeOK, ErrorCodes
    <2>2. RegistryTypeOK' /\ BusTypeOK' /\ GhostTypeOK' /\ DispTypeOK' /\ DispShape'
      BY <1>2 DEF SendNotOpened, RegistryTypeOK, BusTypeOK, GhostTypeOK, DispTypeOK, DispShape
    <2>3. AppShape'
      BY <1>2, TypeAfterSend DEF SendNotOpened, AppTypeOK, AppShape, Waiting
    <2> QED BY <2>1, <2>2, <2>3
  <1>3. CASE CheckOpened(t)
    <2>1. AppTypeOK'
      BY <1>3 DEF CheckOpened, AppTypeOK, AppPcs
    <2>2. RegistryTypeOK' /\ BusTypeOK' /\ GhostTypeOK' /\ DispTypeOK' /\ DispShape'
      BY <1>3 DEF CheckOpened, RegistryTypeOK, BusTypeOK, GhostTypeOK, DispTypeOK, DispShape
    <2>3. AppShape'
      BY <1>3 DEF CheckOpened, AppTypeOK, AppShape, Waiting, Sending
    <2> QED BY <2>1, <2>2, <2>3
  <1>4. CASE PrependRead(t)
    <2>1. AppTypeOK'
      BY <1>4 DEF PrependRead, AppTypeOK, AppPcs
    <2>2. RegistryTypeOK'
      BY <1>4 DEF PrependRead, RegistryTypeOK, Actors
    <2>3. BusTypeOK' /\ GhostTypeOK' /\ DispTypeOK'
      BY <1>4 DEF PrependRead, BusTypeOK, GhostTypeOK, DispTypeOK
    <2>4. AppShape'
      BY <1>4 DEF PrependRead, AppTypeOK, RegistryTypeOK, AppShape, Waiting, Sending, Actors
    <2>5. DispShape'
      BY <1>4 DEF PrependRead, RegistryTypeOK, DispShape, Actors
    <2> QED BY <2>1, <2>2, <2>3, <2>4, <2>5
  <1>5. CASE PrependStore(t)
    <2>1. AppTypeOK'
      BY <1>5 DEF PrependStore, AppTypeOK, AppPcs
    <2>2. transactions' \in [Reqs -> Nat]
      <3>1. PICK back \in SUBSET Reqs :
               transactions' = [r \in Reqs |-> (IF r = req[t] THEN 1 ELSE 0) +
                                 [q \in Reqs |-> IF q \in back \/ saved[t][q] < transactions[q]
                                                 THEN saved[t][q] ELSE transactions[q]][r]]
        BY <1>5 DEF PrependStore, Prepended
      <3>2. saved[t] \in [Reqs -> Nat] /\ transactions \in [Reqs -> Nat]
        BY DEF RegistryTypeOK, Actors
      <3> QED BY <3>1, <3>2
    <2>3. RegistryTypeOK'
      BY <1>5, <2>2 DEF PrependStore, RegistryTypeOK, EmptyBag, Actors
    <2>4. BusTypeOK' /\ GhostTypeOK' /\ DispTypeOK'
      BY <1>5 DEF PrependStore, BusTypeOK, GhostTypeOK, DispTypeOK
    <2>5. AppShape'
      BY <1>5 DEF PrependStore, AppTypeOK, RegistryTypeOK, AppShape, Waiting, Sending, Actors
    <2>6. DispShape'
      BY <1>5 DEF PrependStore, RegistryTypeOK, DispShape, Actors
    <2> QED BY <2>1, <2>3, <2>4, <2>5, <2>6
  <1>6. CASE SendIoctl(t)
    <2>1. AppTypeOK'
      BY <1>6, TypeAfterSend DEF SendIoctl, AppTypeOK
    <2>2. Call(t) \in Calls
      BY <1>6 DEF SendIoctl, Call, Calls, AppTypeOK, AppShape
    <2>3. BusTypeOK'
      BY <1>6, <2>2 DEF SendIoctl, BusTypeOK, AppTypeOK
    <2>4. RegistryTypeOK' /\ GhostTypeOK' /\ DispTypeOK' /\ DispShape'
      BY <1>6 DEF SendIoctl, RegistryTypeOK, GhostTypeOK, DispTypeOK, DispShape
    <2>5. AppShape'
      BY <1>6, TypeAfterSend DEF SendIoctl, AppTypeOK, AppShape, Waiting
    <2> QED BY <2>1, <2>3, <2>4, <2>5
  <1>7. CASE SendFails(t)
    <2>1. AppTypeOK'
      BY <1>7, TypeAfterSend DEF SendFails, AppTypeOK, ErrorCodes, ListedRcodes
    <2>2. RegistryTypeOK' /\ BusTypeOK' /\ GhostTypeOK' /\ DispTypeOK' /\ DispShape'
      BY <1>7 DEF SendFails, RegistryTypeOK, BusTypeOK, GhostTypeOK, DispTypeOK, DispShape
    <2>3. AppShape'
      BY <1>7, TypeAfterSend DEF SendFails, AppTypeOK, AppShape, Waiting
    <2> QED BY <2>1, <2>2, <2>3
  <1>8. CASE StopWaiting(t)
    <2>1. AppTypeOK'
      BY <1>8 DEF StopWaiting, AppTypeOK, AppPcs
    <2>2. RegistryTypeOK' /\ BusTypeOK' /\ GhostTypeOK'
      BY <1>8 DEF StopWaiting, RegistryTypeOK, BusTypeOK, GhostTypeOK
    <2>3. DispTypeOK' /\ DispShape'
      BY <1>8, TypeDisconnect DEF StopWaiting
    <2>4. AppShape'
      BY <1>8 DEF StopWaiting, Disconnect, AppTypeOK, AppShape, Waiting, Sending
    <2> QED BY <2>1, <2>2, <2>3, <2>4
  <1>9. CASE InvalidateLookup(t)
    <2>1. AppTypeOK'
      BY <1>9 DEF InvalidateLookup, InvalidateFound, InvalidateNotFound, AppTypeOK, AppPcs
    <2>2. RegistryTypeOK'
      BY <1>9 DEF InvalidateLookup, InvalidateFound, InvalidateNotFound, RegistryTypeOK, Actors
    <2>3. GhostTypeOK'
      BY <1>9 DEF InvalidateLookup, InvalidateFound, InvalidateNotFound, GhostTypeOK,
                  AppTypeOK, AppShape, Call, Calls
    <2>4. BusTypeOK' /\ DispTypeOK'
      BY <1>9 DEF InvalidateLookup, BusTypeOK, DispTypeOK
    <2>5. AppShape'
      BY <1>9 DEF InvalidateLookup, InvalidateFound, InvalidateNotFound, AppTypeOK,
                  RegistryTypeOK, AppShape, Waiting, Sending, Actors
    <2>6. DispShape'
      BY <1>9 DEF InvalidateLookup, InvalidateFound, InvalidateNotFound, RegistryTypeOK,
                  DispShape, Actors
    <2> QED BY <2>1, <2>2, <2>3, <2>4, <2>5, <2>6
  <1>10. CASE InvalidateUnlink(t)
    <2>1. AppTypeOK'
      BY <1>10 DEF InvalidateUnlink, AppTypeOK, AppPcs
    <2>2. RegistryTypeOK'
      BY <1>10 DEF InvalidateUnlink, Deleted, RegistryTypeOK, AppTypeOK, AppShape, EmptyBag, Actors
    <2>3. GhostTypeOK'
      BY <1>10 DEF InvalidateUnlink, GhostTypeOK, AppTypeOK, AppShape, Call, Calls
    <2>4. BusTypeOK' /\ DispTypeOK'
      BY <1>10 DEF InvalidateUnlink, BusTypeOK, DispTypeOK
    <2>5. AppShape'
      BY <1>10 DEF InvalidateUnlink, AppTypeOK, RegistryTypeOK, AppShape, Waiting, Sending, Actors
    <2>6. DispShape'
      BY <1>10 DEF InvalidateUnlink, RegistryTypeOK, DispShape, Actors
    <2> QED BY <2>1, <2>2, <2>3, <2>4, <2>5, <2>6
  <1>11. CASE Finish(t)
    <2>4. ResultOf(waiter[t]) \in {"TRUE", "FALSE"}
      BY DEF ResultOf
    <2>5. ErrorOf(waiter[t]) \in ErrorCodes
      BY DEF ErrorOf, ErrorCodes, ListedRcodes
    <2>1. AppTypeOK'
      BY <1>11, <2>4, <2>5 DEF Finish, Return, AppTypeOK, AppPcs
    <2>2. RegistryTypeOK' /\ BusTypeOK' /\ GhostTypeOK' /\ DispTypeOK' /\ DispShape'
      BY <1>11 DEF Finish, RegistryTypeOK, BusTypeOK, GhostTypeOK, DispTypeOK, DispShape
    <2>3. AppShape'
      BY <1>11 DEF Finish, Return, AppTypeOK, AppShape, Waiting, Sending
    <2> QED BY <2>1, <2>2, <2>3
  <1> QED
    BY <1>1, <1>2, <1>3, <1>4, <1>5, <1>6, <1>7, <1>8, <1>9, <1>10, <1>11 DEF ThreadStep

\* A step of the dispatcher keeps the types.
LEMMA TypeDispatcher ==
    ASSUME TypeInv, DispatcherStep
    PROVE  TypeInv'
  <1> USE DEF TypeInv, TypeOK, registry, bus, app
  <1>1. CASE Poll
    BY <1>1 DEF Poll, AppTypeOK, RegistryTypeOK, BusTypeOK, GhostTypeOK, DispTypeOK, DispPcs,
                AppShape, DispShape
  <1>2. CASE Disconnected
    BY <1>2 DEF Disconnected, AppTypeOK, RegistryTypeOK, BusTypeOK, GhostTypeOK, DispTypeOK,
                DispPcs, AppShape, DispShape
  <1>3. CASE ReadEvent
    <2>1. Head(queue) \in Events /\ Tail(queue) \in Seq(Events)
      BY <1>3 DEF ReadEvent, BusTypeOK, DispShape
    <2>2. AppTypeOK' /\ RegistryTypeOK' /\ BusTypeOK' /\ GhostTypeOK' /\ AppShape'
      BY <1>3, <2>1 DEF ReadEvent, AppTypeOK, RegistryTypeOK, BusTypeOK, GhostTypeOK, AppShape
    <2>3. DispTypeOK' /\ DispShape'
      BY <1>3, <2>1 DEF ReadEvent, DispTypeOK, DispPcs, DispShape
    <2> QED BY <2>2, <2>3
  <1>4. CASE Lookup
    <2>1. AppTypeOK' /\ BusTypeOK' /\ GhostTypeOK'
      BY <1>4 DEF Lookup, AppTypeOK, BusTypeOK, GhostTypeOK
    <2>2. RegistryTypeOK' /\ AppShape'
      BY <1>4 DEF Lookup, RegistryTypeOK, AppShape, Actors
    <2>3. DispTypeOK' /\ DispShape'
      BY <1>4 DEF Lookup, RegistryTypeOK, DispTypeOK, DispPcs, DispShape, Actors
    <2> QED BY <2>1, <2>2, <2>3
  <1>5. CASE Drop
    <2>1. AppTypeOK' /\ RegistryTypeOK' /\ BusTypeOK' /\ GhostTypeOK' /\ AppShape'
      BY <1>5 DEF Drop, AppTypeOK, RegistryTypeOK, BusTypeOK, GhostTypeOK, AppShape
    <2>2. DispTypeOK' /\ DispShape'
      BY <1>5 DEF Drop, Idle, DispTypeOK, DispPcs, DispShape
    <2> QED BY <2>1, <2>2
  <1>6. CASE Unlink
    <2>1. disp.event.req \in Reqs
      BY <1>6 DEF Unlink, DispShape, Events
    <2>2. AppTypeOK' /\ BusTypeOK' /\ GhostTypeOK'
      BY <1>6 DEF Unlink, AppTypeOK, BusTypeOK, GhostTypeOK
    <2>3. RegistryTypeOK'
      BY <1>6, <2>1 DEF Unlink, Deleted, RegistryTypeOK, DispShape, EmptyBag, Actors
    <2>4. AppShape'
      BY <1>6 DEF Unlink, RegistryTypeOK, AppShape, Actors
    <2>5. DispTypeOK' /\ DispShape'
      BY <1>6 DEF Unlink, DispTypeOK, DispPcs, DispShape
    <2> QED BY <2>2, <2>3, <2>4, <2>5
  <1>7. CASE EnterHandler
    <2>1. PICK t \in disp.todo : disp' = [disp EXCEPT !.pc = "handler", !.todo = @ \ {t},
                                                     !.cur = t, !.call = Call(t)]
      BY <1>7 DEF EnterHandler
    <2>5. t \in Threads /\ t \in connected
      BY DEF DispTypeOK, DispShape
    <2>6. pc[t] # "idle"
      BY <2>5 DEF AppShape, Waiting, Sending
    <2>7. calls[t] \in 1..MaxCalls
      BY <2>5, <2>6 DEF AppTypeOK, AppShape
    <2>2. t \in Threads /\ Call(t) \in Calls
      BY <2>5, <2>7 DEF Call, Calls
    <2>3. AppTypeOK' /\ RegistryTypeOK' /\ BusTypeOK' /\ GhostTypeOK' /\ AppShape'
      BY <1>7 DEF EnterHandler, AppTypeOK, RegistryTypeOK, BusTypeOK, GhostTypeOK, AppShape
    <2>4. DispTypeOK' /\ DispShape'
      BY <1>7, <2>1, <2>2 DEF EnterHandler, DispTypeOK, DispPcs, DispShape
    <2> QED BY <2>3, <2>4
  <1>8. CASE RunHandler
    <2>1. [call |-> disp.event.call, rcode |-> disp.event.rcode] \in Responses
      BY <1>8 DEF RunHandler, DispShape, Events, Responses
    <2>2. AppTypeOK' /\ AppShape'
      BY <1>8, <2>1 DEF RunHandler, AppTypeOK, AppShape
    <2>3. RegistryTypeOK' /\ BusTypeOK' /\ GhostTypeOK'
      BY <1>8 DEF RunHandler, RegistryTypeOK, BusTypeOK, GhostTypeOK
    <2>4. DispTypeOK' /\ DispShape'
      BY <1>8 DEF RunHandler, DispTypeOK, DispPcs, DispShape
    <2> QED BY <2>2, <2>3, <2>4
  <1>9. CASE EmitDone
    <2>1. AppTypeOK' /\ RegistryTypeOK' /\ BusTypeOK' /\ GhostTypeOK' /\ AppShape'
      BY <1>9 DEF EmitDone, AppTypeOK, RegistryTypeOK, BusTypeOK, GhostTypeOK, AppShape
    <2>2. DispTypeOK' /\ DispShape'
      BY <1>9 DEF EmitDone, Idle, DispTypeOK, DispPcs, DispShape
    <2> QED BY <2>1, <2>2
  <1> QED
    BY <1>1, <1>2, <1>3, <1>4, <1>5, <1>6, <1>7, <1>8, <1>9 DEF DispatcherStep

\* A step of the node, of the kernel or of the bus keeps the types.
LEMMA TypeEnvironment ==
    ASSUME TypeInv, Open \/ CreateSource \/ Unplug \/ Respond
    PROVE  TypeInv'
  <1> USE DEF TypeInv, TypeOK, registry, bus, app
  <1>1. CASE Open
    BY <1>1 DEF Open, AppTypeOK, RegistryTypeOK, BusTypeOK, GhostTypeOK, DispTypeOK, AppShape,
                DispShape
  <1>2. CASE CreateSource
    <2>1. AppTypeOK' /\ RegistryTypeOK' /\ BusTypeOK' /\ GhostTypeOK' /\ AppShape'
      BY <1>2 DEF CreateSource, AppTypeOK, RegistryTypeOK, BusTypeOK, GhostTypeOK, AppShape
    <2>2. DispTypeOK' /\ DispShape'
      BY <1>2 DEF CreateSource, Idle, DispTypeOK, DispPcs, DispShape
    <2> QED BY <2>1, <2>2
  <1>3. CASE Unplug
    BY <1>3 DEF Unplug, AppTypeOK, RegistryTypeOK, BusTypeOK, GhostTypeOK, DispTypeOK, AppShape,
                DispShape
  <1>4. CASE Respond
    <2>1. PICK m \in inflight, rc \in Rcodes :
             /\ inflight' = inflight \ {m}
             /\ queue' = Append(queue, [req |-> m.req, call |-> m.call, rcode |-> rc])
      BY <1>4 DEF Respond
    <2>2. [req |-> m.req, call |-> m.call, rcode |-> rc] \in Events
      BY DEF BusTypeOK, Events
    <2>3. BusTypeOK' /\ queue' # <<>>
      BY <1>4, <2>1, <2>2 DEF Respond, BusTypeOK
    <2>4. AppTypeOK' /\ RegistryTypeOK' /\ GhostTypeOK' /\ DispTypeOK' /\ AppShape'
      BY <1>4 DEF Respond, AppTypeOK, RegistryTypeOK, GhostTypeOK, DispTypeOK, AppShape
    <2>5. DispShape'
      BY <1>4, <2>3 DEF Respond, DispShape
    <2> QED BY <2>3, <2>4, <2>5
  <1> QED BY <1>1, <1>2, <1>3, <1>4

LEMMA TypeStutter == TypeInv /\ UNCHANGED vars => TypeInv'
  BY DEF TypeInv, TypeOK, AppTypeOK, RegistryTypeOK, BusTypeOK, GhostTypeOK, DispTypeOK, AppShape,
         DispShape, vars, app, registry, bus

LEMMA TypeNext == TypeInv /\ [Next]_vars => TypeInv'
  BY TypeBegin, TypeThread, TypeDispatcher, TypeEnvironment, TypeStutter DEF Next

\* Every behaviour keeps TypeInv.
LEMMA TypeInvariant == Spec => []TypeInv
  BY TypeInit, TypeNext, PTL DEF Spec

\* Every variable keeps its type whatever the threads, the dispatcher and the
\* bus do.  In particular the registry never goes below an empty list: an entry
\* that hinawa_fw_node_invalidate_transaction() or the dispatcher deletes is one
\* it found (fw_node.c:566, 683), in spite of the prepends without the mutex.
THEOREM TypeCorrect == Spec => []TypeOK
  <1>1. TypeInv => TypeOK
    BY DEF TypeInv
  <1> QED BY <1>1, TypeInvariant, PTL

-----------------------------------------------------------------------------
(***************************************************************************)
(* The stack of a waiting thread.  LockInv says who holds                  *)
(* transactions_mutex; EmissionInv whose handlers an emission has still to *)
(* call; HandlerInv that the thread whose handler is entered is before the *)
(* end of its invalidation, which waits for the mutex.                     *)
(***************************************************************************)
LockInv ==
    /\ mutex = "disp" <=> disp.pc \in {"unlink", "emit", "handler"}
    /\ \A t \in Threads : mutex = t <=> pc[t] = "unlink"

EmissionInv ==
    \A t \in disp.todo : disp.pc \in {"emit", "handler"} /\ req[t] = disp.event.req

HandlerInv ==
    disp.pc = "handler" =>
        /\ kind[disp.cur] = "transaction"
        /\ req[disp.cur] = disp.event.req
        /\ pc[disp.cur] \in Waiting \cup {"invalidate"}
        /\ Call(disp.cur) = disp.call

\* The response of call c, made with object r, is on its way: in flight, in the
\* queue of the descriptor or in the hands of the dispatcher.
Pending(r, c) ==
    \/ [req |-> r, call |-> c] \in inflight
    \/ \E i \in 1..Len(queue) : queue[i].req = r /\ queue[i].call = c
    \/ /\ disp.pc \in {"lookup", "unlink", "emit", "handler"}
       /\ disp.event.req = r /\ disp.event.call = c

\* What an application can rely on that begins a call only where nothing is
\* outstanding: the object of a call in progress has no response on its way but
\* its own, and none before it is sent, though the objects are used again.
SettledInv ==
    /\ \A t, u \in Threads : (pc[t] # "idle" /\ pc[u] # "idle" /\ t # u) => req[t] # req[u]
    /\ \A t \in Threads, r \in Reqs, c \in Calls :
          (pc[t] # "idle" /\ req[t] = r /\ Pending(r, c)) => c = Call(t) /\ pc[t] \notin Sending

LEMMA LockInit == Init => LockInv /\ EmissionInv /\ HandlerInv
  BY DEF Init, LockInv, EmissionInv, HandlerInv, Idle

LEMMA LockNext ==
    ASSUME TypeInv, LockInv, [Next]_vars
    PROVE  LockInv'
  <1> USE DEF TypeInv, TypeOK, AppTypeOK, registry, bus, app
  <1>1. ASSUME NEW t \in Threads, BeginStep(t) PROVE LockInv'
    BY <1>1 DEF BeginStep, BeginTransaction, BeginRequest, BeginCall, LockInv
  <1>2. ASSUME NEW t \in Threads, ThreadStep(t) PROVE LockInv'
    <2>1. CASE RefuseArguments(t)
      BY <2>1 DEF RefuseArguments, Return, Disconnect, LockInv, DispTypeOK
    <2>2. CASE SendNotOpened(t) \/ SendIoctl(t) \/ SendFails(t)
      BY <2>2, TypeAfterSend DEF SendNotOpened, SendIoctl, SendFails, LockInv
    <2>3. CASE CheckOpened(t) \/ PrependRead(t) \/ PrependStore(t)
      BY <2>3 DEF CheckOpened, PrependRead, PrependStore, LockInv
    <2>4. CASE StopWaiting(t)
      BY <2>4 DEF StopWaiting, Disconnect, LockInv, DispTypeOK
    <2>5. CASE InvalidateLookup(t)
      BY <2>5 DEF InvalidateLookup, InvalidateFound, InvalidateNotFound, LockInv
    <2>6. CASE InvalidateUnlink(t)
      BY <2>6 DEF InvalidateUnlink, LockInv
    <2>7. CASE Finish(t)
      BY <2>7 DEF Finish, Return, LockInv
    <2> QED BY <1>2, <2>1, <2>2, <2>3, <2>4, <2>5, <2>6, <2>7 DEF ThreadStep
  <1>3. ASSUME DispatcherStep PROVE LockInv'
    <2> USE DEF DispTypeOK
    <2>1. CASE Poll \/ Disconnected \/ ReadEvent
      <3>1. /\ UNCHANGED <<mutex, pc>>
            /\ {disp.pc, disp'.pc} \cap {"unlink", "emit", "handler"} = {}
        BY <2>1 DEF Poll, Disconnected, ReadEvent
      <3> QED BY <3>1 DEF LockInv
    <2>2. CASE Lookup
      BY <2>2 DEF Lookup, LockInv
    <2>3. CASE Drop
      BY <2>3 DEF Drop, Idle, LockInv
    <2>4. CASE Unlink
      BY <2>4 DEF Unlink, LockInv
    <2>5. CASE EnterHandler
      BY <2>5 DEF EnterHandler, LockInv
    <2>6. CASE RunHandler
      BY <2>6 DEF RunHandler, LockInv
    <2>7. CASE EmitDone
      BY <2>7 DEF EmitDone, Idle, LockInv
    <2> QED BY <1>3, <2>1, <2>2, <2>3, <2>4, <2>5, <2>6, <2>7 DEF DispatcherStep
  <1>4. CASE Open \/ Unplug \/ Respond
    BY <1>4 DEF Open, Unplug, Respond, LockInv
  <1>6. CASE CreateSource
    BY <1>6 DEF CreateSource, Idle, LockInv
  <1>5. CASE UNCHANGED vars
    BY <1>5 DEF vars, LockInv
  <1> QED BY <1>1, <1>2, <1>3, <1>4, <1>5, <1>6 DEF Next

LEMMA EmissionNext ==
    ASSUME TypeInv, EmissionInv, [Next]_vars
    PROVE  EmissionInv'
  <1> USE DEF TypeInv, TypeOK, AppTypeOK, DispTypeOK, registry, bus, app
  <1>1. ASSUME NEW t \in Threads, BeginStep(t) PROVE EmissionInv'
    <2>1. t \notin disp.todo
      BY <1>1 DEF BeginStep, BeginTransaction, BeginRequest, BeginCall, AppShape, DispShape,
                  Waiting, Sending
    <2> QED BY <1>1, <2>1 DEF BeginStep, BeginTransaction, BeginRequest, BeginCall, EmissionInv
  <1>2. ASSUME NEW t \in Threads, ThreadStep(t) PROVE EmissionInv'
    <2>1. req' = req /\ disp'.pc = disp.pc /\ disp'.event = disp.event /\ disp'.todo \subseteq disp.todo
      BY <1>2 DEF ThreadStep, RefuseArguments, SendNotOpened, CheckOpened, PrependRead,
                  PrependStore, SendIoctl, SendFails, StopWaiting, InvalidateLookup,
                  InvalidateUnlink, Finish, Disconnect
    <2> QED BY <2>1 DEF EmissionInv
  <1>3. ASSUME DispatcherStep PROVE EmissionInv'
    <2>1. CASE Poll \/ Disconnected \/ ReadEvent \/ Lookup
      BY <2>1 DEF Poll, Disconnected, ReadEvent, Lookup, EmissionInv
    <2>2. CASE Drop \/ EmitDone
      BY <2>2 DEF Drop, EmitDone, Idle, EmissionInv
    <2>3. CASE Unlink
      BY <2>3 DEF Unlink, EmissionInv
    <2>4. CASE EnterHandler
      BY <2>4 DEF EnterHandler, EmissionInv
    <2>5. CASE RunHandler
      BY <2>5 DEF RunHandler, EmissionInv
    <2> QED BY <1>3, <2>1, <2>2, <2>3, <2>4, <2>5 DEF DispatcherStep
  <1>4. CASE Open \/ Unplug \/ Respond
    BY <1>4 DEF Open, Unplug, Respond, EmissionInv
  <1>5. CASE CreateSource
    BY <1>5 DEF CreateSource, Idle, EmissionInv
  <1>6. CASE UNCHANGED vars
    BY <1>6 DEF vars, EmissionInv
  <1> QED BY <1>1, <1>2, <1>3, <1>4, <1>5, <1>6 DEF Next

\* A handler that is entered keeps its thread inside the call: every step of that
\* thread past "invalidate" needs the mutex, which the dispatcher holds.  The one
\* way out without the mutex, refused arguments, is assumed away.
LEMMA HandlerNext ==
    ASSUME TypeInv, LockInv, EmissionInv, HandlerInv, [Next]_vars,
           \A t \in Threads : RefuseArguments(t) => ~(disp.pc = "handler" /\ disp.cur = t)
    PROVE  HandlerInv'
  <1> USE DEF TypeInv, TypeOK, AppTypeOK, registry, bus, app, Call
  <1>1. ASSUME NEW t \in Threads, BeginStep(t) PROVE HandlerInv'
    BY <1>1 DEF BeginStep, BeginTransaction, BeginRequest, BeginCall, HandlerInv, Waiting,
                Sending, DispShape
  <1>2. ASSUME NEW t \in Threads, ThreadStep(t) PROVE HandlerInv'
    <2> USE DEF HandlerInv, DispShape
    <2>1. CASE SendNotOpened(t) \/ SendIoctl(t) \/ SendFails(t)
      <3>1. UNCHANGED <<disp, kind, req, calls>> /\ AfterSend(t)
        BY <2>1 DEF SendNotOpened, SendIoctl, SendFails
      <3> QED BY <3>1, TypeAfterSend DEF Waiting
    <2>2. CASE CheckOpened(t) \/ PrependRead(t) \/ PrependStore(t)
      BY <2>2 DEF CheckOpened, PrependRead, PrependStore, Waiting, Sending
    <2>3. CASE StopWaiting(t)
      BY <2>3 DEF StopWaiting, Disconnect, DispTypeOK
    <2>4. CASE InvalidateLookup(t)
      BY <2>4 DEF InvalidateLookup, LockInv
    <2>5. CASE InvalidateUnlink(t) \/ Finish(t)
      BY <2>5 DEF InvalidateUnlink, Finish, Return, Waiting, Sending
    <2>6. CASE RefuseArguments(t)
      <3>1. disp'.pc = disp.pc /\ disp'.cur = disp.cur /\ disp'.call = disp.call /\ disp'.event = disp.event
        BY <2>6 DEF RefuseArguments, Disconnect, DispTypeOK
      <3>2. disp.pc = "handler" => disp.cur # t
        BY <2>6
      <3> QED BY <2>6, <3>1, <3>2 DEF RefuseArguments, Return
    <2> QED BY <1>2, <2>1, <2>2, <2>3, <2>4, <2>5, <2>6 DEF ThreadStep
  <1>3. ASSUME DispatcherStep PROVE HandlerInv'
    <2> USE DEF DispTypeOK, HandlerInv
    <2>1. CASE Poll \/ Disconnected \/ ReadEvent \/ Lookup \/ Unlink \/ RunHandler
      <3>1. disp'.pc # "handler"
        <4>1. CASE Poll \/ Disconnected \/ ReadEvent
          BY <4>1 DEF Poll, Disconnected, ReadEvent
        <4>2. CASE Lookup \/ Unlink \/ RunHandler
          BY <4>2 DEF Lookup, Unlink, RunHandler
        <4> QED BY <2>1, <4>1, <4>2
      <3> QED BY <3>1
    <2>2. CASE Drop \/ EmitDone
      BY <2>2 DEF Drop, EmitDone, Idle
    <2>3. CASE EnterHandler
      <3>1. PICK t \in disp.todo : disp' = [disp EXCEPT !.pc = "handler", !.todo = @ \ {t},
                                                       !.cur = t, !.call = Call(t)]
        BY <2>3 DEF EnterHandler
      <3>2. t \in Threads /\ kind[t] = "transaction" /\ pc[t] \in Waiting
        BY DEF AppShape, DispShape
      <3>3. req[t] = disp.event.req
        BY DEF EmissionInv
      <3>4. disp'.cur = t /\ disp'.call = Call(t) /\ disp'.event = disp.event
        BY <3>1
      <3> QED BY <2>3, <3>2, <3>3, <3>4 DEF EnterHandler
    <2> QED BY <1>3, <2>1, <2>2, <2>3 DEF DispatcherStep
  <1>4. CASE Open \/ Unplug \/ Respond
    BY <1>4 DEF Open, Unplug, Respond, HandlerInv
  <1>6. CASE CreateSource
    BY <1>6 DEF CreateSource, Idle, HandlerInv
  <1>5. CASE UNCHANGED vars
    BY <1>5 DEF vars, HandlerInv
  <1> QED BY <1>1, <1>2, <1>3, <1>4, <1>5, <1>6 DEF Next

\* A response gets on its way only when the kernel accepts the request.
LEMMA PendingNext ==
    ASSUME TypeInv, [Next]_vars, NEW r \in Reqs, NEW c \in Calls, Pending(r, c)',
           ~Pending(r, c)
    PROVE  \E t \in Threads : SendIoctl(t) /\ r = req[t] /\ c = Call(t)
  <1> USE DEF TypeInv, TypeOK, DispTypeOK, BusTypeOK, registry, bus, app
  <1>1. ASSUME NEW t \in Threads, BeginStep(t) PROVE FALSE
    BY <1>1 DEF BeginStep, BeginTransaction, BeginRequest, BeginCall, Pending
  <1>2. ASSUME NEW t \in Threads, ThreadStep(t), ~SendIoctl(t) PROVE FALSE
    <2>1. /\ inflight' = inflight /\ queue' = queue
          /\ disp'.pc = disp.pc /\ disp'.event = disp.event
      BY <1>2 DEF ThreadStep, RefuseArguments, SendNotOpened, CheckOpened, PrependRead,
                  PrependStore, SendFails, StopWaiting, InvalidateLookup,
                  InvalidateUnlink, Finish, Disconnect
    <2> QED BY <2>1 DEF Pending
  <1>3. ASSUME NEW t \in Threads, SendIoctl(t) PROVE r = req[t] /\ c = Call(t)
    BY <1>3 DEF SendIoctl, Pending
  <1>4. ASSUME DispatcherStep PROVE FALSE
    <2>1. CASE ReadEvent
      <3>1. Len(queue) \in Nat /\ Len(queue) > 0 /\ Head(queue) = queue[1]
        BY <2>1 DEF ReadEvent, DispShape
      <3>2. Len(queue') = Len(queue) - 1 /\ \A i \in 1..Len(queue') : queue'[i] = queue[i + 1]
        BY <2>1, <3>1 DEF ReadEvent
      <3>3. \A i \in 1..Len(queue') : i + 1 \in 1..Len(queue)
        BY <3>1, <3>2
      <3>4. ASSUME NEW i \in 1..Len(queue') PROVE ~(queue'[i].req = r /\ queue'[i].call = c)
        <4>1. ~(queue[i + 1].req = r /\ queue[i + 1].call = c)
          BY <3>3 DEF Pending
        <4> QED BY <3>2, <4>1
      <3>5. ~ (disp'.event.req = r /\ disp'.event.call = c)
        BY <2>1, <3>1 DEF ReadEvent, Pending
      <3> QED BY <2>1, <3>4, <3>5 DEF ReadEvent, Pending
    <2>2. CASE Drop \/ EmitDone
      BY <2>2 DEF Drop, EmitDone, Idle, Pending
    <2>3. CASE Poll \/ Disconnected \/ Lookup \/ Unlink \/ EnterHandler \/ RunHandler
      BY <2>3 DEF Poll, Disconnected, Lookup, Unlink, EnterHandler, RunHandler, Pending
    <2> QED BY <1>4, <2>1, <2>2, <2>3 DEF DispatcherStep
  <1>5. ASSUME Open \/ Unplug PROVE FALSE
    BY <1>5 DEF Open, Unplug, Pending
  <1>6. ASSUME CreateSource PROVE FALSE
    BY <1>6 DEF CreateSource, Idle, Pending
  <1>7. ASSUME Respond PROVE FALSE
    <2>1. PICK m \in inflight, rc \in Rcodes :
             /\ inflight' = inflight \ {m}
             /\ queue' = Append(queue, [req |-> m.req, call |-> m.call, rcode |-> rc])
      BY <1>7 DEF Respond
    <2>2. Len(queue') = Len(queue) + 1 /\ Len(queue) \in Nat
      BY <2>1
    <2>3. \A i \in 1..Len(queue) : queue'[i] = queue[i]
      BY <2>1
    <2>4. queue'[Len(queue) + 1] = [req |-> m.req, call |-> m.call, rcode |-> rc]
      BY <2>1
    <2>5. m = [req |-> m.req, call |-> m.call]
      OBVIOUS
    <2>6. ~ \E i \in 1..Len(queue') : queue'[i].req = r /\ queue'[i].call = c
      BY <2>2, <2>3, <2>4, <2>5 DEF Pending
    <2> QED BY <1>7, <2>1, <2>6 DEF Respond, Pending
  <1>8. ASSUME UNCHANGED vars PROVE FALSE
    BY <1>8 DEF vars, Pending
  <1> QED BY <1>1, <1>2, <1>3, <1>4, <1>5, <1>6, <1>7, <1>8 DEF Next

\* Nothing is on its way before the first call.
LEMMA SettledInit == Init => SettledInv
  BY DEF Init, SettledInv, Pending, Idle

LEMMA SettledNext ==
    ASSUME Discipline = "settled", TypeInv, SettledInv, [Next]_vars
    PROVE  SettledInv'
  <1> USE DEF TypeInv, TypeOK, AppTypeOK, registry, bus, app
  <1>1. CASE \E t \in Threads : BeginStep(t)
    <2>1. PICK t \in Threads, r \in Reqs, k \in {"transaction", "request"} : BeginCall(t, r, k)
      BY <1>1 DEF BeginStep, BeginTransaction, BeginRequest
    <2>2. /\ \A u \in Threads : pc[u] # "idle" => req[u] # r
          /\ \A c \in Calls : ~Pending(r, c)
      <3>1. Usable(r)
        BY <2>1 DEF BeginCall
      <3>2. ~Outstanding(r) /\ \A u \in Threads : pc[u] # "idle" => req[u] # r
        BY <3>1 DEF Usable
      <3> QED BY <3>2 DEF Outstanding, Handled, Pending
    <2>3. \A q \in Reqs, c \in Calls : Pending(q, c)' => Pending(q, c)
      BY <2>1 DEF BeginCall, Pending
    <2>4. pc' = [pc EXCEPT ![t] = "request"] /\ req' = [req EXCEPT ![t] = r]
          /\ \A u \in Threads \ {t} : calls'[u] = calls[u]
      BY <2>1 DEF BeginCall
    <2>5. \A u, v \in Threads : (pc'[u] # "idle" /\ pc'[v] # "idle" /\ u # v) => req'[u] # req'[v]
      BY <2>2, <2>4 DEF SettledInv
    <2>6. \A c \in Calls : ~Pending(r, c)'
      BY <2>2, <2>3
    <2>7. ASSUME NEW u \in Threads, NEW q \in Reqs, NEW c \in Calls, pc'[u] # "idle",
                 req'[u] = q, Pending(q, c)'
          PROVE  c = Call(u)' /\ pc'[u] \notin Sending
      <3>1. u # t
        BY <2>4, <2>6, <2>7
      <3>2. pc'[u] = pc[u] /\ req'[u] = req[u] /\ calls'[u] = calls[u]
        BY <2>4, <3>1
      <3>3. Pending(q, c)
        BY <2>3, <2>7
      <3> QED BY <2>7, <3>2, <3>3 DEF SettledInv, Call
    <2> QED BY <2>5, <2>7 DEF SettledInv
  <1>2. CASE \E t \in Threads : ThreadStep(t)
    <2>1. PICK t \in Threads : ThreadStep(t)
      BY <1>2
    <2>2. req' = req /\ calls' = calls /\ \A u \in Threads \ {t} : pc'[u] = pc[u]
      BY <2>1, TypeAfterSend DEF ThreadStep, RefuseArguments, SendNotOpened, CheckOpened,
            PrependRead, PrependStore, SendIoctl, SendFails, StopWaiting, InvalidateLookup,
            InvalidateFound, InvalidateNotFound, InvalidateUnlink, Finish, Return
    <2>3. pc[t] # "idle"
      BY <2>1 DEF ThreadStep, RefuseArguments, SendNotOpened, CheckOpened, PrependRead,
            PrependStore, SendIoctl, SendFails, StopWaiting, InvalidateLookup, InvalidateUnlink,
            Finish
    <2>4. pc'[t] \in Sending => pc[t] \in Sending
      BY <2>1, TypeAfterSend DEF ThreadStep, RefuseArguments, SendNotOpened, CheckOpened,
            PrependRead, PrependStore, SendIoctl, SendFails, StopWaiting, InvalidateLookup,
            InvalidateFound, InvalidateNotFound, InvalidateUnlink, Finish, Return, Sending
    <2>5. ASSUME NEW u \in Threads, NEW q \in Reqs, NEW c \in Calls, pc'[u] # "idle",
                 req'[u] = q, Pending(q, c)'
          PROVE  c = Call(u)' /\ pc'[u] \notin Sending
      <3>1. CASE Pending(q, c)
        BY <2>2, <2>3, <2>4, <2>5, <3>1 DEF SettledInv, Call
      <3>2. CASE ~Pending(q, c)
        <4>1. PICK v \in Threads : SendIoctl(v) /\ q = req[v] /\ c = Call(v)
          BY <2>5, <3>2, PendingNext
        <4>2. pc'[v] \notin Sending
          BY <4>1, TypeAfterSend DEF SendIoctl, Sending
        <4>3. pc[u] # "idle" /\ pc[v] # "idle"
          BY <2>2, <2>3, <2>5, <4>1 DEF SendIoctl
        <4>4. u = v
          BY <2>2, <2>5, <4>1, <4>3 DEF SettledInv
        <4> QED BY <2>2, <4>1, <4>2, <4>4 DEF Call
      <3> QED BY <3>1, <3>2
    <2>6. \A u \in Threads : pc'[u] # "idle" => pc[u] # "idle"
      BY <2>2, <2>3
    <2> QED BY <2>2, <2>5, <2>6 DEF SettledInv
  <1>3. CASE DispatcherStep \/ Open \/ CreateSource \/ Unplug \/ Respond \/ UNCHANGED vars
    <2>1. UNCHANGED <<pc, req, calls>>
      BY <1>3 DEF DispatcherStep, Poll, Disconnected, ReadEvent, Lookup, Drop, Unlink, EnterHandler,
            RunHandler, EmitDone, Open, CreateSource, Unplug, Respond, vars
    <2>2. \A t \in Threads : ~SendIoctl(t)
      BY <2>1, TypeAfterSend DEF SendIoctl
    <2>3. \A r \in Reqs, c \in Calls : Pending(r, c)' => Pending(r, c)
      BY <2>2, PendingNext
    <2> QED BY <2>1, <2>3 DEF SettledInv, Call
  <1> QED BY <1>1, <1>2, <1>3 DEF Next

\* The two kinds of application the theorems below are about: one that respects
\* the preconditions of hinawa_fw_req_request(), or one that begins a call only
\* with an object to which nothing is outstanding.
WellBehaved == ~BadArgs \/ Discipline = "settled"

SafetyInv ==
    /\ TypeInv
    /\ LockInv
    /\ EmissionInv
    /\ HandlerInv
    /\ Discipline = "settled" => SettledInv

LEMMA SafetyInvariant ==
    ASSUME WellBehaved
    PROVE  Spec => []SafetyInv
  <1>1. Init => SafetyInv
    BY TypeInit, LockInit, SettledInit DEF SafetyInv
  <1>2. SafetyInv /\ [Next]_vars => SafetyInv'
    <2> SUFFICES ASSUME SafetyInv, [Next]_vars PROVE SafetyInv'
      OBVIOUS
    <2>1. TypeInv' /\ LockInv' /\ EmissionInv' /\ (Discipline = "settled" => SettledInv')
      BY TypeNext, LockNext, EmissionNext, SettledNext DEF SafetyInv
    <2>2. ASSUME NEW t \in Threads, RefuseArguments(t), disp.pc = "handler", disp.cur = t
          PROVE  FALSE
      <3>1. Discipline = "settled" /\ pc[t] = "request"
        BY <2>2 DEF WellBehaved, RefuseArguments
      <3>2. disp.event \in Events /\ req[t] = disp.event.req
        BY <2>2 DEF SafetyInv, TypeInv, DispShape, HandlerInv
      <3>3. disp.event.req \in Reqs /\ disp.event.call \in Calls
        BY <3>2 DEF Events
      <3>4. Pending(disp.event.req, disp.event.call)
        BY <2>2 DEF Pending
      <3>5. pc[t] \notin Sending
        BY <3>1, <3>2, <3>3, <3>4 DEF SafetyInv, SettledInv
      <3> QED BY <3>1, <3>5 DEF Sending
    <2>3. HandlerInv'
      BY <2>2, HandlerNext DEF SafetyInv
    <2> QED BY <2>1, <2>3 DEF SafetyInv
  <1> QED BY <1>1, <1>2, PTL DEF Spec

\* No handler writes into the stack frame of a call that is over or is reading
\* its verdict: hinawa_fw_node_invalidate_transaction() at fw_req.c:317 cannot
\* pass while the dispatcher emits "responded" (fw_node.c:565-581).  It holds for
\* an application that respects the preconditions, however it shares its
\* HinawaFwReq objects, and for any that begins no call with an object to which a
\* response is outstanding.
THEOREM WaiterSafe ==
    ASSUME WellBehaved
    PROVE  Spec => []WaiterOutlivesHandler
  <1>1. SafetyInv => WaiterOutlivesHandler
    BY DEF SafetyInv, HandlerInv, WaiterOutlivesHandler, Waiting, Sending
  <1> QED BY <1>1, SafetyInvariant, PTL

-----------------------------------------------------------------------------
\* Only the handler writes a waiter that is in use: what the waiter of a call
\* holds came with the event that the handler was entered for.
LEMMA OwnResponseNext ==
    ASSUME Discipline = "settled", SafetyInv, OwnResponse, [Next]_vars
    PROVE  OwnResponse'
  <1> USE DEF SafetyInv, TypeInv, TypeOK, AppTypeOK, registry, bus, app, Call
  <1>1. ASSUME NEW t \in Threads, BeginStep(t) PROVE OwnResponse'
    <2>1. CASE \E r \in Reqs : BeginTransaction(t, r)
      BY <2>1 DEF BeginTransaction, BeginCall, OwnResponse
    <2>2. CASE \E r \in Reqs : BeginRequest(t, r)
      BY <2>2 DEF BeginRequest, BeginCall, OwnResponse
    <2> QED BY <1>1, <2>1, <2>2 DEF BeginStep
  <1>2. ASSUME NEW t \in Threads, ThreadStep(t) PROVE OwnResponse'
    <2>1. UNCHANGED <<kind, calls, waiter>>
      BY <1>2 DEF ThreadStep, RefuseArguments, SendNotOpened, CheckOpened, PrependRead,
                  PrependStore, SendIoctl, SendFails, StopWaiting, InvalidateLookup,
                  InvalidateUnlink, Finish
    <2> QED BY <2>1 DEF OwnResponse
  <1>3. CASE RunHandler
    <2> DEFINE t == disp.cur
    <2>1. /\ t \in Threads /\ pc[t] # "idle" /\ req[t] = disp.event.req
          /\ disp.event.req \in Reqs /\ disp.event.call \in Calls
      BY <1>3 DEF RunHandler, DispShape, HandlerInv, Events, Waiting, Sending
    <2>2. Pending(disp.event.req, disp.event.call)
      BY <1>3 DEF RunHandler, Pending
    <2>3. disp.event.call = <<t, calls[t]>>
      BY <2>1, <2>2 DEF SettledInv
    <2>4. waiter' = [waiter EXCEPT ![t] = [call |-> disp.event.call, rcode |-> disp.event.rcode]]
          /\ UNCHANGED <<kind, calls>>
      BY <1>3 DEF RunHandler
    <2> HIDE DEF t
    <2>5. ASSUME NEW u \in Threads, kind'[u] = "transaction", waiter'[u] # NoResponse
          PROVE  waiter'[u].call = <<u, calls'[u]>>
      <3>1. CASE u = t
        BY <2>3, <2>4, <3>1
      <3>2. CASE u # t
        BY <2>4, <2>5, <3>2 DEF OwnResponse
      <3> QED BY <3>1, <3>2
    <2> QED BY <2>5 DEF OwnResponse
  <1>4. CASE \/ Poll \/ Disconnected \/ ReadEvent \/ Lookup \/ Drop \/ Unlink \/ EnterHandler
            \/ EmitDone \/ Open \/ CreateSource \/ Unplug \/ Respond \/ UNCHANGED vars
    <2>1. UNCHANGED <<kind, calls, waiter>>
      BY <1>4 DEF Poll, Disconnected, ReadEvent, Lookup, Drop, Unlink, EnterHandler, EmitDone, Open,
                  CreateSource, Unplug, Respond, vars
    <2> QED BY <2>1 DEF OwnResponse
  <1> QED BY <1>1, <1>2, <1>3, <1>4 DEF Next, DispatcherStep

\* When is OwnResponse true?  A HinawaFwReq of one's own is not enough: an object is
\* known by its address (fw_node.c:566), and a late response finds the next object
\* there (the run txn_reuse).  It is enough that no response to that address is
\* outstanding when the call begins: whatever number of threads use the objects again
\* and again, in spite of the unlocked prepend (fw_node.c:662), nothing then reaches
\* a waiter but the response to its own request.
THEOREM OwnResponseSafe ==
    ASSUME Discipline = "settled"
    PROVE  Spec => []OwnResponse
  <1>1. WellBehaved
    BY DEF WellBehaved
  <1>2. Init => OwnResponse
    BY DEF Init, OwnResponse
  <1>3. SafetyInv /\ OwnResponse /\ [Next]_vars => OwnResponse'
    BY OwnResponseNext
  <1> QED BY <1>1, <1>2, <1>3, SafetyInvariant, PTL DEF Spec

-----------------------------------------------------------------------------
\* A call is marked as invalidated once, past its invalidation; an error set
\* before the verdict is one of the failed send.
SendErrors == {"NOT_OPENED", "DISCONNECTED", "SEND_ERROR"}

VerdictInv ==
    /\ \A t \in Threads, n \in Nat : <<t, n>> \in invalidated => n <= calls[t]
    /\ \A t \in Threads :
          pc[t] \in Waiting \cup {"invalidate", "unlink"} => <<t, calls[t]>> \notin invalidated
    /\ \A t \in Threads : pc[t] # "idle" => error[t] \in SendErrors \cup {"none"}
    /\ VerdictStands

LEMMA VerdictInit == Init => VerdictInv
  BY DEF Init, VerdictInv, VerdictStands, Waiting, Sending

LEMMA VerdictNext ==
    ASSUME SafetyInv, VerdictInv, [Next]_vars
    PROVE  VerdictInv'
  <1> USE DEF SafetyInv, TypeInv, TypeOK, AppTypeOK, registry, bus, app, Call
  <1>1. ASSUME NEW t \in Threads, BeginStep(t) PROVE VerdictInv'
    <2>1. PICK r \in Reqs, k \in {"transaction", "request"} : BeginCall(t, r, k)
      BY <1>1 DEF BeginStep, BeginTransaction, BeginRequest
    <2>2. waiter' \in [Threads -> Responses \cup {NoResponse}]
          /\ \A u \in Threads \ {t} : waiter'[u] = waiter[u]
      BY <1>1 DEF BeginStep, BeginTransaction, BeginRequest
    <2>3. \A u \in Threads, n \in Nat : <<u, n>> \in invalidated' => n <= calls[u]
      BY <2>1 DEF BeginCall, VerdictInv
    <2>4. calls' = [calls EXCEPT ![t] = calls[t] + 1] /\ invalidated' = invalidated
      BY <2>1 DEF BeginCall
    <2>5. <<t, calls'[t]>> \notin invalidated'
      BY <2>3, <2>4
    <2>6. \A u \in Threads, n \in Nat : <<u, n>> \in invalidated' => n <= calls'[u]
      BY <2>3, <2>4
    <2> QED BY <2>1, <2>2, <2>4, <2>5, <2>6 DEF BeginCall, VerdictInv, VerdictStands, Waiting,
               Sending
  <1>2. ASSUME NEW t \in Threads, ThreadStep(t) PROVE VerdictInv'
    <2>1. CASE RefuseArguments(t)
      BY <2>1 DEF RefuseArguments, Return, VerdictInv, VerdictStands, Waiting, Sending
    <2>2. CASE SendNotOpened(t) \/ SendIoctl(t) \/ SendFails(t)
      <3>1. /\ UNCHANGED <<kind, calls, waiter, invalidated>>
            /\ pc[t] \in Sending /\ error'[t] \in SendErrors \cup {"none"}
            /\ \A u \in Threads \ {t} : error'[u] = error[u]
        BY <2>2 DEF SendNotOpened, SendIoctl, SendFails, VerdictInv, SendErrors, Sending
      <3>2. /\ \A u \in Threads \ {t} : pc'[u] = pc[u] /\ ret'[u] = ret[u]
            /\ pc'[t] \in {"idle", "wait"}
        BY <2>2 DEF SendNotOpened, SendIoctl, SendFails, AfterSend, Return
      <3>3. <<t, calls[t]>> \notin invalidated
        BY <3>1 DEF VerdictInv, Waiting
      <3> QED BY <3>1, <3>2, <3>3 DEF VerdictInv, VerdictStands
    <2>3. CASE CheckOpened(t) \/ PrependRead(t) \/ PrependStore(t) \/ StopWaiting(t)
      BY <2>3 DEF CheckOpened, PrependRead, PrependStore, StopWaiting, VerdictInv, VerdictStands,
                  Waiting, Sending
    <2>4. CASE InvalidateLookup(t) \/ InvalidateUnlink(t)
      <3>1. /\ UNCHANGED <<kind, calls, waiter, error, ret>>
            /\ invalidated' \subseteq invalidated \cup {<<t, calls[t]>>}
            /\ \A u \in Threads \ {t} : pc'[u] = pc[u]
            /\ pc[t] # "idle"
            /\ \/ pc'[t] = "unlink" /\ pc[t] = "invalidate" /\ UNCHANGED invalidated
               \/ pc'[t] = "verdict"
        BY <2>4 DEF InvalidateLookup, InvalidateFound, InvalidateNotFound, InvalidateUnlink
      <3>2. calls[t] \in Nat
        OBVIOUS
      <3>3. \A u \in Threads, n \in Nat : <<u, n>> \in invalidated' => n <= calls'[u]
        BY <3>1, <3>2 DEF VerdictInv
      <3>4. \A u \in Threads \ {t}, n \in Nat : <<u, n>> \in invalidated' => <<u, n>> \in invalidated
        BY <3>1
      <3> QED BY <3>1, <3>3, <3>4 DEF VerdictInv, VerdictStands, Waiting, Sending
    <2>5. CASE Finish(t)
      BY <2>5 DEF Finish, Return, VerdictInv, VerdictStands, SendErrors, Waiting, Sending
    <2> QED BY <1>2, <2>1, <2>2, <2>3, <2>4, <2>5 DEF ThreadStep
  <1>3. CASE RunHandler
    BY <1>3 DEF RunHandler, HandlerInv, VerdictInv, VerdictStands, DispShape, Waiting, Sending
  <1>4. CASE \/ Poll \/ Disconnected \/ ReadEvent \/ Lookup \/ Drop \/ Unlink \/ EnterHandler
            \/ EmitDone \/ Open \/ CreateSource \/ Unplug \/ Respond \/ UNCHANGED vars
    <2>1. UNCHANGED <<pc, kind, calls, waiter, error, ret, invalidated>>
      BY <1>4 DEF Poll, Disconnected, ReadEvent, Lookup, Drop, Unlink, EnterHandler, EmitDone, Open,
                  CreateSource, Unplug, Respond, vars
    <2> QED BY <2>1 DEF VerdictInv, VerdictStands
  <1> QED BY <1>1, <1>2, <1>3, <1>4 DEF Next, DispatcherStep

\* What a transaction returned agrees with its waiter at any later moment: a
\* response that loses the race with the timeout is not reported as such and then
\* stored (fw_req.c:306-346).
THEOREM VerdictSafe ==
    ASSUME WellBehaved
    PROVE  Spec => []VerdictStands
  <1>1. SafetyInv /\ VerdictInv /\ [Next]_vars => VerdictInv'
    BY VerdictNext
  <1>2. VerdictInv => VerdictStands
    BY DEF VerdictInv
  <1> QED BY <1>1, <1>2, VerdictInit, SafetyInvariant, PTL DEF Spec
=============================================================================
