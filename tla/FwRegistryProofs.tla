-------------------------- MODULE FwRegistryProofs --------------------------
(***************************************************************************)
(* The registry of transactions in an application with one thread that     *)
(* makes transactions, each with a HinawaFwReq to which no response is     *)
(* outstanding: then the unlocked prepend (fw_node.c:662) meets no other   *)
(* access to the list, and the list holds exactly the object that waits    *)
(* for its response.                                                       *)
(***************************************************************************)
EXTENDS FwTransactionRefinement

\* The statements of a call at which its object may be registered.
Registered == {"ioctl", "wait", "invalidate", "unlink"}

\* Every call is a transaction.
KindInv == \A t \in Threads : pc[t] # "idle" => kind[t] = "transaction"

\* The only entry is the one of the call, and whoever replaces the list has read it
\* as it still is.
EntryInv ==
    /\ \A r \in Reqs : transactions[r] <= 1
    /\ \A r \in Reqs : transactions[r] > 0 => \E t \in Threads : req[t] = r /\ pc[t] \in Registered
    /\ \A t \in Threads :
          /\ pc[t] = "store" => \A r \in Reqs : saved[t][r] = 0
          /\ pc[t] = "ioctl" => transactions[req[t]] > 0
          /\ pc[t] = "unlink" => saved[t] = transactions
    /\ disp.pc = "unlink" => saved["disp"] = transactions

\* The response of call c with object r has not been looked up and taken.
Coming(r, c) ==
    \/ [req |-> r, call |-> c] \in inflight
    \/ \E i \in 1..Len(queue) : queue[i].req = r /\ queue[i].call = c
    \/ disp.pc \in {"lookup", "unlink"} /\ disp.event.req = r /\ disp.event.call = c

\* A response comes to a registered object or to a call that was invalidated.
ComingInv ==
    \A r \in Reqs, c \in Calls : Coming(r, c) => c \in invalidated \/ transactions[r] > 0

RegistryInv == KindInv /\ EntryInv /\ ComingInv

\* An application with one thread, whose every call is a transaction with a HinawaFwReq
\* to which no response is outstanding.
Solitary ==
    /\ \A t, u \in Threads : t = u
    /\ Discipline = "settled"
    /\ Kinds \subseteq {"transaction"}

-----------------------------------------------------------------------------
USE ThreadsAssumption, MaxCallsAssumption, KindsAssumption, RcodesAssumption

\* The registry of one thread holds the object of its call, or nothing.
LEMMA OnlyOwn ==
    ASSUME TypeInv, EntryInv, Solitary, NEW t \in Threads, NEW r \in Reqs, transactions[r] # 0
    PROVE  r = req[t] /\ pc[t] \in Registered /\ transactions[r] = 1
  <1>1. transactions[r] \in Nat
    BY DEF TypeInv, TypeOK, RegistryTypeOK
  <1>2. transactions[r] <= 1 /\ \E u \in Threads : req[u] = r /\ pc[u] \in Registered
    BY <1>1 DEF EntryInv
  <1> QED BY <1>1, <1>2 DEF Solitary

\* A response starts to come only when the kernel accepts the request.
LEMMA ComingNext ==
    ASSUME TypeInv, [Next]_vars, NEW r \in Reqs, NEW c \in Calls, Coming(r, c)', ~Coming(r, c)
    PROVE  \E t \in Threads : SendIoctl(t) /\ r = req[t] /\ c = Call(t)
  <1> USE DEF TypeInv, TypeOK, DispTypeOK, BusTypeOK, registry, bus, app
  <1>1. ASSUME NEW t \in Threads, BeginStep(t) \/ ThreadStep(t)
        PROVE  SendIoctl(t) /\ r = req[t] /\ c = Call(t)
    <2>1. SendIoctl(t)
      BY <1>1, QuietThread DEF Coming
    <2> QED BY <2>1 DEF SendIoctl, Coming
  <1>2. ASSUME ReadEvent PROVE FALSE
    <2>1. Len(queue) \in Nat /\ Len(queue) > 0 /\ Head(queue) = queue[1]
      BY <1>2 DEF ReadEvent, DispShape
    <2>2. Len(queue') = Len(queue) - 1 /\ \A i \in 1..Len(queue') : queue'[i] = queue[i + 1]
      BY <1>2, <2>1 DEF ReadEvent
    <2>3. \A i \in 1..Len(queue') : i + 1 \in 1..Len(queue)
      BY <2>1, <2>2
    <2>4. ASSUME NEW i \in 1..Len(queue') PROVE ~(queue'[i].req = r /\ queue'[i].call = c)
      <3>1. ~(queue[i + 1].req = r /\ queue[i + 1].call = c)
        BY <2>3 DEF Coming
      <3> QED BY <2>2, <3>1
    <2>5. ~ (disp'.event.req = r /\ disp'.event.call = c)
      BY <1>2, <2>1 DEF ReadEvent, Coming
    <2> QED BY <1>2, <2>4, <2>5 DEF ReadEvent, Coming
  <1>3. ASSUME Drop \/ EmitDone \/ CreateSource PROVE FALSE
    BY <1>3 DEF Drop, EmitDone, CreateSource, Idle, Coming
  <1>4. ASSUME Poll \/ Disconnected \/ Lookup \/ Unlink \/ EnterHandler \/ RunHandler PROVE FALSE
    <2>1. CASE Poll \/ Disconnected \/ Lookup
      BY <2>1 DEF Poll, Disconnected, Lookup, Coming
    <2>2. CASE Unlink \/ EnterHandler \/ RunHandler
      <3>1. inflight' = inflight /\ queue' = queue /\ disp'.pc \in {"emit", "handler"}
        BY <2>2 DEF Unlink, EnterHandler, RunHandler
      <3> QED BY <3>1 DEF Coming
    <2> QED BY <1>4, <2>1, <2>2
  <1>5. ASSUME Open \/ Unplug \/ UNCHANGED vars PROVE FALSE
    BY <1>5 DEF Open, Unplug, vars, Coming
  <1>6. ASSUME Respond PROVE FALSE
    <2>1. PICK m \in inflight, rc \in Rcodes :
             /\ inflight' = inflight \ {m}
             /\ queue' = Append(queue, [req |-> m.req, call |-> m.call, rcode |-> rc])
      BY <1>6 DEF Respond
    <2>2. Len(queue') = Len(queue) + 1 /\ Len(queue) \in Nat
      BY <2>1
    <2>3. \A i \in 1..Len(queue) : queue'[i] = queue[i]
      BY <2>1
    <2>4. queue'[Len(queue) + 1] = [req |-> m.req, call |-> m.call, rcode |-> rc]
      BY <2>1
    <2>5. m = [req |-> m.req, call |-> m.call]
      OBVIOUS
    <2>6. ~ \E i \in 1..Len(queue') : queue'[i].req = r /\ queue'[i].call = c
      BY <2>2, <2>3, <2>4, <2>5 DEF Coming
    <2> QED BY <1>6, <2>1, <2>6 DEF Respond, Coming
  <1> QED BY <1>1, <1>2, <1>3, <1>4, <1>5, <1>6 DEF Next, DispatcherStep

LEMMA RegistryInit == Init => RegistryInv
  BY DEF Init, RegistryInv, KindInv, EntryInv, ComingInv, Coming, EmptyBag, Idle

LEMMA KindNext ==
    ASSUME TypeInv, KindInv, Solitary, [Next]_vars
    PROVE  KindInv'
  <1> USE DEF TypeInv, TypeOK, AppTypeOK, registry, bus, app
  <1>1. ASSUME NEW t \in Threads, BeginStep(t) PROVE KindInv'
    BY <1>1 DEF BeginStep, BeginTransaction, BeginRequest, BeginCall, KindInv, Solitary
  <1>2. ASSUME NEW t \in Threads, ThreadStep(t) PROVE KindInv'
    <2>1. kind' = kind /\ pc[t] # "idle"
      BY <1>2 DEF ThreadStep, RefuseArguments, SendNotOpened, CheckOpened, PrependRead,
                  PrependStore, SendIoctl, SendFails, StopWaiting, InvalidateLookup,
                  InvalidateUnlink, Finish
    <2> QED BY <2>1 DEF KindInv, Solitary
  <1>3. CASE DispatcherStep \/ Open \/ CreateSource \/ Unplug \/ Respond \/ UNCHANGED vars
    <2>1. UNCHANGED <<pc, kind>>
      BY <1>3 DEF DispatcherStep, Poll, Disconnected, ReadEvent, Lookup, Drop, Unlink, EnterHandler,
            RunHandler, EmitDone, Open, CreateSource, Unplug, Respond, vars
    <2> QED BY <2>1 DEF KindInv
  <1> QED BY <1>1, <1>2, <1>3 DEF Next

\* The unlocked prepend to an empty list that was read as empty.
LEMMA PrependToEmpty ==
    ASSUME NEW t \in Threads, PrependStore(t),
           \A r \in Reqs : transactions[r] = 0 /\ saved[t][r] = 0
    PROVE  \A r \in Reqs : transactions'[r] = IF r = req[t] THEN 1 ELSE 0
  <1>1. PICK back \in SUBSET Reqs :
           transactions' = [r \in Reqs |-> (IF r = req[t] THEN 1 ELSE 0) +
                             [q \in Reqs |-> IF q \in back \/ saved[t][q] < transactions[q]
                                             THEN saved[t][q] ELSE transactions[q]][r]]
    BY DEF PrependStore, Prepended
  <1> QED BY <1>1

\* The steps of the thread: what each does to its entry.
LEMMA EntryThread ==
    ASSUME SafetyInv, KindInv, EntryInv, Solitary, NEW t \in Threads, BeginStep(t) \/ ThreadStep(t)
    PROVE  EntryInv'
  <1> USE DEF SafetyInv, TypeInv, TypeOK, AppTypeOK, RegistryTypeOK, Actors, registry, bus,
              app
  <1> DEFINE Empty == \A r \in Reqs : transactions[r] = 0
  <1>0. \A u \in Threads : u = t
    BY DEF Solitary
  <1>00. pc[t] \notin Registered => Empty
    BY OnlyOwn
  <1>1. ASSUME Empty, transactions' = transactions, pc'[t] \notin {"store", "ioctl", "unlink"},
               saved' = saved
        PROVE  EntryInv'
    <2>1. disp'.pc = disp.pc
      BY QuietThread
    <2> QED BY <1>0, <1>1, <2>1 DEF EntryInv
  <1>2. CASE BeginStep(t)
    <2>1. PICK r \in Reqs, k \in {"transaction", "request"} : BeginCall(t, r, k)
      BY <1>2 DEF BeginStep, BeginTransaction, BeginRequest
    <2> QED BY <1>00, <1>1, <2>1 DEF BeginCall, Registered
  <1>3. CASE RefuseArguments(t) \/ CheckOpened(t) \/ Finish(t)
    BY <1>00, <1>1, <1>3 DEF RefuseArguments, CheckOpened, Finish, Return, Registered
  <1>4. CASE SendNotOpened(t)
    BY <1>00, <1>1, <1>4, TypeAfterSend DEF SendNotOpened, Registered
  <1>5. CASE PrependRead(t)
    <2>1. /\ Empty /\ UNCHANGED <<transactions, disp>> /\ pc'[t] = "store"
          /\ saved'[t] = transactions /\ saved'["disp"] = saved["disp"]
      BY <1>00, <1>5 DEF PrependRead, Registered
    <2> QED BY <1>0, <2>1 DEF EntryInv
  <1>6. CASE PrependStore(t)
    <2>1. /\ Empty /\ \A r \in Reqs : saved[t][r] = 0
      BY <1>00, <1>6 DEF PrependStore, Registered, EntryInv
    <2>3. \A r \in Reqs : transactions'[r] = IF r = req[t] THEN 1 ELSE 0
      BY <1>6, <2>1, PrependToEmpty
    <2>4. pc'[t] = "ioctl" /\ UNCHANGED <<req, disp>>
      BY <1>6 DEF PrependStore
    <2>5. disp.pc # "unlink"
      BY <2>1 DEF EntryInv, DispShape, Events
    <2> QED BY <1>0, <2>3, <2>4, <2>5 DEF EntryInv, Registered
  <1>7. CASE SendIoctl(t) \/ SendFails(t)
    <2>1. pc'[t] = "wait" /\ pc[t] = "ioctl" /\ UNCHANGED <<req, transactions, saved, disp>>
      BY <1>7, TypeAfterSend DEF SendIoctl, SendFails, KindInv
    <2> QED BY <1>0, <2>1 DEF EntryInv, Registered
  <1>8. CASE StopWaiting(t)
    <2>1. /\ pc'[t] = "invalidate" /\ pc[t] = "wait" /\ UNCHANGED <<req, transactions, saved>>
          /\ disp'.pc = disp.pc
      BY <1>8, QuietThread DEF StopWaiting
    <2> QED BY <1>0, <2>1 DEF EntryInv, Registered
  <1>9. CASE InvalidateLookup(t)
    <2>1. CASE transactions[req[t]] > 0
      <3>1. /\ pc'[t] = "unlink" /\ pc[t] = "invalidate" /\ UNCHANGED <<req, transactions, disp>>
            /\ saved'[t] = transactions /\ saved'["disp"] = saved["disp"]
        BY <1>9, <2>1 DEF InvalidateLookup, InvalidateFound
      <3> QED BY <1>0, <3>1 DEF EntryInv, Registered
    <2>2. CASE transactions[req[t]] = 0
      <3>1. Empty
        BY <2>2, OnlyOwn
      <3> QED BY <1>1, <1>9, <2>2, <3>1 DEF InvalidateLookup, InvalidateNotFound
    <2> QED BY <2>1, <2>2
  <1>10. CASE InvalidateUnlink(t)
    <2>1. /\ transactions' = [transactions EXCEPT ![req[t]] = @ - 1]
          /\ pc[t] = "unlink" /\ pc'[t] = "verdict" /\ disp' = disp
      BY <1>10 DEF InvalidateUnlink, Deleted, EntryInv
    <2>2. \A r \in Reqs : transactions'[r] = 0
      <3> SUFFICES ASSUME NEW r \in Reqs PROVE transactions'[r] = 0
        OBVIOUS
      <3>1. CASE r = req[t]
        <4>1. saved[t][r] > 0 /\ saved[t] = transactions
          BY <2>1, <3>1 DEF AppShape, EntryInv
        <4>2. transactions[r] = 1
          BY <4>1, OnlyOwn
        <4> QED BY <2>1, <3>1, <4>2
      <3>2. CASE r # req[t]
        BY <2>1, <3>2, OnlyOwn
      <3> QED BY <3>1, <3>2
    <2>3. disp.pc # "unlink"
      BY <2>1 DEF LockInv
    <2> QED BY <1>0, <2>1, <2>2, <2>3 DEF EntryInv
  <1> QED BY <1>2, <1>3, <1>4, <1>5, <1>6, <1>7, <1>8, <1>9, <1>10 DEF ThreadStep

\* What does not touch the list and the calls keeps the entries.
LEMMA EntryKept ==
    ASSUME EntryInv, UNCHANGED <<pc, req, transactions>>,
           \A t \in Threads : saved'[t] = saved[t],
           disp'.pc = "unlink" => saved'["disp"] = transactions
    PROVE  EntryInv'
  BY DEF EntryInv

LEMMA EntryNext ==
    ASSUME SafetyInv, KindInv, EntryInv, Solitary, [Next]_vars
    PROVE  EntryInv'
  <1> USE DEF SafetyInv, TypeInv, TypeOK, AppTypeOK, RegistryTypeOK, DispTypeOK, Actors, registry,
              bus, app
  <1>1. CASE Lookup
    <2>1. /\ UNCHANGED <<pc, req, transactions>> /\ saved'["disp"] = transactions
          /\ \A t \in Threads : saved'[t] = saved[t]
      BY <1>1 DEF Lookup
    <2> QED BY <2>1, EntryKept
  <1>2. CASE Unlink
    <2> DEFINE r == disp.event.req
    <2>1. r \in Reqs /\ Handling /\ saved["disp"] = transactions
      BY <1>2 DEF Unlink, DispShape, Events, EntryInv, Handling
    <2>2. transactions[r] \in Nat /\ transactions[r] > 0
      BY <1>2, <2>1 DEF Unlink, DispShape
    <2>3. transactions' = [transactions EXCEPT ![r] = @ - 1]
      BY <1>2, <2>1 DEF Unlink, Deleted
    <2>4. /\ UNCHANGED <<pc, req>> /\ disp'.pc = "emit" /\ \A t \in Threads : saved'[t] = saved[t]
      BY <1>2 DEF Unlink
    <2>5. \A t \in Threads : pc[t] # "unlink"
      BY <1>2 DEF LockInv, Unlink
    <2>6. \A t \in Threads : pc[t] = "ioctl" => req[t] # r
      BY <2>1, NothingBeforeSend DEF Sending, Solitary
    <2> HIDE DEF r
    <2>7. \A q \in Reqs : transactions'[q] <= transactions[q] /\ transactions'[q] <= 1
      BY <2>1, <2>2, <2>3 DEF EntryInv
    <2>8. ASSUME NEW q \in Reqs, transactions'[q] > 0
          PROVE  \E t \in Threads : req'[t] = q /\ pc'[t] \in Registered
      <3>1. transactions[q] > 0
        BY <2>1, <2>2, <2>3, <2>8
      <3> QED BY <2>4, <3>1 DEF EntryInv
    <2>9. ASSUME NEW t \in Threads, pc'[t] = "ioctl" PROVE transactions'[req'[t]] > 0
      BY <2>3, <2>4, <2>6, <2>9 DEF EntryInv
    <2>10. ASSUME NEW t \in Threads, pc'[t] = "store" PROVE \A q \in Reqs : saved'[t][q] = 0
      <3>1. pc[t] = "store" /\ saved'[t] = saved[t]
        BY <2>4, <2>10
      <3> QED BY <3>1 DEF EntryInv
    <2>11. \A t \in Threads : pc'[t] # "unlink"
      BY <2>4, <2>5
    <2> QED BY ONLY <2>4, <2>7, <2>8, <2>9, <2>10, <2>11 DEF EntryInv
  <1>3. ASSUME UNCHANGED <<pc, req, transactions, saved>>,
               disp'.pc # "unlink" \/ disp' = disp
        PROVE  EntryInv'
    <2>1. disp'.pc = "unlink" => saved'["disp"] = transactions
      BY <1>3 DEF EntryInv
    <2> QED BY <1>3, <2>1, EntryKept
  <1>4. CASE Poll \/ Disconnected \/ ReadEvent \/ EnterHandler \/ RunHandler
    <2>1. CASE Poll \/ Disconnected \/ ReadEvent
      BY <1>3, <2>1 DEF Poll, Disconnected, ReadEvent
    <2>2. CASE EnterHandler \/ RunHandler
      BY <1>3, <2>2 DEF EnterHandler, RunHandler
    <2> QED BY <1>4, <2>1, <2>2
  <1>5. CASE Drop \/ EmitDone \/ CreateSource
    BY <1>3, <1>5 DEF Drop, EmitDone, CreateSource, Idle
  <1>6. CASE Open \/ Unplug \/ Respond \/ UNCHANGED vars
    BY <1>3, <1>6 DEF Open, Unplug, Respond, vars
  <1> QED BY <1>1, <1>2, <1>4, <1>5, <1>6, EntryThread DEF Next, DispatcherStep

\* An entry goes away only with the response it is for, or when the call of that
\* response is invalidated.
LEMMA ComingInvNext ==
    ASSUME SafetyInv, EntryInv, UniqueInv, ComingInv, Solitary, [Next]_vars
    PROVE  ComingInv'
  <1> USE DEF SafetyInv, TypeInv, TypeOK, AppTypeOK, RegistryTypeOK, Actors, registry, bus,
              app
  <1>0. Discipline = "settled"
    BY DEF Solitary
  <1>1. invalidated \subseteq invalidated'
    <2>1. ASSUME NEW t \in Threads, BeginStep(t) PROVE invalidated' = invalidated
      BY <2>1 DEF BeginStep, BeginTransaction, BeginRequest, BeginCall
    <2>2. ASSUME NEW t \in Threads, ThreadStep(t) PROVE invalidated \subseteq invalidated'
      BY <2>2 DEF ThreadStep, RefuseArguments, SendNotOpened, CheckOpened, PrependRead,
            PrependStore, SendIoctl, SendFails, StopWaiting, InvalidateLookup, InvalidateFound,
            InvalidateNotFound, InvalidateUnlink, Finish
    <2>3. ASSUME DispatcherStep PROVE invalidated' = invalidated
      BY <2>3 DEF DispatcherStep, Poll, Disconnected, ReadEvent, Lookup, Drop, Unlink, EnterHandler,
            RunHandler, EmitDone
    <2>4. ASSUME Open \/ CreateSource \/ Unplug \/ Respond \/ UNCHANGED vars
          PROVE  invalidated' = invalidated
      BY <2>4 DEF Open, CreateSource, Unplug, Respond, vars
    <2> QED BY <2>1, <2>2, <2>3, <2>4 DEF Next
  <1>2. CASE transactions' = transactions
    <2> SUFFICES ASSUME NEW r \in Reqs, NEW c \in Calls, Coming(r, c)'
                 PROVE  c \in invalidated' \/ transactions'[r] > 0
      BY DEF ComingInv
    <2>1. CASE Coming(r, c)
      BY <1>1, <1>2, <2>1 DEF ComingInv
    <2>2. CASE ~Coming(r, c)
      <3>1. PICK t \in Threads : SendIoctl(t) /\ r = req[t]
        BY <2>2, ComingNext
      <3> QED BY <1>2, <3>1 DEF SendIoctl, EntryInv
    <2> QED BY <2>1, <2>2
  <1>3. ASSUME NEW t \in Threads, PrependStore(t) PROVE ComingInv'
    <2>1. /\ \A r \in Reqs : transactions[r] = 0
          /\ \A r \in Reqs, c \in Calls : Coming(r, c)' => Coming(r, c)
      BY <1>3, OnlyOwn DEF PrependStore, Registered, Coming
    <2> QED BY <1>1, <2>1 DEF ComingInv
  <1>4. ASSUME NEW t \in Threads, InvalidateUnlink(t) PROVE ComingInv'
    <2> SUFFICES ASSUME NEW r \in Reqs, NEW c \in Calls, Coming(r, c)' PROVE c \in invalidated'
      BY DEF ComingInv
    <2>1. Coming(r, c) /\ invalidated' = invalidated \cup {Call(t)} /\ pc[t] # "idle"
      BY <1>4 DEF InvalidateUnlink, Coming
    <2>2. CASE transactions[r] > 0
      <3>1. r = req[t]
        BY <2>2, OnlyOwn
      <3>2. Pending(r, c)
        BY <2>1 DEF Coming, Pending
      <3>3. c = Call(t)
        BY <1>0, <2>1, <3>1, <3>2 DEF SettledInv
      <3> QED BY <2>1, <3>3
    <2> QED BY <1>1, <2>1, <2>2 DEF ComingInv
  <1>5. CASE Unlink
    <2> SUFFICES ASSUME NEW r \in Reqs, NEW c \in Calls, Coming(r, c)'
                 PROVE  c \in invalidated' \/ transactions'[r] > 0
      BY DEF ComingInv
    <2>1. Coming(r, c) /\ r # disp.event.req
      BY <1>5 DEF Unlink, Coming, UniqueInv, Handling
    <2>2. transactions'[r] = transactions[r]
      BY <1>5, <2>1 DEF Unlink, Deleted, EntryInv
    <2> QED BY <1>1, <2>1, <2>2 DEF ComingInv
  <1>6. \/ transactions' = transactions \/ Unlink
        \/ \E t \in Threads : PrependStore(t) \/ InvalidateUnlink(t)
    <2>1. ASSUME NEW t \in Threads, BeginStep(t) \/ ThreadStep(t)
          PROVE  transactions' = transactions \/ PrependStore(t) \/ InvalidateUnlink(t)
      BY <2>1 DEF BeginStep, BeginTransaction, BeginRequest, BeginCall, ThreadStep,
            RefuseArguments, SendNotOpened, CheckOpened, PrependRead, SendIoctl, SendFails,
            StopWaiting, InvalidateLookup, Finish
    <2>2. ASSUME DispatcherStep PROVE transactions' = transactions \/ Unlink
      BY <2>2 DEF DispatcherStep, Poll, Disconnected, ReadEvent, Lookup, Drop, EnterHandler,
            RunHandler, EmitDone
    <2>3. ASSUME Open \/ CreateSource \/ Unplug \/ Respond \/ UNCHANGED vars
          PROVE  transactions' = transactions
      BY <2>3 DEF Open, CreateSource, Unplug, Respond, vars
    <2> QED BY <2>1, <2>2, <2>3 DEF Next
  <1> QED BY <1>2, <1>3, <1>4, <1>5, <1>6

-----------------------------------------------------------------------------
SolitaryInv == SafetyInv /\ UniqueInv /\ VerdictInv /\ RegistryInv

LEMMA SolitaryInvariant ==
    ASSUME Solitary
    PROVE  Spec => []SolitaryInv
  <1>1. WellBehaved /\ Discipline = "settled"
    BY DEF Solitary, WellBehaved
  <1>2. Init => UniqueInv /\ VerdictInv /\ RegistryInv
    BY OnceInit, VerdictInit, RegistryInit
  <1>3. ASSUME SafetyInv, UniqueInv, VerdictInv, RegistryInv, [Next]_vars
        PROVE  UniqueInv' /\ VerdictInv' /\ RegistryInv'
    <2>1. UniqueInv' /\ VerdictInv'
      BY <1>1, <1>3, UniqueNext, VerdictNext
    <2>2. KindInv' /\ EntryInv' /\ ComingInv'
      BY <1>3, KindNext, EntryNext, ComingInvNext DEF RegistryInv, SafetyInv
    <2> QED BY <2>1, <2>2 DEF RegistryInv
  <1> QED BY <1>1, <1>2, <1>3, SafetyInvariant, PTL DEF Spec, SolitaryInv

\* The one thread's response is dropped by the dispatcher (fw_node.c:566) only when
\* its transaction gave up and invalidated its entry (fw_req.c:317): a response that
\* is awaited finds its object in the registry.
THEOREM DroppedSafe ==
    ASSUME Solitary
    PROVE  Spec => DroppedOnlyInvalidated
  <1>1. SolitaryInv /\ [Next]_vars => [Drop => disp.event.call \in invalidated]_vars
    <2> SUFFICES ASSUME SolitaryInv, Drop PROVE disp.event.call \in invalidated
      OBVIOUS
    <2>1. /\ disp.pc = "lookup" /\ transactions[disp.event.req] = 0
          /\ disp.event.req \in Reqs /\ disp.event.call \in Calls
      BY DEF SolitaryInv, SafetyInv, TypeInv, DispShape, Events, Drop
    <2>2. Coming(disp.event.req, disp.event.call)
      BY <2>1 DEF Coming
    <2>3. disp.event.call \in invalidated \/ transactions[disp.event.req] > 0
      BY <2>1, <2>2 DEF SolitaryInv, RegistryInv, ComingInv
    <2> QED BY <2>1, <2>3
  <1> QED BY <1>1, SolitaryInvariant, PTL DEF Spec, DroppedOnlyInvalidated

\* "Don't process request invalidated in advance." (fw_node.c:564): the dispatcher
\* takes up no response of a call that has been invalidated.
THEOREM InvalidatedSafe ==
    ASSUME Solitary
    PROVE  Spec => InvalidatedNotProcessed
  <1>1. SolitaryInv /\ [Next]_vars => [Unlink => disp.event.call \notin invalidated]_vars
    <2> SUFFICES ASSUME SolitaryInv, Unlink PROVE disp.event.call \notin invalidated
      OBVIOUS
    <2> USE DEF SolitaryInv, SafetyInv, RegistryInv
    <2>1. /\ disp.pc = "unlink" /\ transactions[disp.event.req] > 0
          /\ disp.event.req \in Reqs /\ disp.event.call \in Calls
      BY DEF TypeInv, DispShape, Events, EntryInv, Unlink
    <2>2. PICK t \in Threads : req[t] = disp.event.req /\ pc[t] \in Registered
      BY <2>1 DEF EntryInv
    <2>3. Pending(disp.event.req, disp.event.call)
      BY <2>1 DEF Pending
    <2>4. disp.event.call = Call(t)
      BY <2>1, <2>2, <2>3 DEF SettledInv, Solitary, Registered
    <2> QED BY <2>2, <2>4 DEF VerdictInv, Registered, Waiting, Sending, Call
  <1> QED BY <1>1, SolitaryInvariant, PTL DEF Spec, InvalidatedNotProcessed
=============================================================================
