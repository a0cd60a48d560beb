----------------------- MODULE FwTransactionRefinement -----------------------
(***************************************************************************)
(* FwTransaction implements BlockingCall for every set of threads and of   *)
(* HinawaFwReq objects, when a call begins only with an object to which no *)
(* response is outstanding.                                                *)
(***************************************************************************)
EXTENDS FwTransactionProofs

\* The dispatcher has an event in its hands.
Handling == disp.pc \in {"lookup", "unlink", "emit", "handler"}

\* An object has one response on its way at most: in flight, in the queue of the
\* descriptor, or in the hands of the dispatcher.
UniqueInv ==
    /\ \A m, n \in inflight : m.req = n.req => m = n
    /\ \A i, j \in 1..Len(queue) : queue[i].req = queue[j].req => i = j
    /\ \A m \in inflight, i \in 1..Len(queue) : m.req # queue[i].req
    /\ Handling => /\ \A m \in inflight : m.req # disp.event.req
                   /\ \A i \in 1..Len(queue) : queue[i].req # disp.event.req

\* A response to object r has yet to reach an emission.
OnItsWay(r) ==
    \/ \E m \in inflight : m.req = r
    \/ \E i \in 1..Len(queue) : queue[i].req = r
    \/ disp.pc \in {"lookup", "unlink"} /\ disp.event.req = r

\* A transaction that has its answer gets no other: nothing is on its way to it,
\* and no emission has its handler still to run.
OnceInv ==
    /\ disp.pc = "handler" => disp.cur \notin disp.todo
    /\ \A t \in Threads :
          (pc[t] # "idle" /\ kind[t] = "transaction" /\ waiter[t] # NoResponse) =>
              /\ pc[t] \notin Sending
              /\ ~OnItsWay(req[t])
              /\ t \notin disp.todo
              /\ disp.pc = "handler" => disp.cur # t

-----------------------------------------------------------------------------
USE ThreadsAssumption, MaxCallsAssumption, KindsAssumption, RcodesAssumption

LEMMA OnceInit == Init => UniqueInv /\ OnceInv
  BY DEF Init, UniqueInv, OnceInv, Handling, Idle

\* The steps of the threads but for the ioctl put nothing on its way, and take no
\* event from the dispatcher.
LEMMA QuietThread ==
    ASSUME TypeInv, NEW t \in Threads, BeginStep(t) \/ ThreadStep(t)
    PROVE  /\ queue' = queue /\ disp'.pc = disp.pc /\ disp'.event = disp.event
           /\ disp'.cur = disp.cur /\ disp'.todo \subseteq disp.todo
           /\ inflight' = inflight \/ SendIoctl(t)
           /\ \A u \in Threads \ {t} : /\ pc'[u] = pc[u] /\ kind'[u] = kind[u]
                                       /\ req'[u] = req[u] /\ waiter'[u] = waiter[u]
  <1> USE DEF TypeInv, TypeOK, AppTypeOK, DispTypeOK, registry, bus, app
  <1>1. CASE BeginStep(t)
    BY <1>1 DEF BeginStep, BeginTransaction, BeginRequest, BeginCall
  <1>2. CASE SendNotOpened(t) \/ SendIoctl(t) \/ SendFails(t)
    <2>1. \A u \in Threads \ {t} : pc'[u] = pc[u]
      BY <1>2, TypeAfterSend DEF SendNotOpened, SendIoctl, SendFails
    <2> QED BY <1>2, <2>1 DEF SendNotOpened, SendIoctl, SendFails
  <1>3. CASE RefuseArguments(t) \/ StopWaiting(t)
    BY <1>3 DEF RefuseArguments, StopWaiting, Return, Disconnect
  <1>4. CASE CheckOpened(t) \/ PrependRead(t) \/ PrependStore(t)
    BY <1>4 DEF CheckOpened, PrependRead, PrependStore
  <1>5. CASE InvalidateLookup(t) \/ InvalidateUnlink(t) \/ Finish(t)
    BY <1>5 DEF InvalidateLookup, InvalidateFound, InvalidateNotFound, InvalidateUnlink, Finish,
                Return
  <1> QED BY <1>1, <1>2, <1>3, <1>4, <1>5 DEF ThreadStep

\* Nothing is on its way for the object of a call that has not sent yet.
LEMMA NothingBeforeSend ==
    ASSUME SafetyInv, Discipline = "settled", NEW t \in Threads, pc[t] \in Sending
    PROVE  /\ \A m \in inflight : m.req # req[t]
           /\ \A i \in 1..Len(queue) : queue[i].req # req[t]
           /\ Handling => disp.event.req # req[t]
  <1> USE DEF SafetyInv, TypeInv, TypeOK, AppTypeOK, BusTypeOK
  <1>1. pc[t] # "idle" /\ req[t] \in Reqs
    BY DEF Sending
  <1>2. \A c \in Calls : ~Pending(req[t], c)
    BY <1>1 DEF SettledInv
  <1>3. ASSUME NEW m \in inflight PROVE m.req # req[t]
    <2>1. m = [req |-> m.req, call |-> m.call] /\ m.call \in Calls
      OBVIOUS
    <2> QED BY <1>2, <2>1 DEF Pending
  <1>4. ASSUME NEW i \in 1..Len(queue) PROVE queue[i].req # req[t]
    <2>1. queue[i] \in Events
      OBVIOUS
    <2>2. queue[i].call \in Calls
      BY <2>1 DEF Events
    <2> QED BY <1>2, <2>2 DEF Pending
  <1>5. ASSUME Handling PROVE disp.event.req # req[t]
    <2>1. disp.event.call \in Calls
      BY <1>5 DEF Handling, DispShape, Events
    <2> QED BY <1>2, <1>5, <2>1 DEF Pending, Handling
  <1> QED BY <1>3, <1>4, <1>5

LEMMA UniqueNext ==
    ASSUME SafetyInv, Discipline = "settled", UniqueInv, [Next]_vars
    PROVE  UniqueInv'
  <1> USE DEF SafetyInv, TypeInv, TypeOK, AppTypeOK, BusTypeOK, DispTypeOK, registry, bus,
              app
  <1>1. ASSUME NEW t \in Threads, BeginStep(t) \/ ThreadStep(t) PROVE UniqueInv'
    <2>1. CASE inflight' = inflight
      BY <1>1, <2>1, QuietThread DEF UniqueInv, Handling
    <2>2. CASE SendIoctl(t)
      <3>1. inflight' = inflight \cup {[req |-> req[t], call |-> Call(t)]}
            /\ UNCHANGED <<queue, disp>> /\ pc[t] \in Sending
        BY <2>2 DEF SendIoctl, Sending
      <3>2. /\ \A m \in inflight : m.req # req[t]
            /\ \A i \in 1..Len(queue) : queue[i].req # req[t]
            /\ Handling => disp.event.req # req[t]
        BY <3>1, NothingBeforeSend
      <3>3. Handling' = Handling
        BY <3>1 DEF Handling
      <3> QED BY <3>1, <3>2, <3>3 DEF UniqueInv
    <2> QED BY <1>1, <2>1, <2>2, QuietThread
  <1>2. CASE ReadEvent
    <2>1. Len(queue) \in Nat /\ Len(queue) > 0 /\ Head(queue) = queue[1]
      BY <1>2 DEF ReadEvent, DispShape
    <2>2. Len(queue') = Len(queue) - 1 /\ \A i \in 1..Len(queue') : queue'[i] = queue[i + 1]
      BY <1>2, <2>1 DEF ReadEvent
    <2>3. \A i \in 1..Len(queue') : i + 1 \in 1..Len(queue) /\ i + 1 # 1
      BY <2>1, <2>2
    <2>4. inflight' = inflight /\ disp'.event = queue[1] /\ 1 \in 1..Len(queue)
      BY <1>2, <2>1 DEF ReadEvent
    <2>5. \A i, j \in 1..Len(queue') : queue'[i].req = queue'[j].req => i = j
      <3> SUFFICES ASSUME NEW i \in 1..Len(queue'), NEW j \in 1..Len(queue'),
                          queue'[i].req = queue'[j].req
                   PROVE  i = j
        OBVIOUS
      <3>1. queue[i + 1].req = queue[j + 1].req
        BY <2>2
      <3>2. i + 1 = j + 1
        BY <2>3, <3>1 DEF UniqueInv
      <3> QED BY <3>2
    <2>6. ASSUME NEW i \in 1..Len(queue') PROVE queue'[i].req # queue[1].req
      <3>1. queue[i + 1].req # queue[1].req
        BY <2>3, <2>4 DEF UniqueInv
      <3> QED BY <2>2, <3>1
    <2>7. ASSUME NEW m \in inflight', NEW i \in 1..Len(queue') PROVE m.req # queue'[i].req
      <3>1. m.req # queue[i + 1].req
        BY <2>3, <2>4 DEF UniqueInv
      <3> QED BY <2>2, <3>1
    <2>8. \A m \in inflight' : m.req # disp'.event.req
      BY <2>4 DEF UniqueInv
    <2> QED BY <2>4, <2>5, <2>6, <2>7, <2>8 DEF UniqueInv
  <1>3. CASE Respond
    <2>1. PICK m \in inflight, rc \in Rcodes :
             /\ inflight' = inflight \ {m}
             /\ queue' = Append(queue, [req |-> m.req, call |-> m.call, rcode |-> rc])
      BY <1>3 DEF Respond
    <2>2. Len(queue') = Len(queue) + 1 /\ Len(queue) \in Nat
      BY <2>1
    <2>3. \A i \in 1..Len(queue) : queue'[i] = queue[i]
      BY <2>1
    <2>4. queue'[Len(queue) + 1].req = m.req
      BY <2>1
    <2>5. \A i \in 1..Len(queue') : i \in 1..Len(queue) \/ i = Len(queue) + 1
      BY <2>2
    <2>6. disp' = disp
      BY <1>3 DEF Respond
    <2> QED BY <2>1, <2>3, <2>4, <2>5, <2>6 DEF UniqueInv, Handling
  <1>4. CASE Drop \/ EmitDone \/ CreateSource
    <2>1. inflight' = inflight /\ queue' = queue /\ ~Handling'
      BY <1>4 DEF Drop, EmitDone, CreateSource, Idle, Handling
    <2> QED BY <2>1 DEF UniqueInv
  <1>5. CASE Poll \/ Disconnected \/ Lookup \/ Unlink \/ EnterHandler \/ RunHandler
    <2>1. /\ inflight' = inflight /\ queue' = queue /\ disp'.event = disp.event
          /\ Handling' => Handling
      <3>1. CASE Poll \/ Disconnected \/ Lookup
        BY <3>1 DEF Poll, Disconnected, Lookup, Handling
      <3>2. CASE Unlink \/ EnterHandler \/ RunHandler
        BY <3>2 DEF Unlink, EnterHandler, RunHandler, Handling
      <3> QED BY <1>5, <3>1, <3>2
    <2>2. CASE Handling
      BY <2>1, <2>2 DEF UniqueInv
    <2>3. CASE ~Handling
      BY <2>1, <2>3 DEF UniqueInv
    <2> QED BY <2>2, <2>3
  <1>6. CASE Open \/ Unplug \/ UNCHANGED vars
    <2>1. inflight' \in {{}, inflight} /\ queue' = queue /\ disp' = disp
      BY <1>6 DEF Open, Unplug, vars
    <2>2. Handling' = Handling
      BY <2>1 DEF Handling
    <2>3. CASE inflight' = {}
      BY <2>1, <2>2, <2>3 DEF UniqueInv
    <2>4. CASE inflight' = inflight
      BY <2>1, <2>2, <2>4 DEF UniqueInv
    <2> QED BY <2>1, <2>3, <2>4
  <1> QED BY <1>1, <1>2, <1>3, <1>4, <1>5, <1>6 DEF Next, DispatcherStep

\* Where an answer comes from: the response of an answered transaction is past
\* its emission, so that nothing can be on its way to it again.
LEMMA OnceNext ==
    ASSUME SafetyInv, Discipline = "settled", UniqueInv, OnceInv, [Next]_vars
    PROVE  OnceInv'
  <1> USE DEF SafetyInv, TypeInv, TypeOK, AppTypeOK, BusTypeOK, DispTypeOK, registry, bus,
              app
  <1> DEFINE Answered(t) == pc[t] # "idle" /\ kind[t] = "transaction" /\ waiter[t] # NoResponse
             Closed(t) == /\ pc[t] \notin Sending
                          /\ ~OnItsWay(req[t])
                          /\ t \notin disp.todo
                          /\ disp.pc = "handler" => disp.cur # t
  <1>0. OnceInv <=> /\ disp.pc = "handler" => disp.cur \notin disp.todo
                    /\ \A t \in Threads : Answered(t) => Closed(t)
    BY DEF OnceInv
  <1>00. OnceInv' <=> /\ disp'.pc = "handler" => disp'.cur \notin disp'.todo
                      /\ \A t \in Threads : Answered(t)' => Closed(t)'
    BY DEF OnceInv
  <1>1. ASSUME NEW t \in Threads, BeginStep(t) \/ ThreadStep(t) PROVE OnceInv'
    <2>1. disp'.pc = "handler" => disp'.cur \notin disp'.todo
      BY <1>1, QuietThread DEF OnceInv
    <2>2. Answered(t)' => Answered(t) /\ pc'[t] \notin Sending
      <3>1. CASE BeginStep(t)
        BY <3>1 DEF BeginStep, BeginTransaction, BeginRequest, BeginCall
      <3>2. CASE ThreadStep(t)
        <4>1. /\ kind' = kind /\ waiter' = waiter /\ pc[t] # "idle"
              /\ pc'[t] \in Sending => pc[t] \in Sending
          BY <3>2, TypeAfterSend DEF ThreadStep, RefuseArguments, SendNotOpened, CheckOpened,
                PrependRead, PrependStore, SendIoctl, SendFails, StopWaiting, InvalidateLookup,
                InvalidateFound, InvalidateNotFound, InvalidateUnlink, Finish, Return, Sending
        <4> QED BY <4>1 DEF OnceInv
      <3> QED BY <1>1, <3>1, <3>2
    <2>3. ASSUME NEW u \in Threads, Answered(u)' PROVE Closed(u)'
      <3>1. Answered(u) /\ pc'[u] \notin Sending /\ req'[u] = req[u]
        <4>1. CASE u = t
          <5>1. Answered(t) /\ pc'[t] \notin Sending
            BY <2>2, <2>3, <4>1
          <5>2. ~BeginStep(t)
            BY <5>1 DEF BeginStep, BeginTransaction, BeginRequest, BeginCall
          <5>3. req' = req
            BY <1>1, <5>2 DEF ThreadStep, RefuseArguments, SendNotOpened, CheckOpened, PrependRead,
                  PrependStore, SendIoctl, SendFails, StopWaiting, InvalidateLookup,
                  InvalidateUnlink, Finish
          <5> QED BY <4>1, <5>1, <5>3
        <4>2. CASE u # t
          BY <1>1, <2>3, <4>2, QuietThread, <1>0
        <4> QED BY <4>1, <4>2
      <3>2. Closed(u)
        BY <1>0, <3>1
      <3>3. ~OnItsWay(req[u])'
        <4>1. CASE inflight' = inflight
          BY <1>1, <3>1, <3>2, <4>1, QuietThread DEF OnItsWay
        <4>2. CASE SendIoctl(t)
          <5>1. /\ inflight' = inflight \cup {[req |-> req[t], call |-> Call(t)]}
                /\ pc[t] = "ioctl"
            BY <4>2 DEF SendIoctl
          <5>2. u # t
            BY <3>2, <5>1 DEF Sending
          <5>3. req[u] # req[t]
            BY <3>1, <5>1, <5>2 DEF SettledInv
          <5> QED BY <1>1, <3>1, <3>2, <5>1, <5>3, QuietThread DEF OnItsWay
        <4> QED BY <1>1, <4>1, <4>2, QuietThread
      <3> QED BY <1>1, <3>1, <3>2, <3>3, QuietThread
    <2> QED BY <1>00, <2>1, <2>3
  <1>2. CASE DispatcherStep \/ Open \/ CreateSource \/ Unplug \/ Respond \/ UNCHANGED vars
    <2>1. UNCHANGED <<pc, kind, req>>
      BY <1>2 DEF DispatcherStep, Poll, Disconnected, ReadEvent, Lookup, Drop, Unlink, EnterHandler,
            RunHandler, EmitDone, Open, CreateSource, Unplug, Respond, vars
    <2>2. waiter' = waiter \/ RunHandler
      BY <1>2 DEF DispatcherStep, Poll, Disconnected, ReadEvent, Lookup, Drop, Unlink, EnterHandler,
            EmitDone, Open, CreateSource, Unplug, Respond, vars
    <2>3. CASE RunHandler
      <3>1. PICK t \in Threads : /\ t = disp.cur /\ pc[t] # "idle" /\ req[t] = disp.event.req
                                /\ disp.pc = "handler" /\ t \notin disp.todo
        BY <2>3 DEF RunHandler, DispShape, HandlerInv, OnceInv, Waiting, Sending
      <3>2. /\ disp'.pc = "emit" /\ disp'.todo = disp.todo
            /\ inflight' = inflight /\ queue' = queue
            /\ \A u \in Threads \ {t} : waiter'[u] = waiter[u]
        BY <2>3, <3>1 DEF RunHandler
      <3>3. pc[t] \notin Sending
        BY <3>1, NothingBeforeSend DEF Handling
      <3>4. ~OnItsWay(req[t])'
        BY <2>1, <3>1, <3>2 DEF OnItsWay, UniqueInv, Handling
      <3>5. Closed(t)'
        BY <2>1, <3>1, <3>2, <3>3, <3>4
      <3>6. ASSUME NEW u \in Threads, u # t, Answered(u)' PROVE Closed(u)'
        <4>1. Closed(u)
          BY <1>0, <2>1, <3>2, <3>6
        <4>2. ~OnItsWay(req[u])'
          BY <2>1, <3>2, <4>1 DEF OnItsWay
        <4> QED BY <2>1, <3>2, <4>1, <4>2
      <3> QED BY <1>00, <3>2, <3>5, <3>6
    <2>4. ASSUME waiter' = waiter,
                 disp'.pc = "handler" => disp'.cur \notin disp'.todo,
                 \A t \in Threads : Answered(t) => ~OnItsWay(req[t])' /\ t \notin disp'.todo,
                 disp'.pc = "handler" => ~Answered(disp'.cur)
          PROVE  OnceInv'
      BY <1>0, <1>00, <2>1, <2>4
    <2>5. CASE ReadEvent
      <3>1. Len(queue) \in Nat /\ Len(queue) > 0 /\ Head(queue) = queue[1]
        BY <2>5 DEF ReadEvent, DispShape
      <3>2. Len(queue') = Len(queue) - 1 /\ \A i \in 1..Len(queue') : queue'[i] = queue[i + 1]
        BY <2>5, <3>1 DEF ReadEvent
      <3>3. \A i \in 1..Len(queue') : i + 1 \in 1..Len(queue)
        BY <3>1, <3>2
      <3>4. /\ inflight' = inflight /\ disp'.event = queue[1] /\ 1 \in 1..Len(queue)
            /\ disp'.pc = "lookup" /\ disp'.todo = disp.todo /\ waiter' = waiter
        BY <2>5, <3>1 DEF ReadEvent
      <3>5. ASSUME NEW t \in Threads, Answered(t) PROVE ~OnItsWay(req[t])' /\ t \notin disp'.todo
        <4>1. Closed(t)
          BY <1>0, <3>5
        <4>2. \A i \in 1..Len(queue) : queue[i].req # req[t]
          BY <4>1 DEF OnItsWay
        <4>3. ASSUME NEW i \in 1..Len(queue') PROVE queue'[i].req # req[t]
          <5>1. queue[i + 1].req # req[t]
            BY <3>3, <4>2
          <5> QED BY <3>2, <5>1
        <4> QED BY <2>1, <3>4, <4>1, <4>2, <4>3 DEF OnItsWay
      <3> QED BY <2>4, <3>4, <3>5
    <2>6. CASE Respond
      <3>1. PICK m \in inflight, rc \in Rcodes :
               /\ inflight' = inflight \ {m}
               /\ queue' = Append(queue, [req |-> m.req, call |-> m.call, rcode |-> rc])
        BY <2>6 DEF Respond
      <3>2. Len(queue') = Len(queue) + 1 /\ Len(queue) \in Nat
        BY <3>1
      <3>3. \A i \in 1..Len(queue) : queue'[i] = queue[i]
        BY <3>1
      <3>4. queue'[Len(queue) + 1].req = m.req
        BY <3>1
      <3>5. \A i \in 1..Len(queue') : i \in 1..Len(queue) \/ i = Len(queue) + 1
        BY <3>2
      <3>6. disp' = disp /\ waiter' = waiter
        BY <2>6 DEF Respond
      <3>7. ASSUME NEW t \in Threads, Answered(t) PROVE ~OnItsWay(req[t])' /\ t \notin disp'.todo
        <4>1. Closed(t)
          BY <1>0, <3>7
        <4>2. \A i \in 1..Len(queue') : queue'[i].req # req[t]
          BY <3>3, <3>4, <3>5, <4>1 DEF OnItsWay
        <4> QED BY <2>1, <3>1, <3>6, <4>1, <4>2 DEF OnItsWay
      <3>8. /\ disp'.pc = "handler" => disp'.cur \notin disp'.todo
            /\ disp'.pc = "handler" => ~Answered(disp'.cur)
        BY <1>0, <3>6 DEF DispShape
      <3> QED BY <2>4, <3>6, <3>7, <3>8
    <2>7. CASE Unlink
      <3>1. /\ UNCHANGED <<waiter, inflight, queue>> /\ disp.pc = "unlink"
            /\ disp'.pc = "emit" /\ disp'.todo = {t \in connected : req[t] = disp.event.req}
        BY <2>7 DEF Unlink
      <3>2. ASSUME NEW t \in Threads, Answered(t) PROVE ~OnItsWay(req[t])' /\ t \notin disp'.todo
        <4>1. Closed(t)
          BY <1>0, <3>2
        <4> QED BY <2>1, <3>1, <4>1 DEF OnItsWay
      <3> QED BY <2>4, <3>1, <3>2
    <2>8. CASE EnterHandler
      <3>1. PICK t \in disp.todo : disp' = [disp EXCEPT !.pc = "handler", !.todo = @ \ {t},
                                                       !.cur = t, !.call = Call(t)]
        BY <2>8 DEF EnterHandler
      <3>2. /\ UNCHANGED <<waiter, inflight, queue>> /\ t \in Threads
            /\ disp'.pc = "handler" /\ disp'.cur = t /\ disp'.todo = disp.todo \ {t}
        BY <2>8, <3>1 DEF EnterHandler
      <3>3. ~Answered(t)
        BY <1>0, <3>2
      <3>4. \A u \in Threads : Answered(u) => ~OnItsWay(req[u])' /\ u \notin disp'.todo
        BY <1>0, <2>1, <3>2 DEF OnItsWay
      <3> QED BY <2>4, <3>2, <3>3, <3>4
    <2>9. CASE Poll \/ Disconnected \/ Lookup \/ Drop \/ EmitDone \/ CreateSource
      <3>1. /\ UNCHANGED <<waiter, inflight, queue>>
            /\ disp'.pc # "handler" /\ disp'.todo \subseteq disp.todo
            /\ disp'.pc \in {"lookup", "unlink"} => /\ disp.pc \in {"lookup", "unlink"}
                                                    /\ disp'.event = disp.event
        <4>1. CASE Poll
          BY <4>1 DEF Poll
        <4>2. CASE Disconnected
          BY <4>2 DEF Disconnected
        <4>3. CASE Lookup
          BY <4>3 DEF Lookup
        <4>4. CASE Drop \/ EmitDone \/ CreateSource
          BY <4>4 DEF Drop, EmitDone, CreateSource, Idle
        <4> QED BY <2>9, <4>1, <4>2, <4>3, <4>4
      <3>2. \A t \in Threads : Answered(t) => ~OnItsWay(req[t])' /\ t \notin disp'.todo
        BY <1>0, <2>1, <3>1 DEF OnItsWay
      <3> QED BY <2>4, <3>1, <3>2
    <2>10. CASE Open \/ Unplug \/ UNCHANGED vars
      <3>1. /\ inflight' \in {{}, inflight}
            /\ UNCHANGED <<waiter, queue, disp>>
        BY <2>10 DEF Open, Unplug, vars
      <3>2. \A t \in Threads : Answered(t) => ~OnItsWay(req[t])' /\ t \notin disp'.todo
        BY <1>0, <2>1, <3>1 DEF OnItsWay
      <3>3. disp.pc = "handler" => disp.cur \in Threads
        BY DEF DispShape
      <3> QED BY <1>0, <2>4, <3>1, <3>2, <3>3
    <2> QED BY <1>2, <2>3, <2>5, <2>6, <2>7, <2>8, <2>9, <2>10 DEF DispatcherStep
  <1> QED BY <1>1, <1>2 DEF Next

-----------------------------------------------------------------------------
\* Every step of FwTransaction is one of BlockingCall, or none that the caller of
\* fw_req.c can tell.
LEMMA StepRefines ==
    ASSUME SafetyInv, Discipline = "settled", OnceInv, [Next]_vars
    PROVE  [Blocking!Next]_(Blocking!vars)
  <1> USE DEF SafetyInv, TypeInv, TypeOK, AppTypeOK, registry, bus, app
  <1> DEFINE phase == [t \in Threads |-> IF pc[t] = "idle" THEN "idle" ELSE kind[t]]
  <1>1. ASSUME NEW t \in Threads, NEW r \in Reqs, BeginTransaction(t, r)
        PROVE  Blocking!Begin(t, "transaction")
    <2>1. phase[t] = "idle" /\ phase' = [phase EXCEPT ![t] = "transaction"]
      BY <1>1 DEF BeginTransaction, BeginCall
    <2> QED BY <1>1, <2>1 DEF BeginTransaction, BeginCall, Blocking!Begin, Blocking!NoAnswer,
                              NoResponse
  <1>2. ASSUME NEW t \in Threads, NEW r \in Reqs, BeginRequest(t, r)
        PROVE  Blocking!Begin(t, "request")
    <2>1. phase[t] = "idle" /\ phase' = [phase EXCEPT ![t] = "request"]
      BY <1>2 DEF BeginRequest, BeginCall
    <2> QED BY <1>2, <2>1 DEF BeginRequest, BeginCall, Blocking!Begin
  <1>3. ASSUME NEW t \in Threads, NEW v \in Blocking!Results(kind[t], waiter[t]),
               pc[t] # "idle", Return(t, v), UNCHANGED <<kind, calls, waiter>>
        PROVE  Blocking!Return(t)
    <2>1. phase[t] = kind[t] /\ phase[t] # "idle" /\ phase' = [phase EXCEPT ![t] = "idle"]
      BY <1>3 DEF Return
    <2> QED BY <1>3, <2>1 DEF Return, Blocking!Return
  <1>4. ASSUME NEW t \in Threads, RefuseArguments(t) PROVE Blocking!Return(t)
    <2>1. "FALSE" \in Blocking!Results(kind[t], waiter[t])
      BY <1>4 DEF RefuseArguments, OnceInv, Sending, Blocking!Results, NoResponse
    <2> QED BY <1>3, <1>4, <2>1 DEF RefuseArguments
  <1>5. ASSUME NEW t \in Threads, Finish(t) PROVE Blocking!Return(t)
    <2>1. ResultOf(waiter[t]) \in Blocking!Results(kind[t], waiter[t])
      BY DEF ResultOf, Blocking!Results
    <2> QED BY <1>3, <1>5, <2>1 DEF Finish
  <1>6. ASSUME NEW t \in Threads, SendNotOpened(t) \/ SendIoctl(t) \/ SendFails(t)
        PROVE  Blocking!Return(t) \/ UNCHANGED Blocking!vars
    <2>1. AfterSend(t) /\ pc[t] # "idle" /\ UNCHANGED <<kind, calls, waiter>>
      BY <1>6 DEF SendNotOpened, SendIoctl, SendFails
    <2>2. CASE kind[t] = "transaction"
      <3>1. phase' = phase
        BY <2>1, <2>2 DEF AfterSend
      <3> QED BY <2>1, <2>2, <3>1 DEF AfterSend, Blocking!vars
    <2>3. CASE kind[t] # "transaction"
      <3>1. "TRUE" \in Blocking!Results(kind[t], waiter[t])
        BY <2>3 DEF Blocking!Results
      <3> QED BY <1>3, <2>1, <2>3, <3>1 DEF AfterSend
    <2> QED BY <2>2, <2>3
  <1>7. ASSUME NEW t \in Threads, \/ CheckOpened(t) \/ PrependRead(t) \/ PrependStore(t)
                                  \/ StopWaiting(t) \/ InvalidateLookup(t) \/ InvalidateUnlink(t)
        PROVE  UNCHANGED Blocking!vars
    <2>1. UNCHANGED <<kind, calls, waiter, ret>>
      BY <1>7 DEF CheckOpened, PrependRead, PrependStore, StopWaiting, InvalidateLookup,
                  InvalidateUnlink
    <2>2. phase' = phase
      BY <1>7 DEF CheckOpened, PrependRead, PrependStore, StopWaiting, InvalidateLookup,
                  InvalidateFound, InvalidateNotFound, InvalidateUnlink
    <2> QED BY <2>1, <2>2 DEF Blocking!vars
  <1>8. ASSUME RunHandler
        PROVE  \E t \in Threads : \E rc \in Rcodes : Blocking!Deliver(t, rc)
    <2>1. PICK t \in Threads :
             /\ t = disp.cur /\ kind[t] = "transaction" /\ pc[t] # "idle"
             /\ req[t] = disp.event.req
             /\ disp.event.req \in Reqs /\ disp.event.call \in Calls /\ disp.event.rcode \in Rcodes
      BY <1>8 DEF RunHandler, DispShape, HandlerInv, Events, Waiting, Sending
    <2>2. Pending(disp.event.req, disp.event.call)
      BY <1>8 DEF RunHandler, Pending
    <2>3. disp.event.call = <<t, calls[t]>>
      BY <2>1, <2>2 DEF SettledInv, Call
    <2>4. waiter[t] = NoResponse
      BY <1>8, <2>1 DEF OnceInv, RunHandler
    <2>5. /\ waiter' = [waiter EXCEPT ![t] = [call |-> <<t, calls[t]>>, rcode |-> disp.event.rcode]]
          /\ UNCHANGED <<calls, ret>>
      BY <1>8, <2>1, <2>3 DEF RunHandler
    <2>6. phase[t] = "transaction" /\ phase' = phase
      BY <1>8, <2>1 DEF RunHandler
    <2> QED BY <2>1, <2>4, <2>5, <2>6 DEF Blocking!Deliver, Blocking!NoAnswer, NoResponse
  <1>9. ASSUME \/ Poll \/ Disconnected \/ ReadEvent \/ Lookup \/ Drop \/ Unlink \/ EnterHandler
               \/ EmitDone \/ Open \/ CreateSource \/ Unplug \/ Respond \/ UNCHANGED vars
        PROVE  UNCHANGED Blocking!vars
    <2>1. UNCHANGED <<pc, kind, calls, waiter, ret>>
      BY <1>9 DEF Poll, Disconnected, ReadEvent, Lookup, Drop, Unlink, EnterHandler, EmitDone, Open,
                  CreateSource, Unplug, Respond, vars
    <2> QED BY <2>1 DEF Blocking!vars
  <1>10. ASSUME NEW t \in Threads, BeginStep(t) \/ ThreadStep(t)
         PROVE  Blocking!Next \/ UNCHANGED Blocking!vars
    BY <1>1, <1>2, <1>4, <1>5, <1>6, <1>7, <1>10 DEF BeginStep, ThreadStep, Blocking!Next
  <1>11. ASSUME RunHandler PROVE Blocking!Next
    BY <1>8, <1>11 DEF Blocking!Next
  <1> QED BY <1>9, <1>10, <1>11 DEF Next, DispatcherStep

\* However the registry, the dispatcher, the timeout and the invalidation
\* interleave, the calls of an application that begins them with objects to which no
\* response is outstanding are those of BlockingCall: at most one answer, to the call's own request, none
\* after the verdict was read, and the result of that answer (fw_req.c:306-346,
\* fw_node.c:565-581).
THEOREM RefinesBlockingCall ==
    ASSUME Discipline = "settled"
    PROVE  Spec => ImplementsBlockingCall
  <1>1. WellBehaved
    BY DEF WellBehaved
  <1>2. Init => Blocking!Init
    BY DEF Init, Blocking!Init, Blocking!NoAnswer, NoResponse
  <1>3. SafetyInv /\ UniqueInv /\ OnceInv /\ [Next]_vars => UniqueInv' /\ OnceInv'
    BY UniqueNext, OnceNext
  <1>4. SafetyInv /\ OnceInv /\ [Next]_vars => [Blocking!Next]_(Blocking!vars)
    BY StepRefines
  <1> QED BY <1>1, <1>2, <1>3, <1>4, OnceInit, SafetyInvariant, PTL
         DEF Spec, ImplementsBlockingCall, Blocking!Spec
=============================================================================
