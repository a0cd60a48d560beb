----------------------------- MODULE FwRespProofs -----------------------------
(***************************************************************************)
(* Theorems about FwResp for any set of nodes, of handles and of widths,   *)
(* and any number of requests and reservations.                            *)
(***************************************************************************)
EXTENDS FwResp, TLAPS

\* What the dispatcher is at.
DispInv == disp.pc = "emit" => disp.node \in Nodes /\ disp.event \in Events

\* An object without a range has no frame to fill.
FrameInv == FrameFits /\ (~IsReserved => width = 0)

\* A descriptor that was never opened has no range.
RangeInv ==
    /\ RangeIsKnown
    /\ \A n \in Nodes : device[n] = "closed" => ranges[n] = {} /\ node # n

\* The request an event is about, as the kernel keeps it.
RequestOf(e) == [id |-> e.id, handle |-> e.handle]

\* The handle of a request is its own while the request is pending, which it is
\* at least until its event has been handled.
PendingInv ==
    /\ \A n \in Nodes : \A p, q \in pending[n] : p.handle = q.handle => p = q
    /\ \A n \in Nodes : \A k \in 1..Len(queue[n]) : RequestOf(queue[n][k]) \in pending[n]
    /\ \A n \in Nodes : \A j, k \in 1..Len(queue[n]) :
          queue[n][j].handle = queue[n][k].handle => j = k

EmissionInv ==
    disp.pc = "emit" =>
        /\ RequestOf(disp.event) \in pending[disp.node]
        /\ \A k \in 1..Len(queue[disp.node]) : queue[disp.node][k].handle # disp.event.handle
        /\ resp_length > 0 => frame.of = disp.event.id

\* The node of a reserved range is the one whose requests are being handled.
DrainInv == IsReserved => Drained(node)

RespInv ==
    /\ TypeOK /\ DispInv /\ FrameInv /\ RangeInv
    /\ Drains => PendingInv /\ EmissionInv /\ DrainInv /\ AnswersOwnData

-----------------------------------------------------------------------------
USE NodesAssumption, WidthsAssumption, BoundsAssumption, RcodesAssumption, EnvironmentAssumption

\* Request p of client n gets its response.
Answered(n, p, rc, d) ==
    /\ pending' = [pending EXCEPT ![n] = @ \ {p}]
    /\ answers' = [answers EXCEPT ![p.id] = [rcode |-> rc, data |-> d]]

\* A response is either lost or ends one pending request.
LEMMA SendStep ==
    ASSUME TypeOK, NEW n \in Nodes \cup {NoNode}, NEW h, NEW rc, NEW d, SendResponse(n, h, rc, d)
    PROVE  \/ UNCHANGED <<pending, answers>>
           \/ /\ n \in Nodes
              /\ \E p \in pending[n] : p.handle = h /\ Answered(n, p, rc, d)
  <1>1. CASE n # NoNode /\ device[n] = "open" /\ \E p \in pending[n] : p.handle = h
    <2> DEFINE p == CHOOSE q \in pending[n] : q.handle = h
    <2>1. p \in pending[n] /\ p.handle = h
      BY <1>1
    <2>2. Answered(n, p, rc, d)
      BY <1>1 DEF SendResponse, Answered
    <2> HIDE DEF p
    <2> QED BY <1>1, <2>1, <2>2
  <1>2. CASE ~(n # NoNode /\ device[n] = "open" /\ \E p \in pending[n] : p.handle = h)
    BY <1>2 DEF SendResponse
  <1> QED BY <1>1, <1>2

\* What a handler of request events does with the event it reads from n.
Handled(n) ==
    /\ disp.pc = "idle" /\ queue[n] # <<>>
    /\ queue' = [queue EXCEPT ![n] = Tail(@)]
    /\ frame' = [frame EXCEPT !.of = 0] /\ resp_length' = 0
    /\ UNCHANGED <<node, width, addr_handle, error, alive, reserves, abi, device, ranges>>
    /\ \/ /\ UNCHANGED disp
          /\ \E rc \in AllRcodes : SendResponse(node, Head(queue[n]).handle, rc, NoData)
       \/ /\ IsReserved
          /\ disp' = [pc |-> "emit", node |-> n, event |-> Head(queue[n])]
          /\ UNCHANGED <<pending, answers>>

\* It answers at once, without data, or emits.
LEMMA DispatchStep ==
    ASSUME Dispatch
    PROVE  \E n \in Nodes : Handled(n)
  <1>1. PICK n \in Nodes : HandleRequest(n) \/ HandleRequest2(n) \/ HandleRequest3(n)
    BY DEF Dispatch
  <1>2. PICK v \in 1..3, initial \in SUBSET AllRcodes : Handle(n, v, initial)
    <2>1. {"ADDRESS_ERROR"} \in SUBSET AllRcodes /\ AllRcodes \in SUBSET AllRcodes
      BY DEF AllRcodes
    <2> QED BY <1>1, <2>1 DEF HandleRequest, HandleRequest2, HandleRequest3
  <1>3. Data(resp_length', frame') = NoData
    BY <1>2 DEF Handle, Cleared, Data
  <1>4. /\ disp.pc = "idle" /\ queue[n] # <<>>
        /\ queue' = [queue EXCEPT ![n] = Tail(@)]
        /\ frame' = [frame EXCEPT !.of = 0] /\ resp_length' = 0
        /\ UNCHANGED <<node, width, addr_handle, error, alive, reserves, abi, device, ranges>>
    BY <1>2 DEF Handle, Reads, Cleared
  <1>5. CASE Refuse(n)
    BY <1>3, <1>4, <1>5 DEF Refuse, Handled, AllRcodes
  <1>6. CASE Unhandled(n, initial)
    <2>1. PICK rc \in initial \cup {"COMPLETE"} :
             SendResponse(node, Head(queue[n]).handle, rc, NoData)
      BY <1>3, <1>6 DEF Unhandled
    <2>2. rc \in AllRcodes
      BY DEF AllRcodes
    <2> QED BY <1>4, <1>6, <2>1, <2>2 DEF Unhandled, Handled
  <1>7. CASE Emit(n)
    BY <1>4, <1>7 DEF Emit, Fits, Handled
  <1> QED BY <1>2, <1>5, <1>6, <1>7 DEF Handle

LEMMA TypeInit == Init => TypeOK /\ DispInv
  <1> SUFFICES ASSUME Init PROVE TypeOK /\ DispInv
    OBVIOUS
  <1>1. 0 \in Lengths
    BY DEF Lengths
  <1>2. ObjectTypeOK
    BY <1>1 DEF Init, ObjectTypeOK
  <1>3. KernelTypeOK
    BY <1>1 DEF Init, KernelTypeOK, NoAnswer, NoData
  <1>4. disp = [pc |-> "idle", node |-> NoNode, event |-> NoEvent] /\ reserves = 0
    BY DEF Init, Idle
  <1> QED BY <1>2, <1>3, <1>4 DEF TypeOK, DispInv

\* A release gives the range back and leaves no frame.
LEMMA ReleaseStep ==
    ASSUME Release \/ Finalize
    PROVE  /\ UNCHANGED <<error, disp, reserves, abi, device, pending, queue, answers, addr_handle>>
           /\ \/ /\ UNCHANGED <<node, width, frame, resp_length, ranges>>
                 /\ ~IsReserved
              \/ /\ IsReserved /\ Deallocate
                 /\ node' = NoNode /\ width' = 0 /\ resp_length' = 0
                 /\ frame' = [size |-> 0, of |-> 0]
  BY DEF Release, Finalize, Released, object

\* A response keeps the types of the requests and of their answers.
LEMMA SendTypes ==
    ASSUME TypeOK, NEW n \in Nodes \cup {NoNode}, NEW h, NEW rc \in AllRcodes,
           NEW d \in [of: Ids \cup {0}, length: Lengths], SendResponse(n, h, rc, d)
    PROVE  /\ pending' \in [Nodes -> SUBSET [id: Ids, handle: Handles]]
           /\ answers' \in [Ids -> [rcode: AllRcodes \cup {"none"},
                                    data: [of: Ids \cup {0}, length: Lengths]]]
  <1>1. CASE UNCHANGED <<pending, answers>>
    BY <1>1 DEF TypeOK, KernelTypeOK
  <1>2. ASSUME n \in Nodes, NEW p \in pending[n], Answered(n, p, rc, d)
        PROVE  /\ pending' \in [Nodes -> SUBSET [id: Ids, handle: Handles]]
               /\ answers' \in [Ids -> [rcode: AllRcodes \cup {"none"},
                                        data: [of: Ids \cup {0}, length: Lengths]]]
    <2>1. [rcode |-> rc, data |-> d] \in [rcode: AllRcodes \cup {"none"},
                                          data: [of: Ids \cup {0}, length: Lengths]]
      OBVIOUS
    <2> QED BY <1>2, <2>1 DEF Answered, TypeOK, KernelTypeOK
  <1> QED BY <1>1, <1>2, SendStep

LEMMA TypeNext ==
    ASSUME TypeOK, DispInv, FrameInv, [Next]_vars
    PROVE  TypeOK' /\ DispInv'
  <1> USE DEF TypeOK, ObjectTypeOK, KernelTypeOK, DispInv, object, kernel
  <1>0. 0 \in Lengths /\ Widths \subseteq Lengths /\ NoData \in [of: Ids \cup {0}, length: Lengths]
    BY DEF Lengths, NoData
  <1>1. ASSUME NEW n \in Nodes, ReserveFails(n) PROVE TypeOK' /\ DispInv'
    BY <1>1 DEF ReserveFails, ReserveError
  <1>2. ASSUME NEW n \in Nodes, NEW h \in Handles, NEW w \in Widths, Reserve(n, h, w)
        PROVE  TypeOK' /\ DispInv'
    <2>1. [handle |-> h, width |-> w] \in [handle: Handles, width: Widths]
      OBVIOUS
    <2>2. ranges' \in [Nodes -> SUBSET [handle: Handles, width: Widths]]
      BY <1>2, <2>1 DEF Reserve, Allocates, AllocateRange
    <2> QED BY <1>2, <2>2 DEF Reserve, Allocates
  <1>3. CASE Release \/ Finalize
    <2>1. alive' \in BOOLEAN
      BY <1>3 DEF Release, Finalize
    <2>2. ranges' \in [Nodes -> SUBSET [handle: Handles, width: Widths]]
      <3>1. CASE UNCHANGED ranges
        BY <3>1
      <3>2. CASE Deallocate /\ device[node] = "open" /\ node \in Nodes
        <4>1. {r \in ranges[node] : r.handle # addr_handle} \in SUBSET [handle: Handles, width: Widths]
          BY <3>2
        <4> QED BY <3>2, <4>1 DEF Deallocate
      <3> QED BY <1>3, <3>1, <3>2, ReleaseStep DEF Deallocate, IsReserved
    <2>3. /\ node' \in Nodes \cup {NoNode} /\ width' \in Widths \cup {0}
          /\ frame' \in [size: Widths \cup {0}, of: Ids \cup {0}] /\ resp_length' \in Lengths
      BY <1>0, <1>3, ReleaseStep
    <2>4. UNCHANGED <<error, disp, reserves, abi, device, pending, queue, answers, addr_handle>>
      BY <1>3, ReleaseStep
    <2> QED BY <2>1, <2>2, <2>3, <2>4
  <1>4. ASSUME NEW l \in Lengths, SetRespFrame(l) PROVE TypeOK' /\ DispInv'
    <2>1. disp.event.id \in Ids \cup {0}
      BY DEF Events, NoEvent
    <2> QED BY <1>4, <2>1 DEF SetRespFrame
  <1>5. ASSUME NEW n \in Nodes, Handled(n) PROVE TypeOK' /\ DispInv'
    <2>1. Head(queue[n]) \in Events /\ Tail(queue[n]) \in Seq(Events)
      BY <1>5 DEF Handled
    <2>2. queue' \in [Nodes -> Seq(Events)] /\ frame' \in [size: Widths \cup {0}, of: Ids \cup {0}]
      BY <1>5, <2>1 DEF Handled
    <2>3. disp' \in [pc: {"idle", "emit"}, node: Nodes \cup {NoNode}, event: Events \cup {NoEvent}]
          /\ DispInv'
      BY <1>5, <2>1 DEF Handled
    <2>4. /\ pending' \in [Nodes -> SUBSET [id: Ids, handle: Handles]]
          /\ answers' \in [Ids -> [rcode: AllRcodes \cup {"none"},
                                   data: [of: Ids \cup {0}, length: Lengths]]]
      <3>1. CASE UNCHANGED <<pending, answers>>
        BY <3>1
      <3>2. CASE \E rc \in AllRcodes : SendResponse(node, Head(queue[n]).handle, rc, NoData)
        BY <1>0, <3>2, SendTypes
      <3> QED BY <1>5, <3>1, <3>2 DEF Handled
    <2> QED BY <1>0, <1>5, <2>2, <2>3, <2>4 DEF Handled
  <1>6. CASE Respond
    <2>1. PICK rc \in Rcodes : SendResponse(node, disp.event.handle, rc, Data(resp_length, frame))
      BY <1>6 DEF Respond
    <2>2. rc \in AllRcodes /\ Data(resp_length, frame) \in [of: Ids \cup {0}, length: Lengths]
      BY <1>0 DEF AllRcodes, Data
    <2>3. /\ pending' \in [Nodes -> SUBSET [id: Ids, handle: Handles]]
          /\ answers' \in [Ids -> [rcode: AllRcodes \cup {"none"},
                                   data: [of: Ids \cup {0}, length: Lengths]]]
      BY <2>1, <2>2, SendTypes
    <2> QED BY <1>6, <2>3 DEF Respond, Idle
  <1>7. ASSUME NEW n \in Nodes, Open(n) \/ Unplug(n) PROVE TypeOK' /\ DispInv'
    BY <1>7 DEF Open, Unplug
  <1>8. ASSUME NEW n \in Nodes, Arrive(n) PROVE TypeOK' /\ DispInv'
    <2>1. PICK h \in Handles, l \in Lengths, i \in Ids :
             /\ pending' = [pending EXCEPT ![n] = @ \cup {[id |-> i, handle |-> h]}]
             /\ queue' = [queue EXCEPT ![n] = Append(@,
                             [id |-> i, handle |-> h, length |-> l, version |-> Version])]
      BY <1>8 DEF Arrive
    <2>2. Version \in 1..3
      <3>1. abi \in {3, 5, 6}
        OBVIOUS
      <3>2. CASE abi = 3
        BY <3>2 DEF Version
      <3>3. CASE abi = 5
        BY <3>3 DEF Version
      <3>4. CASE abi = 6
        BY <3>4 DEF Version
      <3> QED BY <3>1, <3>2, <3>3, <3>4
    <2>3. [id |-> i, handle |-> h, length |-> l, version |-> Version] \in Events
      BY <2>2 DEF Events
    <2>4. queue' \in [Nodes -> Seq(Events)]
      BY <2>1, <2>3
    <2>5. pending' \in [Nodes -> SUBSET [id: Ids, handle: Handles]]
      BY <2>1
    <2> QED BY <1>8, <2>4, <2>5 DEF Arrive
  <1>9. CASE UNCHANGED vars
    BY <1>9 DEF vars
  <1> QED BY <1>1, <1>2, <1>3, <1>4, <1>5, <1>6, <1>7, <1>8, <1>9, DispatchStep DEF Next, Application

\* Every length is checked against the width, and the width is that of the frame
\* there is.
LEMMA FrameNext ==
    ASSUME TypeOK, FrameInv, [Next]_vars
    PROVE  FrameInv'
  <1> USE DEF TypeOK, ObjectTypeOK, Lengths, FrameInv, FrameFits, IsReserved, object
  <1>1. ASSUME NEW n \in Nodes, ReserveFails(n) \/ Open(n) \/ Unplug(n) \/ Arrive(n) PROVE FrameInv'
    BY <1>1 DEF ReserveFails, Open, Unplug, Arrive
  <1>2. ASSUME NEW n \in Nodes, NEW h \in Handles, NEW w \in Widths, Reserve(n, h, w) PROVE FrameInv'
    BY <1>2 DEF Reserve, Allocates
  <1>3. CASE Release \/ Finalize
    BY <1>3, ReleaseStep
  <1>4. ASSUME NEW l \in Lengths, SetRespFrame(l) PROVE FrameInv'
    BY <1>4 DEF SetRespFrame
  <1>5. ASSUME NEW n \in Nodes, Handled(n) PROVE FrameInv'
    BY <1>5 DEF Handled
  <1>6. CASE Respond \/ UNCHANGED vars
    BY <1>6 DEF Respond, vars
  <1> QED BY <1>1, <1>2, <1>3, <1>4, <1>5, <1>6, DispatchStep DEF Next, Application

\* The handle and the width that the object keeps are those of its one range.
LEMMA RangeNext ==
    ASSUME TypeOK, RangeInv, [Next]_vars
    PROVE  RangeInv'
  <1> USE DEF TypeOK, ObjectTypeOK, KernelTypeOK, RangeInv, RangeIsKnown, IsReserved, object, kernel
  <1>1. ASSUME UNCHANGED <<node, width, addr_handle, ranges, device>> PROVE RangeInv'
    BY <1>1
  <1>2. ASSUME NEW n \in Nodes, NEW h \in Handles, NEW w \in Widths, Reserve(n, h, w) PROVE RangeInv'
    <2>1. /\ device[n] = "open" /\ node = NoNode /\ UNCHANGED device
          /\ node' = n /\ width' = w /\ addr_handle' = h
          /\ ranges' = [ranges EXCEPT ![n] = @ \cup {[handle |-> h, width |-> w]}]
      BY <1>2 DEF Reserve, Allocates, AllocateRange
    <2>2. ranges'[n] = {[handle |-> h, width |-> w]}
      BY <2>1
    <2>3. \A m \in Nodes \ {n} : ranges'[m] = ranges[m]
      BY <2>1
    <2> QED BY <2>1, <2>2, <2>3
  <1>3. CASE Release \/ Finalize
    <2>1. CASE ~IsReserved
      BY <1>1, <1>3, <2>1, ReleaseStep
    <2>2. CASE IsReserved
      <3>1. node \in Nodes /\ node' = NoNode /\ UNCHANGED device /\ Deallocate
        BY <1>3, <2>2, ReleaseStep
      <3>2. device[node] = "open" => ranges'[node] = {}
        BY <2>2, <3>1 DEF Deallocate
      <3>3. \A m \in Nodes \ {node} : ranges'[m] = ranges[m]
        BY <3>1 DEF Deallocate
      <3>4. device[node] # "closed"
        BY <3>1
      <3> QED BY <3>1, <3>2, <3>3, <3>4
    <2> QED BY <2>1, <2>2
  <1>4. ASSUME NEW n \in Nodes, Open(n) \/ Unplug(n) PROVE RangeInv'
    <2>1. CASE Open(n)
      BY <2>1 DEF Open
    <2>2. CASE Unplug(n)
      BY <2>2 DEF Unplug
    <2> QED BY <1>4, <2>1, <2>2
  <1>5. ASSUME NEW n \in Nodes, ReserveFails(n) \/ Arrive(n) \/ Handled(n) PROVE RangeInv'
    BY <1>1, <1>5 DEF ReserveFails, Arrive, Handled
  <1>6. ASSUME NEW l \in Lengths, SetRespFrame(l) PROVE RangeInv'
    BY <1>1, <1>6 DEF SetRespFrame
  <1>7. CASE Respond \/ UNCHANGED vars
    BY <1>1, <1>7 DEF Respond, vars
  <1> QED BY <1>2, <1>3, <1>4, <1>5, <1>6, <1>7, DispatchStep DEF Next, Application

-----------------------------------------------------------------------------
(***************************************************************************)
(* The response frame and the handles.  What follows is about applications *)
(* that let the requests of one node be handled before they reserve a      *)
(* range at another: a handle says which request it is in one client only. *)
(***************************************************************************)
\* The events left behind the one that is read.
LEMMA ReadFacts ==
    ASSUME TypeOK, NEW n \in Nodes, Handled(n)
    PROVE  /\ 1 \in 1..Len(queue[n]) /\ Head(queue[n]) = queue[n][1]
           /\ \A k \in 1..Len(queue'[n]) : /\ k + 1 \in 1..Len(queue[n]) /\ k + 1 # 1
                                           /\ queue'[n][k] = queue[n][k + 1]
           /\ \A m \in Nodes \ {n} : queue'[m] = queue[m]
  <1>1. queue[n] \in Seq(Events) /\ queue[n] # <<>> /\ queue' = [queue EXCEPT ![n] = Tail(@)]
    BY DEF Handled, TypeOK, KernelTypeOK
  <1>2. queue'[n] = Tail(queue[n]) /\ \A m \in Nodes \ {n} : queue'[m] = queue[m]
    BY <1>1 DEF TypeOK, KernelTypeOK
  <1>3. Len(queue[n]) \in Nat /\ Len(queue[n]) > 0 /\ Head(queue[n]) = queue[n][1]
    BY <1>1
  <1>4. Len(queue'[n]) = Len(queue[n]) - 1
    <2>1. Len(Tail(queue[n])) = Len(queue[n]) - 1
      BY <1>1
    <2> QED BY <1>2, <2>1
  <1>5. \A k \in 1..Len(queue'[n]) : queue'[n][k] = queue[n][k + 1]
    BY <1>1, <1>2, <1>4
  <1>6. \A k \in 1..Len(queue'[n]) : k + 1 \in 1..Len(queue[n]) /\ k + 1 # 1
    BY <1>3, <1>4
  <1> QED BY <1>2, <1>3, <1>5, <1>6

\* A request that arrives is one of the node at which the range is reserved, and
\* its handle is new.
LEMMA ArriveFacts ==
    ASSUME TypeOK, RangeInv, NEW n \in Nodes, Arrive(n)
    PROVE  /\ node = n
           /\ UNCHANGED <<node, frame, resp_length, disp, answers>>
           /\ \A m \in Nodes \ {n} : queue'[m] = queue[m] /\ pending'[m] = pending[m]
           /\ \E e \in Events :
                 /\ \A p \in pending[n] : p.handle # e.handle
                 /\ pending'[n] = pending[n] \cup {RequestOf(e)}
                 /\ queue'[n] = Append(queue[n], e)
  <1>1. PICK r \in ranges[n], h \in Handles \ UsedHandles(n), l \in Lengths, i \in Ids :
           /\ pending' = [pending EXCEPT ![n] = @ \cup {[id |-> i, handle |-> h]}]
           /\ queue' = [queue EXCEPT ![n] = Append(@,
                           [id |-> i, handle |-> h, length |-> l, version |-> Version])]
    BY DEF Arrive
  <1>2. node = n
    BY DEF Arrive, RangeInv, RangeIsKnown
  <1> DEFINE e == [id |-> i, handle |-> h, length |-> l, version |-> Version]
  <1>3. Version \in 1..3
    <2>1. abi \in {3, 5, 6}
      BY DEF TypeOK, KernelTypeOK
    <2>2. CASE abi = 3
      BY <2>2 DEF Version
    <2>3. CASE abi = 5
      BY <2>3 DEF Version
    <2>4. CASE abi = 6
      BY <2>4 DEF Version
    <2> QED BY <2>1, <2>2, <2>3, <2>4
  <1>4. e \in Events
    BY <1>3 DEF Events
  <1>5. RequestOf(e) = [id |-> i, handle |-> h] /\ e.handle = h
    BY DEF RequestOf
  <1>6. \A p \in pending[n] : p.handle # h
    BY DEF UsedHandles
  <1>7. pending'[n] = pending[n] \cup {[id |-> i, handle |-> h]} /\ queue'[n] = Append(queue[n], e)
        /\ \A m \in Nodes \ {n} : queue'[m] = queue[m] /\ pending'[m] = pending[m]
    BY <1>1 DEF TypeOK, KernelTypeOK
  <1>8. UNCHANGED <<node, frame, resp_length, disp, answers>>
    BY DEF Arrive, object
  <1> HIDE DEF e
  <1> QED BY <1>2, <1>4, <1>5, <1>6, <1>7, <1>8

\* The events of the node are answered through the node: while a range is
\* reserved, no other node has events.
LEMMA DrainNext ==
    ASSUME TypeOK, DispInv, RangeInv, Drains, DrainInv, [Next]_vars
    PROVE  DrainInv'
  <1> USE DEF DrainInv, Drained, IsReserved
  <1>1. ASSUME UNCHANGED <<node, queue, disp>> PROVE DrainInv'
    BY <1>1
  <1>2. ASSUME NEW n \in Nodes, NEW h \in Handles, NEW w \in Widths, Reserve(n, h, w) PROVE DrainInv'
    BY <1>2 DEF Reserve, Allocates
  <1>3. CASE Release \/ Finalize
    BY <1>1, <1>3, ReleaseStep
  <1>4. ASSUME NEW n \in Nodes, Handled(n) PROVE DrainInv'
    <2>1. UNCHANGED node /\ (UNCHANGED disp \/ disp'.node = n)
      BY <1>4 DEF Handled
    <2>2. node # NoNode => node = n
      BY <1>4 DEF Handled, TypeOK, ObjectTypeOK
    <2> QED BY <1>4, <2>1, <2>2, ReadFacts
  <1>5. ASSUME NEW n \in Nodes, Arrive(n) PROVE DrainInv'
    BY <1>5, ArriveFacts
  <1>6. CASE Respond
    BY <1>6 DEF Respond, Idle, object
  <1>7. ASSUME NEW n \in Nodes, ReserveFails(n) \/ Open(n) \/ Unplug(n) PROVE DrainInv'
    BY <1>1, <1>7 DEF ReserveFails, Open, Unplug, object, kernel
  <1>8. ASSUME NEW l \in Lengths, SetRespFrame(l) PROVE DrainInv'
    BY <1>1, <1>8 DEF SetRespFrame, kernel
  <1>9. CASE UNCHANGED vars
    BY <1>1, <1>9 DEF vars, object, kernel
  <1> QED BY <1>2, <1>3, <1>4, <1>5, <1>6, <1>7, <1>8, <1>9, DispatchStep DEF Next, Application

\* Where a response goes: while the handlers of n run, only to a request of n.
LEMMA ResponseGoesTo ==
    ASSUME TypeOK, DispInv, DrainInv, NEW n \in Nodes, NEW h, NEW rc, NEW d,
           SendResponse(node, h, rc, d),
           queue[n] # <<>> \/ (disp.pc = "emit" /\ disp.node = n)
    PROVE  \/ UNCHANGED <<pending, answers>>
           \/ \E p \in pending[n] : p.handle = h /\ Answered(n, p, rc, d)
  <1>1. node \in Nodes \cup {NoNode}
    BY DEF TypeOK, ObjectTypeOK
  <1>2. node \in Nodes => node = n
    BY DEF DrainInv, Drained, IsReserved
  <1> QED BY <1>1, <1>2, SendStep

\* The handler of n reads, and answers or emits.
LEMMA PendingHandled ==
    ASSUME TypeOK, DispInv, DrainInv, PendingInv, EmissionInv, AnswersOwnData,
           NEW n \in Nodes, Handled(n)
    PROVE  PendingInv' /\ EmissionInv' /\ AnswersOwnData'
  <1> DEFINE e == Head(queue[n])
  <1>1. e \in Events /\ RequestOf(e) \in pending[n]
        /\ \A k \in 1..Len(queue'[n]) : queue'[n][k].handle # e.handle
    <2>1. RequestOf(e) \in pending[n]
      BY ReadFacts DEF PendingInv
    <2>2. e \in Events
      BY DEF Handled, TypeOK, KernelTypeOK
    <2>3. ASSUME NEW k \in 1..Len(queue'[n]) PROVE queue'[n][k].handle # e.handle
      <3>1. /\ 1 \in 1..Len(queue[n]) /\ e = queue[n][1]
            /\ k + 1 \in 1..Len(queue[n]) /\ k + 1 # 1 /\ queue'[n][k] = queue[n][k + 1]
        BY ReadFacts
      <3>2. queue[n][k + 1].handle # queue[n][1].handle
        BY <3>1 DEF PendingInv
      <3> QED BY <3>1, <3>2
    <2> QED BY <2>1, <2>2, <2>3
  <1>2. ASSUME NEW m \in Nodes PROVE \A j, k \in 1..Len(queue'[m]) :
                 queue'[m][j].handle = queue'[m][k].handle => j = k
    <2>1. CASE m = n
      <3> SUFFICES ASSUME NEW j \in 1..Len(queue'[n]), NEW k \in 1..Len(queue'[n]),
                          queue'[n][j].handle = queue'[n][k].handle
                   PROVE  j = k
        BY <2>1
      <3>1. /\ j + 1 \in 1..Len(queue[n]) /\ k + 1 \in 1..Len(queue[n])
            /\ queue[n][j + 1].handle = queue[n][k + 1].handle
        BY ReadFacts
      <3>2. j + 1 = k + 1
        BY <3>1 DEF PendingInv
      <3> QED BY <3>2
    <2>2. CASE m # n
      BY <2>2, ReadFacts DEF PendingInv
    <2> QED BY <2>1, <2>2
  <1>3. ASSUME NEW m \in Nodes, NEW k \in 1..Len(queue'[m])
        PROVE  RequestOf(queue'[m][k]) \in pending[m]
    <2>1. CASE m = n
      BY <2>1, ReadFacts DEF PendingInv
    <2>2. CASE m # n
      BY <2>2, ReadFacts DEF PendingInv
    <2> QED BY <2>1, <2>2
  <1>4. CASE /\ IsReserved
             /\ disp' = [pc |-> "emit", node |-> n, event |-> Head(queue[n])]
             /\ UNCHANGED <<pending, answers>>
    <2>1. PendingInv'
      BY <1>2, <1>3, <1>4 DEF PendingInv
    <2>2. EmissionInv'
      BY <1>1, <1>4 DEF EmissionInv, Handled
    <2>3. AnswersOwnData'
      BY <1>4 DEF AnswersOwnData
    <2> QED BY <2>1, <2>2, <2>3
  <1>5. ASSUME UNCHANGED disp, NEW rc \in AllRcodes, SendResponse(node, e.handle, rc, NoData)
        PROVE  PendingInv' /\ EmissionInv' /\ AnswersOwnData'
    <2>1. EmissionInv'
      BY <1>5 DEF EmissionInv, Handled
    <2>2. CASE UNCHANGED <<pending, answers>>
      <3>1. PendingInv'
        BY <1>2, <1>3, <2>2 DEF PendingInv
      <3>2. AnswersOwnData'
        BY <2>2 DEF AnswersOwnData
      <3> QED BY <2>1, <3>1, <3>2
    <2>3. ASSUME NEW p \in pending[n], p.handle = e.handle, Answered(n, p, rc, NoData)
          PROVE  PendingInv' /\ AnswersOwnData'
      <3>1. pending'[n] = pending[n] \ {p} /\ \A m \in Nodes \ {n} : pending'[m] = pending[m]
        BY <2>3 DEF Answered, TypeOK, KernelTypeOK
      <3>2. ASSUME NEW k \in 1..Len(queue'[n]) PROVE RequestOf(queue'[n][k]) # p
        <4>1. RequestOf(queue'[n][k]).handle # p.handle
          BY <1>1, <2>3 DEF RequestOf
        <4> QED BY <4>1
      <3>3. ASSUME NEW m \in Nodes, NEW k \in 1..Len(queue'[m])
            PROVE  RequestOf(queue'[m][k]) \in pending'[m]
        <4>1. CASE m = n
          BY <1>3, <3>1, <3>2, <4>1
        <4>2. CASE m # n
          BY <1>3, <3>1, <4>2
        <4> QED BY <4>1, <4>2
      <3>4. \A m \in Nodes : pending'[m] \subseteq pending[m]
        BY <3>1
      <3>5. PendingInv'
        BY <1>2, <3>3, <3>4 DEF PendingInv
      <3>6. p.id \in Ids /\ answers' = [answers EXCEPT ![p.id] = [rcode |-> rc, data |-> NoData]]
        BY <2>3 DEF Answered, TypeOK, KernelTypeOK
      <3>7. AnswersOwnData'
        BY <3>6 DEF AnswersOwnData, TypeOK, KernelTypeOK
      <3> QED BY <3>5, <3>7
    <2>4. queue[n] # <<>>
      BY DEF Handled
    <2> QED BY <1>5, <2>1, <2>2, <2>3, <2>4, ResponseGoesTo
  <1> QED BY <1>4, <1>5 DEF Handled

\* The handler of "requested" returns, and its response is sent: nothing else has
\* answered the request, so that the handle is still its own.
LEMMA PendingRespond ==
    ASSUME TypeOK, DispInv, DrainInv, PendingInv, EmissionInv, AnswersOwnData, Respond
    PROVE  PendingInv' /\ EmissionInv' /\ AnswersOwnData'
  <1>1. PICK n \in Nodes : n = disp.node /\ disp.pc = "emit"
    BY DEF Respond, DispInv
  <1>2. PICK rc \in Rcodes : SendResponse(node, disp.event.handle, rc, Data(resp_length, frame))
    BY DEF Respond
  <1>3. EmissionInv' /\ UNCHANGED queue
    BY DEF EmissionInv, Respond, Idle
  <1>4. CASE UNCHANGED <<pending, answers>>
    BY <1>3, <1>4 DEF PendingInv, AnswersOwnData
  <1>5. ASSUME NEW p \in pending[n], p.handle = disp.event.handle,
               Answered(n, p, rc, Data(resp_length, frame))
        PROVE  PendingInv' /\ AnswersOwnData'
    <2>1. p = RequestOf(disp.event)
      BY <1>1, <1>5 DEF EmissionInv, PendingInv, RequestOf
    <2>2. pending'[n] = pending[n] \ {p} /\ \A m \in Nodes \ {n} : pending'[m] = pending[m]
      BY <1>5 DEF Answered, TypeOK, KernelTypeOK
    <2>3. ASSUME NEW k \in 1..Len(queue[n]) PROVE RequestOf(queue[n][k]) # p
      <3>1. RequestOf(queue[n][k]).handle # p.handle
        BY <1>1, <1>5 DEF EmissionInv, RequestOf
      <3> QED BY <3>1
    <2>4. ASSUME NEW m \in Nodes, NEW k \in 1..Len(queue'[m])
          PROVE  RequestOf(queue'[m][k]) \in pending'[m]
      <3>1. CASE m = n
        BY <1>3, <2>2, <2>3, <3>1 DEF PendingInv
      <3>2. CASE m # n
        BY <1>3, <2>2, <3>2 DEF PendingInv
      <3> QED BY <3>1, <3>2
    <2>5. \A m \in Nodes : pending'[m] \subseteq pending[m]
      BY <2>2
    <2>6. PendingInv'
      BY <1>3, <2>4, <2>5 DEF PendingInv
    <2>7. p.id \in Ids /\ p.id = disp.event.id
      BY <2>1 DEF RequestOf, TypeOK, KernelTypeOK
    <2>8. Data(resp_length, frame) # NoData => Data(resp_length, frame).of = p.id
      BY <1>1, <2>7 DEF Data, EmissionInv
    <2>9. rc # "CONFLICT_ERROR"
      OBVIOUS
    <2>10. answers' = [answers EXCEPT ![p.id] = [rcode |-> rc, data |-> Data(resp_length, frame)]]
      BY <1>5 DEF Answered
    <2>11. AnswersOwnData'
      BY <2>7, <2>8, <2>9, <2>10 DEF AnswersOwnData, TypeOK, KernelTypeOK
    <2> QED BY <2>6, <2>11
  <1> QED BY <1>1, <1>2, <1>3, <1>4, <1>5, ResponseGoesTo

\* A request arrives with a handle that no pending request has.
LEMMA PendingArrive ==
    ASSUME TypeOK, DispInv, RangeInv, PendingInv, EmissionInv, AnswersOwnData,
           NEW n \in Nodes, Arrive(n)
    PROVE  PendingInv' /\ EmissionInv' /\ AnswersOwnData'
  <1>1. PICK e \in Events : /\ \A p \in pending[n] : p.handle # e.handle
                            /\ pending'[n] = pending[n] \cup {RequestOf(e)}
                            /\ queue'[n] = Append(queue[n], e)
    BY ArriveFacts
  <1>2. /\ UNCHANGED <<disp, answers, frame, resp_length>>
        /\ \A m \in Nodes \ {n} : queue'[m] = queue[m] /\ pending'[m] = pending[m]
    BY ArriveFacts
  <1>3. RequestOf(e).handle = e.handle
    BY DEF RequestOf
  <1>4. queue[n] \in Seq(Events)
    BY DEF TypeOK, KernelTypeOK
  <1>5. Len(queue[n]) \in Nat /\ Len(queue'[n]) = Len(queue[n]) + 1
    BY <1>1, <1>4
  <1>6. /\ \A k \in 1..Len(queue[n]) : queue'[n][k] = queue[n][k]
        /\ queue'[n][Len(queue[n]) + 1] = e
        /\ \A k \in 1..Len(queue'[n]) : k \in 1..Len(queue[n]) \/ k = Len(queue[n]) + 1
    BY <1>1, <1>4, <1>5
  <1>7. \A k \in 1..Len(queue[n]) : queue[n][k].handle # e.handle
    <2>1. ASSUME NEW k \in 1..Len(queue[n]) PROVE queue[n][k].handle # e.handle
      <3>1. RequestOf(queue[n][k]) \in pending[n] /\ RequestOf(queue[n][k]).handle = queue[n][k].handle
        BY DEF PendingInv, RequestOf
      <3> QED BY <1>1, <3>1
    <2> QED BY <2>1
  <1>8. ASSUME NEW m \in Nodes PROVE \A p, q \in pending'[m] : p.handle = q.handle => p = q
    <2>1. CASE m = n
      BY <1>1, <1>3, <2>1 DEF PendingInv
    <2>2. CASE m # n
      BY <1>2, <2>2 DEF PendingInv
    <2> QED BY <2>1, <2>2
  <1>9. ASSUME NEW m \in Nodes, NEW k \in 1..Len(queue'[m])
        PROVE  RequestOf(queue'[m][k]) \in pending'[m]
    <2>1. CASE m = n
      BY <1>1, <1>6, <2>1 DEF PendingInv
    <2>2. CASE m # n
      BY <1>2, <2>2 DEF PendingInv
    <2> QED BY <2>1, <2>2
  <1>10. ASSUME NEW m \in Nodes PROVE \A j, k \in 1..Len(queue'[m]) :
                 queue'[m][j].handle = queue'[m][k].handle => j = k
    <2>1. CASE m = n
      <3>1. \A j, k \in 1..Len(queue[n]) : queue'[n][j].handle = queue'[n][k].handle => j = k
        BY <1>6 DEF PendingInv
      <3>2. \A k \in 1..Len(queue[n]) : queue'[n][k].handle # queue'[n][Len(queue[n]) + 1].handle
        BY <1>6, <1>7
      <3> QED BY <1>6, <2>1, <3>1, <3>2
    <2>2. CASE m # n
      BY <1>2, <2>2 DEF PendingInv
    <2> QED BY <2>1, <2>2
  <1>11. PendingInv'
    BY <1>8, <1>9, <1>10 DEF PendingInv
  <1>12. ASSUME disp.pc = "emit" PROVE EmissionInv'
    <2>1. disp.node \in Nodes
      BY <1>12 DEF DispInv
    <2>2. RequestOf(disp.event) \in pending[disp.node] /\ RequestOf(disp.event).handle = disp.event.handle
      BY <1>12 DEF EmissionInv, RequestOf
    <2>3. CASE disp.node = n
      <3>1. e.handle # disp.event.handle
        BY <1>1, <2>2, <2>3
      <3> QED BY <1>1, <1>2, <1>6, <1>12, <2>2, <2>3, <3>1 DEF EmissionInv
    <2>4. CASE disp.node # n
      BY <1>2, <1>12, <2>1, <2>2, <2>4 DEF EmissionInv
    <2> QED BY <2>3, <2>4
  <1>13. ASSUME disp.pc # "emit" PROVE EmissionInv'
    BY <1>2, <1>13 DEF EmissionInv
  <1>14. AnswersOwnData'
    BY <1>2 DEF AnswersOwnData
  <1> QED BY <1>11, <1>12, <1>13, <1>14

LEMMA PendingNext ==
    ASSUME TypeOK, DispInv, FrameInv, RangeInv, DrainInv, PendingInv, EmissionInv, AnswersOwnData,
           [Next]_vars
    PROVE  PendingInv' /\ EmissionInv' /\ AnswersOwnData'
  <1>1. ASSUME UNCHANGED <<pending, queue, disp, answers>>,
               disp.pc = "emit" /\ resp_length' > 0 => frame'.of = disp.event.id
        PROVE  PendingInv' /\ EmissionInv' /\ AnswersOwnData'
    BY <1>1 DEF PendingInv, EmissionInv, AnswersOwnData
  <1>2. ASSUME NEW n \in Nodes, NEW h \in Handles, NEW w \in Widths, Reserve(n, h, w)
        PROVE  PendingInv' /\ EmissionInv' /\ AnswersOwnData'
    <2>1. resp_length' = 0 /\ UNCHANGED <<pending, queue, disp, answers>>
      BY <1>2 DEF Reserve, Allocates, FrameInv, FrameFits, TypeOK, ObjectTypeOK, Lengths
    <2> QED BY <1>1, <2>1
  <1>3. CASE Release \/ Finalize
    BY <1>1, <1>3, ReleaseStep DEF EmissionInv
  <1>4. ASSUME NEW l \in Lengths, SetRespFrame(l)
        PROVE  PendingInv' /\ EmissionInv' /\ AnswersOwnData'
    <2>1. frame'.of = disp.event.id /\ UNCHANGED <<pending, queue, disp, answers>>
      BY <1>4 DEF SetRespFrame, kernel, TypeOK, ObjectTypeOK
    <2> QED BY <1>1, <2>1
  <1>5. ASSUME NEW n \in Nodes, ReserveFails(n) \/ Open(n) \/ Unplug(n)
        PROVE  PendingInv' /\ EmissionInv' /\ AnswersOwnData'
    BY <1>1, <1>5 DEF ReserveFails, Open, Unplug, object, kernel, EmissionInv
  <1>6. CASE UNCHANGED vars
    BY <1>1, <1>6 DEF vars, object, kernel, EmissionInv
  <1> QED BY <1>2, <1>3, <1>4, <1>5, <1>6, DispatchStep, PendingHandled, PendingRespond, PendingArrive
         DEF Next, Application

-----------------------------------------------------------------------------
LEMMA RespInit == Init => RespInv
  <1> SUFFICES ASSUME Init PROVE RespInv
    OBVIOUS
  <1>1. TypeOK /\ DispInv
    BY TypeInit
  <1>2. FrameInv
    BY DEF Init, FrameInv, FrameFits
  <1>3. RangeInv
    BY DEF Init, RangeInv, RangeIsKnown, IsReserved
  <1>4. PendingInv
    BY DEF Init, PendingInv
  <1>5. EmissionInv /\ DrainInv
    BY DEF Init, EmissionInv, DrainInv, Idle, IsReserved
  <1>6. AnswersOwnData
    BY DEF Init, AnswersOwnData, NoAnswer
  <1> QED BY <1>1, <1>2, <1>3, <1>4, <1>5, <1>6 DEF RespInv

LEMMA RespInvariant == Spec => []RespInv
  <1>1. RespInv /\ [Next]_vars => RespInv'
    BY TypeNext, FrameNext, RangeNext, DrainNext, PendingNext DEF RespInv
  <1> QED BY <1>1, RespInit, PTL DEF Spec

\* Every variable keeps its type, the content of every answer included.
THEOREM TypeCorrect == Spec => []TypeOK
  <1>1. RespInv => TypeOK
    BY DEF RespInv
  <1> QED BY <1>1, RespInvariant, PTL

\* No length exceeds the frame it is used with (fw_resp.c:372, 388, 400), although
\* the application may release the range and reserve a shorter one inside an
\* emission.
THEOREM FrameSafe == Spec => []FrameFits
  <1>1. RespInv => FrameFits
    BY DEF RespInv, FrameInv
  <1> QED BY <1>1, RespInvariant, PTL

\* The kernel holds exactly the range the object knows of, in whatever order the
\* application reserves and releases (fw_resp.c:249, 331).
THEOREM RangeSafe == Spec => []RangeIsKnown
  <1>1. RespInv => RangeIsKnown
    BY DEF RespInv, RangeInv
  <1> QED BY <1>1, RespInvariant, PTL

\* A response carries the data set for the request it answers, or none
\* (fw_resp.c:389), if the application lets the requests of one node be handled
\* before it reserves a range at another.
THEOREM AnswersSafe ==
    ASSUME Drains
    PROVE  Spec => []AnswersOwnData
  <1>1. RespInv => AnswersOwnData
    BY DEF RespInv
  <1> QED BY <1>1, RespInvariant, PTL
=============================================================================
