-------------------------------- MODULE FwResp --------------------------------
(***************************************************************************)
(* HinawaFwResp (fw_resp.c): an address range of the local node, reserved  *)
(* through the character device of a HinawaFwNode, and the answers to the  *)
(* request subactions that arrive in it.                                   *)
(*                                                                         *)
(* The dispatcher reads a request event and runs one of the three handlers *)
(* of fw_resp.c, which clears the response frame, emits "requested" and    *)
(* sends what the application's handler left in the frame.  Inside the     *)
(* emission, and between events, the application may set the frame,        *)
(* release the range and reserve another: nothing is locked, so that this  *)
(* is the thread of the dispatcher, or another one that does not run       *)
(* inside the statements around the emission.                              *)
(*                                                                         *)
(* One HinawaFwResp, several nodes.  The kernel's side of a node is a      *)
(* client: its address ranges, its pending requests, each with a handle    *)
(* that is unique in the client only, and its queue of events.             *)
(***************************************************************************)
EXTENDS Naturals, Sequences

CONSTANTS
    Nodes,          \* HinawaFwNode objects, each with a descriptor of its own
    NoNode,         \* NULL
    Handles,        \* the handles of a client of the kernel
    MaxWidth,       \* bound: the widest range
    Widths,         \* widths the application reserves
    MaxRequests,    \* bound: requests that arrive
    MaxReserves,    \* bound: attempts to reserve a range
    Rcodes,         \* what handlers of "requested" return
    Abis,           \* ABI versions of the kernel: 3, 5, 6
    Drains          \* does the application let the requests of one node be
                    \* handled before it reserves a range at another?

ASSUME NodesAssumption == NoNode \notin Nodes
ASSUME WidthsAssumption == MaxWidth \in Nat /\ Widths \subseteq 1..MaxWidth
ASSUME BoundsAssumption == MaxRequests \in Nat /\ MaxReserves \in Nat
ASSUME RcodesAssumption == {"none", "CONFLICT_ERROR", "ADDRESS_ERROR"} \cap Rcodes = {}
ASSUME EnvironmentAssumption == Abis \subseteq {3, 5, 6} /\ Drains \in BOOLEAN

VARIABLES
    node,           \* priv->node
    width,          \* priv->width
    frame,          \* priv->resp_frame: its size (0: not allocated) and content
    resp_length,    \* priv->resp_length
    addr_handle,    \* priv->addr_handle
    error,          \* *error of the last reservation
    alive,          \* the object is not finalized
    disp,           \* the dispatcher and the event whose "requested" it emits
    reserves,       \* attempts to reserve a range so far
    abi,            \* the ABI version of the kernel (external)
    device,         \* device[n]: "closed", "open" or "gone" (external)
    ranges,         \* ranges[n]: the ranges allocated for the object (external)
    pending,        \* pending[n]: requests without a response (external)
    queue,          \* queue[n]: request events not yet read (external)
    answers         \* answers[i]: the response to the i-th request (external)

object == <<node, width, frame, resp_length, addr_handle>>
kernel == <<abi, device, ranges, pending, queue, answers>>
vars == <<object, error, alive, disp, reserves, kernel>>

Ids == 1..MaxRequests
Arrived == {i \in Ids : answers[i].rcode # "none"}
           \cup {p.id : p \in UNION {pending[n] : n \in Nodes}}
NoData == [of |-> 0, length |-> 0]
NoAnswer == [rcode |-> "none", data |-> NoData]
NoEvent == [id |-> 0, handle |-> 0, length |-> 0, version |-> 0]
Lengths == 0..MaxWidth
AllRcodes == Rcodes \cup {"COMPLETE", "CONFLICT_ERROR", "ADDRESS_ERROR"}
Idle == [pc |-> "idle", node |-> NoNode, event |-> NoEvent]

\* The property "is-reserved" (fw_resp.c:76).
IsReserved == node # NoNode

\* hinawa_fw_resp_new(): all of the private structure is zero.
Init ==
    /\ node = NoNode /\ width = 0
    /\ frame = [size |-> 0, of |-> 0] /\ resp_length = 0
    /\ addr_handle = 0
    /\ error = "none" /\ alive = TRUE
    /\ disp = Idle
    /\ reserves = 0
    /\ abi \in Abis
    /\ device = [n \in Nodes |-> "closed"]
    /\ ranges = [n \in Nodes |-> {}]
    /\ pending = [n \in Nodes |-> {}]
    /\ queue = [n \in Nodes |-> <<>>]
    /\ answers = [i \in Ids |-> NoAnswer]

-----------------------------------------------------------------------------
\* The kernel.

\* The handles a client has given out, to ranges and to pending requests.
UsedHandles(n) == {r.handle : r \in ranges[n]} \cup {p.handle : p \in pending[n]}

\* The application opens the node, and its GSource is attached.
Open(n) ==
    /\ device[n] = "closed"
    /\ device' = [device EXCEPT ![n] = "open"]
    /\ UNCHANGED <<object, error, alive, disp, reserves, abi, ranges, pending, queue, answers>>

Unplug(n) ==
    /\ device[n] = "open"
    /\ device' = [device EXCEPT ![n] = "gone"]
    /\ UNCHANGED <<object, error, alive, disp, reserves, abi, ranges, pending, queue, answers>>

\* The type of the event of a request depends on the ABI.
Version == CASE abi <= 3 -> 1 [] abi \in {4, 5} -> 2 [] abi >= 6 -> 3

\* A request subaction, contained in an allocated range, becomes pending and an
\* event.
Arrive(n) ==
    /\ device[n] = "open"
    /\ \E r \in ranges[n], h \in Handles \ UsedHandles(n), l \in Lengths, i \in Ids \ Arrived :
          /\ 0 < l /\ l <= r.width
          /\ \A j \in Ids \ Arrived : i <= j
          /\ pending' = [pending EXCEPT ![n] = @ \cup {[id |-> i, handle |-> h]}]
          /\ queue' = [queue EXCEPT ![n] = Append(@,
                          [id |-> i, handle |-> h, length |-> l, version |-> Version])]
    /\ UNCHANGED <<object, error, alive, disp, reserves, abi, device, ranges, answers>>

\* FW_CDEV_IOC_SEND_RESPONSE for a handle of client n: the pending request with
\* this handle, if there is one, gets the response.  Errors are ignored.
SendResponse(n, h, rc, d) ==
    IF n # NoNode /\ device[n] = "open" /\ \E p \in pending[n] : p.handle = h
    THEN LET p == CHOOSE q \in pending[n] : q.handle = h
         IN  /\ pending' = [pending EXCEPT ![n] = @ \ {p}]
             /\ answers' = [answers EXCEPT ![p.id] = [rcode |-> rc, data |-> d]]
    ELSE UNCHANGED <<pending, answers>>

-----------------------------------------------------------------------------
\* The operations of the application: between two events, or in the emission.

\* hinawa_fw_resp_reserve_within_region() fails: the object has a range, the
\* node is not open or gone, the range is used by another client, or else.
ReserveError(n) ==
    IF IsReserved THEN {"RESERVED"}
    ELSE IF device[n] = "closed" THEN {"NOT_OPENED"}
    ELSE IF device[n] = "gone" THEN {"DISCONNECTED"}
    ELSE {"ADDR_SPACE_USED", "FAILED"}

ReserveFails(n) ==
    /\ alive /\ reserves < MaxReserves
    /\ error' \in ReserveError(n)
    /\ reserves' = reserves + 1
    /\ UNCHANGED <<object, alive, disp, kernel>>

\* The requests of other nodes are handled (the application's choice).
Drained(n) ==
    \A m \in Nodes \ {n} : queue[m] = <<>> /\ (disp.pc = "idle" \/ disp.node # m)

\* FW_CDEV_IOC_ALLOCATE: the kernel gives a range and its handle.
AllocateRange(n, h, w) ==
    /\ device[n] = "open"
    /\ h \in Handles \ UsedHandles(n)
    /\ ranges' = [ranges EXCEPT ![n] = @ \cup {[handle |-> h, width |-> w]}]

\* The object takes the range over.
Allocates(n, h, w) ==
    /\ alive /\ reserves < MaxReserves
    /\ Drains => Drained(n)
    /\ AllocateRange(n, h, w)
    /\ node' = n /\ width' = w /\ addr_handle' = h
    /\ frame' = [size |-> w, of |-> 0]
    /\ error' = "none"
    /\ reserves' = reserves + 1
    /\ UNCHANGED <<resp_length, alive, disp, abi, device, pending, queue, answers>>

\* Mutant: a range that is already reserved is not noticed.
ReserveAgain(n, h, w) == Allocates(n, h, w)

Reserve(n, h, w) == ~IsReserved /\ Allocates(n, h, w)

\* FW_CDEV_IOC_DEALLOCATE; its error is ignored.
Deallocate ==
    ranges' = IF device[node] = "open"
              THEN [ranges EXCEPT ![node] = {r \in @ : r.handle # addr_handle}]
              ELSE ranges

\* Mutant: the width is left.
ReleasedStale ==
    /\ Deallocate
    /\ node' = NoNode
    /\ frame' = [size |-> 0, of |-> 0] /\ resp_length' = 0
    /\ UNCHANGED <<width, addr_handle>>

\* hinawa_fw_resp_release() of a reserved range.
Released ==
    /\ Deallocate
    /\ node' = NoNode
    /\ frame' = [size |-> 0, of |-> 0] /\ resp_length' = 0
    /\ width' = 0
    /\ UNCHANGED addr_handle

Release ==
    /\ alive /\ IsReserved
    /\ Released
    /\ UNCHANGED <<error, alive, disp, reserves, abi, device, pending, queue, answers>>

\* fw_resp_finalize().  The closure of an event is the address of the object:
\* the application keeps it until no event is left.
Finalize ==
    /\ alive
    /\ disp.pc = "idle" /\ \A n \in Nodes : queue[n] = <<>>
    /\ alive' = FALSE
    /\ IF IsReserved THEN Released ELSE UNCHANGED <<object, ranges>>
    /\ UNCHANGED <<error, disp, reserves, abi, device, pending, queue, answers>>

\* hinawa_fw_resp_set_resp_frame(): frames longer than the range are ignored.
\* The content is told apart by the request in whose emission it was set.
SetRespFrame(l) ==
    /\ alive
    /\ 0 < l /\ l <= width
    /\ frame' = [frame EXCEPT !.of = disp.event.id]
    /\ resp_length' = l
    /\ UNCHANGED <<node, width, addr_handle, error, alive, disp, reserves, kernel>>

-----------------------------------------------------------------------------
\* The handlers of request events, called by dispatch_src().

\* The event that the dispatcher reads from n, if it is of this version.
Reads(n, v) ==
    /\ alive
    /\ disp.pc = "idle"
    /\ device[n] = "open"
    /\ queue[n] # <<>> /\ Head(queue[n]).version = v
    /\ queue' = [queue EXCEPT ![n] = Tail(@)]

\* Mutant: the length of the previous response is left.
ClearedContent ==
    /\ frame' = [frame EXCEPT !.of = 0]
    /\ UNCHANGED resp_length

Cleared ==
    /\ frame' = [frame EXCEPT !.of = 0]
    /\ resp_length' = 0

\* Mutant: the length is off by one.
DataLonger(l, f) == IF l > 0 THEN [of |-> f.of, length |-> l + 1] ELSE NoData

\* The data of the response: those of the frame, if a length is set.
Data(l, f) == IF l > 0 THEN [of |-> f.of, length |-> l] ELSE NoData

\* Mutant: the early return of a request that is too long for the range.
RefuseSilently(n) ==
    /\ ~IsReserved \/ Head(queue[n]).length > width
    /\ UNCHANGED <<disp, pending, answers>>

\* A request that finds no range, or is too long for the one that was reserved
\* after it arrived, is answered without an emission; through node, if any.
Refuse(n) ==
    /\ ~IsReserved \/ Head(queue[n]).length > width
    /\ SendResponse(node, Head(queue[n]).handle, "CONFLICT_ERROR", Data(resp_length', frame'))
    /\ UNCHANGED disp

Fits(n) == IsReserved /\ Head(queue[n]).length <= width

\* "requested" has no handler: the rcode is what it was initialised to, or the
\* default of its type, 0, where g_signal_emit() stores one.
Unhandled(n, initial) ==
    /\ Fits(n)
    /\ \E rc \in initial \cup {"COMPLETE"} :
          SendResponse(node, Head(queue[n]).handle, rc, Data(resp_length', frame'))
    /\ UNCHANGED disp

\* The handler of "requested" is entered.
Emit(n) ==
    /\ Fits(n)
    /\ disp' = [pc |-> "emit", node |-> n, event |-> Head(queue[n])]
    /\ UNCHANGED <<pending, answers>>

Handle(n, v, initial) ==
    /\ Reads(n, v)
    /\ Cleared
    /\ Refuse(n) \/ Unhandled(n, initial) \/ Emit(n)
    /\ UNCHANGED <<node, width, addr_handle, error, alive, reserves, abi, device, ranges>>

\* The first one leaves rcode uninitialised, the others begin with ADDRESS_ERROR.
HandleRequest(n) == Handle(n, 1, AllRcodes)
HandleRequest2(n) == Handle(n, 2, {"ADDRESS_ERROR"})
HandleRequest3(n) == Handle(n, 3, {"ADDRESS_ERROR"})

\* The handler returns its rcode and the response is sent through priv->node as
\* it is now.
Respond ==
    /\ disp.pc = "emit"
    /\ \E rc \in Rcodes :
          SendResponse(node, disp.event.handle, rc, Data(resp_length, frame))
    /\ disp' = Idle
    /\ UNCHANGED <<object, error, alive, reserves, abi, device, ranges, queue>>

-----------------------------------------------------------------------------
Application ==
    \/ \E n \in Nodes : ReserveFails(n) \/ \E h \in Handles, w \in Widths : Reserve(n, h, w)
    \/ Release \/ Finalize
    \/ \E l \in Lengths : SetRespFrame(l)

Dispatch == \E n \in Nodes : HandleRequest(n) \/ HandleRequest2(n) \/ HandleRequest3(n)

Next ==
    \/ Application \/ Dispatch \/ Respond
    \/ \E n \in Nodes : Open(n) \/ Unplug(n) \/ Arrive(n)

Spec == Init /\ [][Next]_vars

\* The dispatcher runs, for each node, and handlers of "requested" return; the
\* application need not do anything, and no request need arrive.
FairSpec ==
    /\ Spec
    /\ \A n \in Nodes : WF_vars(HandleRequest(n) \/ HandleRequest2(n) \/ HandleRequest3(n))
    /\ WF_vars(Respond)
-----------------------------------------------------------------------------
ObjectTypeOK ==
    /\ node \in Nodes \cup {NoNode}
    /\ width \in Widths \cup {0}
    /\ frame \in [size: Widths \cup {0}, of: Ids \cup {0}]
    /\ resp_length \in Lengths
    /\ addr_handle \in Handles \cup {0}
    /\ error \in {"none", "RESERVED", "NOT_OPENED", "DISCONNECTED", "ADDR_SPACE_USED", "FAILED"}
    /\ alive \in BOOLEAN

Events == [id: Ids, handle: Handles, length: Lengths, version: 1..3]

KernelTypeOK ==
    /\ abi \in Abis
    /\ device \in [Nodes -> {"closed", "open", "gone"}]
    /\ ranges \in [Nodes -> SUBSET [handle: Handles, width: Widths]]
    /\ pending \in [Nodes -> SUBSET [id: Ids, handle: Handles]]
    /\ queue \in [Nodes -> Seq(Events)]
    /\ answers \in [Ids -> [rcode: AllRcodes \cup {"none"},
                            data: [of: Ids \cup {0}, length: Lengths]]]

\* Every variable has its type.
TypeOK ==
    /\ ObjectTypeOK /\ KernelTypeOK
    /\ reserves \in 0..MaxReserves
    /\ disp \in [pc: {"idle", "emit"}, node: Nodes \cup {NoNode}, event: Events \cup {NoEvent}]

\* The frame is written and read by lengths kept beside it (fw_resp.c:372, 388,
\* 400), in an emission during which it may have been freed and allocated anew,
\* shorter: no length ever exceeds what is allocated.
FrameFits ==
    /\ width <= frame.size
    /\ resp_length <= width

\* The response frame is one buffer for all requests: a response carries the
\* data that the handler set for the request it answers, or none; never those of
\* an earlier request, nor any that were set between requests, nor data with a
\* refusal (fw_resp.c:389).
AnswersOwnData ==
    \A i \in Ids :
        /\ answers[i].data # NoData => answers[i].data.of = i
        /\ answers[i].rcode = "CONFLICT_ERROR" => answers[i].data = NoData

\* The kernel holds exactly the range the object knows of, whatever the order of
\* reservations and releases, in handlers too: none is lost (it would be
\* allocated until the descriptor is closed) and none is taken for another
\* (fw_resp.c:249, 331).
RangeIsKnown ==
    \A n \in Nodes :
        device[n] = "open" =>
            ranges[n] = IF IsReserved /\ node = n
                        THEN {[handle |-> addr_handle, width |-> width]} ELSE {}

\* The event of request i of node n is not read, or its emission is in progress.
Underway(n, i) ==
    \/ \E k \in 1..Len(queue[n]) : queue[n][k].id = i
    \/ disp.pc = "emit" /\ disp.node = n /\ disp.event.id = i

\* "Userspace is responsible for sending the response" (firewire-cdev.h:240): a
\* request under way is answered, one that no longer fits too (fw_resp.c:391),
\* unless the range is released (fw_resp.c:407 then has no node to send through)
\* or the node removed meanwhile.
EventuallyAnswered ==
    \A n \in Nodes, i \in Ids :
        Underway(n, i) ~> (answers[i] # NoAnswer \/ ~IsReserved \/ device[n] = "gone")
=============================================================================
