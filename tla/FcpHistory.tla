----------------------------- MODULE FcpHistory -----------------------------
(***************************************************************************)
(* Which FCP responses HinawaFwFcp (fw_fcp.c) takes for responses of its   *)
(* target.  The address of the FCP response register is shared by all the  *)
(* nodes of the bus, and a request that arrives there names its source by  *)
(* a node ID, which is only good for one generation of the bus.  The       *)
(* object keeps a ring of the pairs (generation, node ID) its target is    *)
(* known to have had, and reads the properties of its HinawaFwNode for one *)
(* more.  Requests of the buses of other cards arrive as well.             *)
(*                                                                         *)
(* Processes: the event dispatcher of the HinawaFwNodes, in whose thread   *)
(* the application also binds and unbinds; the bus and the kernel          *)
(* (external), where a bus reset renumbers the nodes at once and is        *)
(* notified to each HinawaFwNode some time later.                          *)
(***************************************************************************)
EXTENDS Naturals, Sequences

CONSTANTS
    Nodes,          \* the nodes of the bus, each with its HinawaFwNode
    Ids,            \* node IDs
    Records,        \* NODE_HISTORY_RECORD_COUNT
    MaxGeneration,  \* bound: generations of the bus
    MaxQueue        \* bound: unread events of a HinawaFwNode

ASSUME NodesAssumption == "none" \notin Nodes
ASSUME IdsAssumption == Ids \subseteq Nat \ {0}
ASSUME RecordsAssumption == Records \in Nat \ {0}
ASSUME BoundsAssumption == MaxGeneration \in Nat \ {0} /\ MaxQueue \in Nat

VARIABLES
    ids,            \* ids[g][n]: the ID of node n in generation g (external)
    known,          \* known[n]: the generation the kernel has notified (external)
    queue,          \* queue[n]: events not read from the descriptor of n (external)
    info,           \* info[n]: generation and node ID in the HinawaFwNode of n
    node,           \* priv->node of HinawaFwFcp, and of it as a HinawaFwResp
    card,           \* priv->card_id of HinawaFwFcp: "unset", or the "own" card
    history,        \* priv->history.records
    cursor,         \* priv->history.cursor: a slot, or 0 for NULL
    emitted         \* the request "responded" was just emitted for, or <<>>

bus == <<ids, known, queue>>
fcp == <<node, card, history, cursor>>
vars == <<bus, info, fcp, emitted>>

Record == [generation: 1..MaxGeneration, id: Ids]
Zero == [generation |-> 0, id |-> 0]    \* a record that is cleared
Requests == [type: {"fcp"}, card: {"own", "other"}, record: Record]
Slots == 1..Records
Numberings == {f \in [Nodes -> Ids] : \A m, n \in Nodes : m # n => f[m] # f[n]}

\* The nodes are opened, the HinawaFwFcp is new: its cursor is NULL until the
\* first bind.
Init ==
    /\ ids \in {<<f>> : f \in Numberings}
    /\ known = [n \in Nodes |-> 1]
    /\ queue = [n \in Nodes |-> <<>>]
    /\ info = [n \in Nodes |-> [generation |-> 1, id |-> ids[1][n]]]
    /\ node = "none"
    /\ card = "unset"
    /\ history = [i \in Slots |-> Zero]
    /\ cursor = 0
    /\ emitted = <<>>

-----------------------------------------------------------------------------
\* node_history_find_record(): memcmp() of generation and node ID, over all slots.
Found(h, r) == \E i \in Slots : h[i] = r

\* Mutant: the cursor goes one slot past the ring.
NextSlotPast(c) == IF c > Records THEN 1 ELSE c + 1

NextSlot(c) == IF c + 1 > Records THEN 1 ELSE c + 1

\* Mutant: a record is inserted again.
InsertRecordAgain(h, c, r) ==
    [records |-> [h EXCEPT ![c] = r], cursor |-> NextSlot(c)]

\* node_history_insert_record().
InsertRecord(h, c, r) ==
    IF Found(h, r) THEN [records |-> h, cursor |-> c]
    ELSE [records |-> [h EXCEPT ![c] = r], cursor |-> NextSlot(c)]

\* node_history_reset().
ResetHistory == [i \in Slots |-> Zero]

-----------------------------------------------------------------------------
\* hinawa_fw_fcp_bind(): the range is reserved, from when on the kernel queues
\* requests for it, the properties of the node are read, and the ring is reset to
\* the one record.
Bind(n) ==
    /\ node = "none"
    /\ node' = n
    /\ card' = "own"
    /\ LET h == InsertRecord(ResetHistory, 1, info[n])
       IN  history' = h.records /\ cursor' = h.cursor
    /\ emitted' = <<>>
    /\ UNCHANGED <<bus, info>>

\* hinawa_fw_fcp_unbind(): the range is released and the node forgotten; the card
\* and the records stay, and so do the events already queued.
Unbind ==
    /\ node # "none"
    /\ node' = "none"
    /\ emitted' = <<>>
    /\ UNCHANGED <<bus, info, card, history, cursor>>

-----------------------------------------------------------------------------
\* The dispatcher: dispatch_src() with an event of node n.

Dispatches(n, type) ==
    /\ queue[n] # <<>> /\ Head(queue[n]).type = type
    /\ queue' = [queue EXCEPT ![n] = Tail(@)]

\* update_info(): what FW_CDEV_IOC_GET_INFO reads now.
UpdateInfo(n) == [generation |-> known[n], id |-> ids[known[n]][n]]

\* handle_update(): the node is brought to what the kernel knows, which may be
\* more than the event said.
HandleUpdate(n) ==
    /\ Dispatches(n, "reset")
    /\ info' = [info EXCEPT ![n] = UpdateInfo(n)]
    /\ emitted' = <<>>
    /\ UNCHANGED <<ids, known, fcp>>

Request(n) == Head(queue[n])
Response(n) == Request(n).record

\* Mutant: the card of the request is not compared.
OfCardAny(n) == node # "none"

\* handle_requested_signal() runs, for hinawa_fw_resp_handle_request3() finds a
\* reservation, and the request is of the card of the node.
OfCard(n) == node # "none" /\ Request(n).card = card

\* Otherwise the request has no effect.
Ignore(n) ==
    /\ Dispatches(n, "fcp")
    /\ ~OfCard(n)
    /\ emitted' = <<>>
    /\ UNCHANGED <<ids, known, info, fcp>>

\* handle_requested_signal() with a record in the ring emits "responded".
Recognise(n) ==
    /\ Dispatches(n, "fcp")
    /\ OfCard(n)
    /\ Found(history, Response(n))
    /\ emitted' = Request(n)
    /\ UNCHANGED <<ids, known, info, fcp>>

\* Mutant: "responded" is emitted only for what the ring holds.
CompareCurrentNever(n) ==
    /\ Dispatches(n, "fcp")
    /\ OfCard(n)
    /\ ~Found(history, Response(n))
    /\ emitted' = <<>>
    /\ UNCHANGED <<ids, known, info, fcp>>

\* handle_requested_signal() with another record reads the current one, keeps it
\* if it is of another generation, and emits "responded" if it is the same.
CompareCurrent(n) ==
    /\ Dispatches(n, "fcp")
    /\ OfCard(n)
    /\ ~Found(history, Response(n))
    /\ LET current == info[node]
           h == InsertRecord(history, cursor, current)
       IN  /\ emitted' = IF Response(n) = current THEN Request(n) ELSE <<>>
           /\ IF Response(n).generation = current.generation
              THEN UNCHANGED <<history, cursor>>
              ELSE history' = h.records /\ cursor' = h.cursor
    /\ UNCHANGED <<ids, known, info, node, card>>

-----------------------------------------------------------------------------
\* External: the bus and the kernel.

Generation == Len(ids)

BusReset ==
    /\ Generation < MaxGeneration
    /\ \E f \in Numberings : ids' = Append(ids, f)
    /\ emitted' = <<>>
    /\ UNCHANGED <<known, queue, info, fcp>>

\* The kernel has seen which node is which, and queues the event of the reset.
NotifyReset(n) ==
    /\ known[n] < Generation
    /\ Len(queue[n]) < MaxQueue
    /\ known' = [known EXCEPT ![n] = Generation]
    /\ queue' = [queue EXCEPT ![n] = Append(@, [type |-> "reset"])]
    /\ emitted' = <<>>
    /\ UNCHANGED <<ids, info, fcp>>

Arrives(c, r) ==
    /\ node # "none"
    /\ Len(queue[node]) < MaxQueue
    /\ queue' = [queue EXCEPT ![node] = Append(@, [type |-> "fcp", card |-> c, record |-> r])]
    /\ emitted' = <<>>
    /\ UNCHANGED <<ids, known, info, fcp>>

\* Node m writes to the response register; or a node of the bus of another card
\* that has the same ID there, in a generation of the same number.
Here(m) == [generation |-> Generation, id |-> ids[Generation][m]]
Transfer(m) == Arrives("own", Here(m))
OtherTransfer(m) == Arrives("other", Here(m))

-----------------------------------------------------------------------------
Next ==
    \/ \E n \in Nodes : \/ Bind(n)
                        \/ HandleUpdate(n) \/ Ignore(n) \/ Recognise(n) \/ CompareCurrent(n)
                        \/ NotifyReset(n) \/ Transfer(n) \/ OtherTransfer(n)
    \/ Unbind \/ BusReset

Spec == Init /\ [][Next]_vars

-----------------------------------------------------------------------------
\* Every variable has its type; in particular the cursor stays inside the ring.
TypeOK ==
    /\ ids \in Seq(Numberings)
    /\ known \in [Nodes -> 1..MaxGeneration]
    /\ queue \in [Nodes -> Seq([type: {"reset"}] \cup Requests)]
    /\ info \in [Nodes -> Record]
    /\ node \in Nodes \cup {"none"}
    /\ card \in {"unset", "own"}
    /\ history \in [Slots -> Record \cup {Zero}]
    /\ cursor \in Slots \cup {0}
    /\ emitted \in Requests \cup {<<>>}

FromTarget(r) == ids[r.generation][node] = r.id

\* "Emit the event only when the source node is the target node."
\* (fw_fcp.c:625): whatever renumberings and rebindings lie between the moment a
\* response was sent, the one it is read at and the ones the records were made at.
EmittedFromTarget ==
    emitted # <<>> => emitted.card = "own" /\ FromTarget(emitted.record)

Handled(n) == Ignore(n) \/ Recognise(n) \/ CompareCurrent(n)

\* A response of the bound target in the generation its HinawaFwNode is at is
\* taken, whether or not the ring has a record of it (fw_fcp.c:614-621).
CurrentResponseTaken ==
    [][\A n \in Nodes :
          (/\ Handled(n)
           /\ node # "none" /\ Request(n).card = "own" /\ FromTarget(Response(n))
           /\ Response(n).generation = info[node].generation)
          => emitted' = Request(n)]_vars

\* The ring holds no record twice, so that its slots are as many generations
\* (fw_fcp.c:578), and all its records are true of the node it is bound to.
RingInOrder ==
    /\ \A i, j \in Slots : (i # j /\ history[i] # Zero) => history[i] # history[j]
    /\ node # "none" => \A i \in Slots : history[i] # Zero => FromTarget(history[i])
=============================================================================
