--------------------------- MODULE FcpHistoryProofs ---------------------------
(***************************************************************************)
(* Theorems about FcpHistory for any set of nodes and of node IDs, any     *)
(* size of the ring and any number of bus resets and of queued events.     *)
(***************************************************************************)
EXTENDS FcpHistory, TLAPS

\* Node n had the ID of record r in the generation of r, which has begun.
TrueOf(n, r) == r.generation \in 1..Generation /\ ids[r.generation][n] = r.id

\* The bus has a generation, and nobody knows of a later one.
BusInv ==
    /\ Generation \in 1..MaxGeneration
    /\ \A n \in Nodes : known[n] <= Generation
    /\ \A n \in Nodes : TrueOf(n, info[n])

\* A bound object knows its card, and has a slot to write to; all its records are
\* true of its target.
BoundInv ==
    node # "none" =>
        /\ card = "own"
        /\ cursor \in Slots
        /\ \A i \in Slots : history[i] # Zero => TrueOf(node, history[i])

\* No record is in two slots.
RingInv == \A i, j \in Slots : (i # j /\ history[i] # Zero) => history[i] # history[j]

HistoryInv == TypeOK /\ BusInv /\ BoundInv /\ RingInv /\ EmittedFromTarget

-----------------------------------------------------------------------------
USE NodesAssumption, IdsAssumption, RecordsAssumption, BoundsAssumption

Events == [type: {"reset"}] \cup Requests

LEMMA HistoryInit == Init => HistoryInv
  <1> SUFFICES ASSUME Init PROVE HistoryInv
    OBVIOUS
  <1>1. PICK f \in Numberings : ids = <<f>>
    BY DEF Init
  <1>2. f \in [Nodes -> Ids] /\ ids[1] = f /\ Len(ids) = 1 /\ ids \in Seq(Numberings)
    BY <1>1 DEF Numberings
  <1>3. info \in [Nodes -> Record]
    BY <1>2 DEF Init, Record
  <1>4. TypeOK
    BY <1>2, <1>3 DEF Init, TypeOK, Slots
  <1>5. BusInv
    BY <1>2 DEF Init, BusInv, TrueOf, Generation
  <1>6. BoundInv /\ RingInv /\ EmittedFromTarget
    BY DEF Init, BoundInv, RingInv, EmittedFromTarget
  <1> QED BY <1>4, <1>5, <1>6 DEF HistoryInv

\* A record that is inserted is new to the ring, and replaces one other.
LEMMA InsertStep ==
    ASSUME NEW h \in [Slots -> Record \cup {Zero}], NEW c \in Slots, NEW r \in Record,
           \A i, j \in Slots : (i # j /\ h[i] # Zero) => h[i] # h[j]
    PROVE  LET new == InsertRecord(h, c, r)
           IN  /\ new.records \in [Slots -> Record \cup {Zero}]
               /\ new.cursor \in Slots
               /\ \A i \in Slots : new.records[i] \in {h[i], r}
               /\ \A i, j \in Slots : (i # j /\ new.records[i] # Zero) =>
                                          new.records[i] # new.records[j]
  <1>1. CASE Found(h, r)
    BY <1>1 DEF InsertRecord
  <1>2. CASE ~Found(h, r)
    <2> DEFINE k == [h EXCEPT ![c] = r]
    <2>1. InsertRecord(h, c, r) = [records |-> k, cursor |-> NextSlot(c)]
      BY <1>2 DEF InsertRecord
    <2>2. NextSlot(c) \in Slots
      BY DEF NextSlot, Slots
    <2>3. \A i \in Slots : h[i] # r
      BY <1>2 DEF Found
    <2>4. /\ k \in [Slots -> Record \cup {Zero}] /\ k[c] = r
          /\ \A i \in Slots \ {c} : k[i] = h[i]
      OBVIOUS
    <2> HIDE DEF k
    <2>5. \A i, j \in Slots : (i # j /\ k[i] # Zero) => k[i] # k[j]
      BY <2>3, <2>4
    <2>6. \A i \in Slots : k[i] \in {h[i], r}
      BY <2>4
    <2> QED BY <2>1, <2>2, <2>4, <2>5, <2>6
  <1> QED BY <1>1, <1>2

\* What the head of the queue is.
LEMMA DispatchStep ==
    ASSUME TypeOK, NEW n \in Nodes, NEW type, Dispatches(n, type)
    PROVE  /\ queue' \in [Nodes -> Seq(Events)]
           /\ type = "fcp" => Request(n) \in Requests /\ Response(n) \in Record
  <1>1. queue[n] \in Seq(Events) /\ queue[n] # <<>> /\ queue' = [queue EXCEPT ![n] = Tail(@)]
    BY DEF TypeOK, Dispatches, Events
  <1>2. Head(queue[n]) \in Events /\ Tail(queue[n]) \in Seq(Events)
    BY <1>1
  <1>3. queue' \in [Nodes -> Seq(Events)]
    BY <1>1, <1>2 DEF TypeOK, Events
  <1>4. type = "fcp" => Head(queue[n]) \in Requests
    BY <1>2 DEF Dispatches, Events
  <1> QED BY <1>3, <1>4 DEF Request, Response, Requests

\* Binding clears the ring, makes the node the target and records its current ID.
LEMMA BindNext ==
    ASSUME HistoryInv, NEW n \in Nodes, Bind(n)
    PROVE  HistoryInv'
  <1> USE DEF HistoryInv
  <1> DEFINE h == InsertRecord(ResetHistory, 1, info[n])
  <1>1. UNCHANGED <<ids, known, queue, info>>
    BY DEF Bind, bus
  <1>2. node' = n /\ card' = "own" /\ emitted' = <<>> /\ history' = h.records /\ cursor' = h.cursor
    BY DEF Bind
  <1>3. info[n] \in Record /\ TrueOf(n, info[n])
    BY DEF TypeOK, BusInv
  <1>4. ResetHistory \in [Slots -> Record \cup {Zero}] /\ 1 \in Slots
        /\ \A i \in Slots : ResetHistory[i] = Zero
    BY DEF ResetHistory, Slots
  <1>5. /\ h.records \in [Slots -> Record \cup {Zero}] /\ h.cursor \in Slots
        /\ \A i \in Slots : h.records[i] \in {Zero, info[n]}
        /\ \A i, j \in Slots : (i # j /\ h.records[i] # Zero) => h.records[i] # h.records[j]
    BY <1>3, <1>4, InsertStep
  <1> HIDE DEF h
  <1>6. TypeOK'
    BY <1>1, <1>2, <1>5 DEF TypeOK
  <1>7. BusInv'
    BY <1>1 DEF BusInv, TrueOf, Generation
  <1>8. BoundInv'
    BY <1>1, <1>2, <1>3, <1>5 DEF BoundInv, TrueOf, Generation
  <1>9. RingInv' /\ EmittedFromTarget'
    BY <1>2, <1>5 DEF RingInv, EmittedFromTarget
  <1> QED BY <1>6, <1>7, <1>8, <1>9

\* A request is emitted only when its record is true of the target.
LEMMA HandledNext ==
    ASSUME HistoryInv, NEW n \in Nodes, Handled(n)
    PROVE  HistoryInv'
  <1> USE DEF HistoryInv
  <1>1. Dispatches(n, "fcp") /\ UNCHANGED <<ids, known, info, node, card>>
    BY DEF Handled, Ignore, Recognise, CompareCurrent, fcp
  <1>2. queue' \in [Nodes -> Seq(Events)] /\ Request(n) \in Requests /\ Response(n) \in Record
    BY <1>1, DispatchStep
  <1>3. BusInv'
    BY <1>1 DEF BusInv, TrueOf, Generation
  <1>4. ASSUME /\ history' \in [Slots -> Record \cup {Zero}] /\ cursor' \in Slots \cup {0}
               /\ emitted' \in {<<>>, Request(n)}
        PROVE  TypeOK'
    BY <1>1, <1>2, <1>4 DEF TypeOK, Events
  <1>5. ASSUME emitted' = Request(n), OfCard(n), FromTarget(Response(n)) PROVE EmittedFromTarget'
    <2>1. Request(n).card = "own" /\ node \in Nodes
      BY <1>5 DEF OfCard, BoundInv, TypeOK
    <2> QED BY <1>1, <1>5, <2>1 DEF EmittedFromTarget, FromTarget, Response
  <1>6. ASSUME emitted' = <<>> PROVE EmittedFromTarget'
    BY <1>6 DEF EmittedFromTarget
  <1>7. CASE Ignore(n)
    <2>1. UNCHANGED <<history, cursor>> /\ emitted' = <<>>
      BY <1>7 DEF Ignore, fcp
    <2>2. BoundInv' /\ RingInv'
      BY <1>1, <2>1 DEF BoundInv, RingInv, TrueOf, Generation
    <2>3. TypeOK'
      BY <1>4, <2>1 DEF TypeOK
    <2> QED BY <1>3, <1>6, <2>1, <2>2, <2>3
  <1>8. CASE Recognise(n)
    <2>1. UNCHANGED <<history, cursor>> /\ emitted' = Request(n) /\ OfCard(n)
      BY <1>8 DEF Recognise, fcp
    <2>2. PICK i \in Slots : history[i] = Response(n)
      BY <1>8 DEF Recognise, Found
    <2>3. history[i] # Zero
      BY <1>2, <2>2 DEF Record, Zero
    <2>4. FromTarget(Response(n))
      BY <2>1, <2>2, <2>3 DEF OfCard, BoundInv, TrueOf, FromTarget
    <2>5. BoundInv' /\ RingInv'
      BY <1>1, <2>1 DEF BoundInv, RingInv, TrueOf, Generation
    <2>6. TypeOK'
      BY <1>4, <2>1 DEF TypeOK
    <2> QED BY <1>3, <1>5, <2>1, <2>4, <2>5, <2>6
  <1>9. CASE CompareCurrent(n)
    <2> DEFINE current == info[node]
               h == InsertRecord(history, cursor, current)
    <2>1. OfCard(n) /\ node \in Nodes /\ cursor \in Slots
      BY <1>9 DEF CompareCurrent, OfCard, BoundInv, TypeOK
    <2>2. current \in Record /\ TrueOf(node, current)
      BY <2>1 DEF TypeOK, BusInv
    <2>3. history \in [Slots -> Record \cup {Zero}]
      BY DEF TypeOK
    <2>4. /\ h.records \in [Slots -> Record \cup {Zero}] /\ h.cursor \in Slots
          /\ \A i \in Slots : h.records[i] \in {history[i], current}
          /\ \A i, j \in Slots : (i # j /\ h.records[i] # Zero) => h.records[i] # h.records[j]
      BY <2>1, <2>2, <2>3, InsertStep DEF RingInv
    <2>5. /\ \/ UNCHANGED <<history, cursor>>
             \/ history' = h.records /\ cursor' = h.cursor
          /\ \/ emitted' = <<>>
             \/ emitted' = Request(n) /\ Response(n) = current
      BY <1>9 DEF CompareCurrent
    <2>6. Response(n) = current => FromTarget(Response(n))
      BY <2>2 DEF TrueOf, FromTarget
    <2> HIDE DEF current, h
    <2>7. TypeOK'
      BY <1>4, <2>1, <2>3, <2>4, <2>5
    <2>8. EmittedFromTarget'
      BY <1>5, <1>6, <2>1, <2>5, <2>6
    <2>9. RingInv'
      BY <2>4, <2>5 DEF RingInv
    <2>10. cursor' \in Slots /\ card' = "own"
      BY <1>1, <2>1, <2>4, <2>5 DEF BoundInv
    <2>11. \A i \in Slots : history'[i] # Zero => TrueOf(node, history'[i])
      BY <2>1, <2>2, <2>4, <2>5 DEF BoundInv
    <2>12. BoundInv'
      BY <1>1, <2>10, <2>11 DEF BoundInv, TrueOf, Generation
    <2> QED BY <1>3, <2>7, <2>8, <2>9, <2>12
  <1> QED BY <1>7, <1>8, <1>9 DEF Handled

\* The bus and the kernel: what was true of a generation stays so.
LEMMA BusNext ==
    ASSUME HistoryInv, BusReset
    PROVE  HistoryInv'
  <1> USE DEF HistoryInv, Generation
  <1>1. PICK f \in Numberings : ids' = Append(ids, f)
    BY DEF BusReset
  <1>2. UNCHANGED <<known, queue, info, node, card, history, cursor>> /\ emitted' = <<>>
        /\ Len(ids) < MaxGeneration
    BY DEF BusReset, fcp
  <1>3. ids' \in Seq(Numberings) /\ Len(ids') = Len(ids) + 1 /\ Len(ids) \in Nat
    BY <1>1 DEF TypeOK
  <1>4. \A g \in 1..Len(ids) : ids'[g] = ids[g] /\ g \in 1..Len(ids')
    BY <1>1, <1>3 DEF TypeOK
  <1>5. \A m \in Nodes \cup {"none"} : \A r : TrueOf(m, r) => TrueOf(m, r)'
    BY <1>4 DEF TrueOf
  <1>6. TypeOK'
    BY <1>2, <1>3 DEF TypeOK
  <1>7. BusInv'
    <2>1. Len(ids') \in 1..MaxGeneration
      BY <1>2, <1>3
    <2>2. \A n \in Nodes : known'[n] <= Len(ids')
      BY <1>2, <1>3 DEF BusInv, TypeOK
    <2>3. \A n \in Nodes : TrueOf(n, info[n])'
      <3> TAKE n \in Nodes
      <3>1. TrueOf(n, info[n]) /\ info'[n] = info[n]
        BY <1>2 DEF BusInv
      <3>2. TrueOf(n, info[n]) => TrueOf(n, info[n])'
        BY <1>2, <1>4 DEF TrueOf
      <3> QED BY <3>1, <3>2
    <2> QED BY <2>1, <2>2, <2>3 DEF BusInv
  <1>8. BoundInv'
    <2>1. node \in Nodes \cup {"none"}
      BY DEF TypeOK
    <2> QED BY <1>2, <1>5, <2>1 DEF BoundInv
  <1>9. RingInv' /\ EmittedFromTarget'
    BY <1>2 DEF RingInv, EmittedFromTarget
  <1> QED BY <1>6, <1>7, <1>8, <1>9

LEMMA HistoryNext == HistoryInv /\ [Next]_vars => HistoryInv'
  <1> SUFFICES ASSUME HistoryInv, [Next]_vars PROVE HistoryInv'
    OBVIOUS
  <1> USE DEF HistoryInv
  <1>1. ASSUME UNCHANGED <<ids, node, card, history, cursor>>, emitted' = <<>>,
               queue' \in [Nodes -> Seq(Events)], known' \in [Nodes -> 1..MaxGeneration],
               info' \in [Nodes -> Record], BusInv'
        PROVE  HistoryInv'
    <2>1. TypeOK'
      BY <1>1 DEF TypeOK, Events
    <2>2. BoundInv' /\ RingInv' /\ EmittedFromTarget'
      BY <1>1 DEF BoundInv, RingInv, EmittedFromTarget, TrueOf, Generation
    <2> QED BY <1>1, <2>1, <2>2
  <1>2. queue \in [Nodes -> Seq(Events)] /\ known \in [Nodes -> 1..MaxGeneration]
        /\ info \in [Nodes -> Record]
    BY DEF TypeOK, Events
  <1>3. ASSUME NEW n \in Nodes, HandleUpdate(n) PROVE HistoryInv'
    <2>1. /\ Dispatches(n, "reset") /\ UNCHANGED <<ids, known, node, card, history, cursor>>
          /\ emitted' = <<>> /\ info' = [info EXCEPT ![n] = UpdateInfo(n)]
      BY <1>3 DEF HandleUpdate, fcp
    <2>2. queue' \in [Nodes -> Seq(Events)]
      BY <2>1, DispatchStep
    <2>3. known[n] \in 1..Len(ids) /\ ids[known[n]] \in Numberings
      BY <1>2 DEF BusInv, Generation, TypeOK
    <2>4. UpdateInfo(n) \in Record /\ TrueOf(n, UpdateInfo(n))
      BY <1>2, <2>3 DEF UpdateInfo, Record, TrueOf, Generation, Numberings
    <2>5. info' \in [Nodes -> Record]
      BY <1>2, <2>1, <2>4
    <2>6. BusInv'
      BY <1>2, <2>1, <2>4 DEF BusInv, TrueOf, Generation
    <2> QED BY <1>1, <1>2, <2>1, <2>2, <2>5, <2>6
  <1>4. ASSUME NEW n \in Nodes, NotifyReset(n) PROVE HistoryInv'
    <2>1. /\ UNCHANGED <<ids, info, node, card, history, cursor>> /\ emitted' = <<>>
          /\ known' = [known EXCEPT ![n] = Generation]
          /\ queue' = [queue EXCEPT ![n] = Append(@, [type |-> "reset"])]
      BY <1>4 DEF NotifyReset, fcp
    <2>2. Generation \in 1..MaxGeneration
      BY DEF BusInv
    <2>3. known' \in [Nodes -> 1..MaxGeneration]
      BY <1>2, <2>1, <2>2
    <2>4. [type |-> "reset"] \in Events
      BY DEF Events
    <2>5. queue' \in [Nodes -> Seq(Events)]
      BY <1>2, <2>1, <2>4
    <2>6. BusInv'
      BY <1>2, <2>1, <2>2 DEF BusInv, TrueOf, Generation
    <2> QED BY <1>1, <1>2, <2>1, <2>3, <2>5, <2>6
  <1>5. ASSUME NEW m \in Nodes, Transfer(m) \/ OtherTransfer(m) PROVE HistoryInv'
    <2>1. PICK c \in {"own", "other"} : Arrives(c, Here(m))
      BY <1>5 DEF Transfer, OtherTransfer
    <2>2. /\ UNCHANGED <<ids, known, info, node, card, history, cursor>> /\ emitted' = <<>>
          /\ queue' = [queue EXCEPT ![node] =
                          Append(@, [type |-> "fcp", card |-> c, record |-> Here(m)])]
          /\ node \in Nodes
      BY <2>1 DEF Arrives, fcp, TypeOK
    <2>3. Generation \in 1..MaxGeneration /\ ids[Generation] \in Numberings
      BY DEF BusInv, Generation, TypeOK
    <2>4. Here(m) \in Record
      BY <2>3 DEF Here, Record, Numberings
    <2>5. [type |-> "fcp", card |-> c, record |-> Here(m)] \in Events
      BY <2>4 DEF Events, Requests
    <2>6. queue' \in [Nodes -> Seq(Events)]
      BY <1>2, <2>2, <2>5
    <2>7. BusInv'
      BY <2>2 DEF BusInv, TrueOf, Generation
    <2> QED BY <1>1, <1>2, <2>2, <2>6, <2>7
  <1>6. CASE Unbind
    <2>1. UNCHANGED <<ids, known, queue, info, card, history, cursor>> /\ emitted' = <<>>
          /\ node' = "none"
      BY <1>6 DEF Unbind, bus
    <2> QED BY <2>1 DEF TypeOK, BusInv, BoundInv, RingInv, EmittedFromTarget, TrueOf, Generation
  <1>7. CASE UNCHANGED vars
    <2>1. UNCHANGED <<ids, known, queue, info, node, card, history, cursor, emitted>>
      BY <1>7 DEF vars, bus, fcp
    <2> QED BY <2>1 DEF TypeOK, BusInv, BoundInv, RingInv, EmittedFromTarget, TrueOf, Generation,
                        FromTarget
  <1> QED BY <1>3, <1>4, <1>5, <1>6, <1>7, BindNext, HandledNext, BusNext DEF Next, Handled

LEMMA HistoryInvariant == Spec => []HistoryInv
  BY HistoryInit, HistoryNext, PTL DEF Spec

-----------------------------------------------------------------------------
\* Every variable keeps its type; the cursor stays inside the ring, whatever its
\* size (fw_fcp.c:578).
THEOREM TypeCorrect == Spec => []TypeOK
  <1>1. HistoryInv => TypeOK
    BY DEF HistoryInv
  <1> QED BY <1>1, HistoryInvariant, PTL

\* "responded" is emitted for responses of the target only (fw_fcp.c:625), for any
\* number of renumberings, rebindings and events between the moment a response
\* is sent and the one it is handled at.
THEOREM EmissionSafe == Spec => []EmittedFromTarget
  <1>1. HistoryInv => EmittedFromTarget
    BY DEF HistoryInv
  <1> QED BY <1>1, HistoryInvariant, PTL

\* No record is in the ring twice, and all are true of the target (fw_fcp.c:578).
THEOREM RingSafe == Spec => []RingInOrder
  <1>1. HistoryInv => RingInOrder
    BY DEF HistoryInv, RingInv, BoundInv, RingInOrder, TrueOf, FromTarget
  <1> QED BY <1>1, HistoryInvariant, PTL

\* A response of the target in the generation its HinawaFwNode is at is taken,
\* although the ring may have no record of it (fw_fcp.c:614-621).
THEOREM CurrentResponseSafe == Spec => CurrentResponseTaken
  <1> DEFINE Taken == \A n \in Nodes :
          (/\ Handled(n)
           /\ node # "none" /\ Request(n).card = "own" /\ FromTarget(Response(n))
           /\ Response(n).generation = info[node].generation)
          => emitted' = Request(n)
  <1>1. HistoryInv /\ [Next]_vars => [Taken]_vars
    <2> SUFFICES ASSUME HistoryInv, NEW n \in Nodes, Handled(n), node # "none",
                        Request(n).card = "own", FromTarget(Response(n)),
                        Response(n).generation = info[node].generation
                 PROVE  emitted' = Request(n)
      OBVIOUS
    <2> USE DEF HistoryInv
    <2>1. Dispatches(n, "fcp")
      BY DEF Handled, Ignore, Recognise, CompareCurrent
    <2>2. Response(n) \in Record /\ info[node] \in Record /\ TrueOf(node, info[node])
      BY <2>1, DispatchStep DEF TypeOK, BusInv
    <2>3. Response(n) = info[node]
      BY <2>2 DEF FromTarget, TrueOf, Record
    <2>4. OfCard(n)
      BY DEF OfCard, BoundInv
    <2> QED BY <2>3, <2>4 DEF Handled, Ignore, Recognise, CompareCurrent
  <1> QED BY <1>1, HistoryInvariant, PTL DEF Spec, CurrentResponseTaken
=============================================================================
