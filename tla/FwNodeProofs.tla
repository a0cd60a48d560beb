----------------------------- MODULE FwNodeProofs -----------------------------
(***************************************************************************)
(* Theorems about FwNode for any number of GSources and of reading threads *)
(* and any number of bus resets.                                           *)
(***************************************************************************)
EXTENDS FwNode, TLAPS

\* priv->mutex is held through an update, and by nobody else for longer than a
\* step.
LockInv == \A s \in Sources : mutex = s <=> At(s, "swap")

\* The ROM in the buffer is of the generation of the properties, and so is its
\* length whenever the mutex is free.
RomInv ==
    /\ rom.of = info
    /\ mutex = "nobody" => rom_length = rom.of

\* Nothing is newer than the bus: neither the properties nor an event.
AgeInv ==
    /\ info <= bus
    /\ \A i \in 1..Len(queue) : queue[i] <= bus
    /\ \A s \in Sources : src[s].event <= bus
    /\ \A s \in Sources : (src[s].pc \in {"swap", "emit"} /\ present) => info >= src[s].event

\* The properties and the buffer only get newer, between two reads of one thread
\* too: what thread t reads is in the order in which it reads it, and not newer
\* than what is stored.
InOrder(r) ==
    /\ r.pc = "idle" => r.generation <= r.node_id
    /\ r.pc = "half" => r.generation <= info
    /\ r.pc = "handed" => r.generation <= r.length /\ r.length <= info
    /\ r.pc \in {"read", "checked"} => r.generation <= r.length /\ r.length <= r.image.of
    /\ r.pc = "read" => r.image.of <= info
    /\ r.pc = "checked" => r.image.of <= r.again

ReaderInv == \A t \in Threads : InOrder(reader[t])

NodeInv == TypeOK /\ LockInv /\ RomInv /\ AgeInv /\ ReaderInv

-----------------------------------------------------------------------------
USE ActorsAssumption, MaxGenerationAssumption

LEMMA NodeInit == Init => NodeInv
  <1> SUFFICES ASSUME Init PROVE NodeInv
    OBVIOUS
  <1>1. 0 \in Generations /\ 1 \in Generations /\ 1 \in 1..MaxGeneration
    BY DEF Generations
  <1>2. FlagTypeOK
    BY DEF Init, FlagTypeOK
  <1>3. CacheTypeOK
    BY <1>1 DEF Init, CacheTypeOK, Images, Orders
  <1>4. ActorTypeOK
    BY <1>1 DEF Init, ActorTypeOK, Readers, NothingRead, Images, Orders, SourcePcs
  <1>5. RomInv /\ ReaderInv
    BY DEF Init, RomInv, ReaderInv, InOrder, NothingRead
  <1>6. LockInv /\ AgeInv
    BY DEF Init, LockInv, AgeInv, At
  <1> QED BY <1>2, <1>3, <1>4, <1>5, <1>6 DEF NodeInv, TypeOK

\* The first property is the generation, the second the node ID (fw_fcp.c:615).
LEMMA ReadStep ==
    ASSUME TypeOK, NEW t \in Threads
    PROVE  /\ GetFirst(t) => reader' = [reader EXCEPT ![t] =
                [pc |-> "half", generation |-> info, node_id |-> 0, length |-> 0,
                 image |-> [of |-> 0, order |-> "big"], again |-> 0]]
           /\ GetSecond(t) => reader' = [reader EXCEPT ![t] =
                [pc |-> "idle", generation |-> reader[t].generation, node_id |-> info,
                 length |-> reader[t].length, image |-> reader[t].image,
                 again |-> reader[t].again]]
  BY DEF TypeOK, ActorTypeOK, Readers, GetFirst, GetSecond, PropertyOrder, NothingRead

\* Threads that read store nothing in the node.
LEMMA ReadOnly ==
    ASSUME NEW t \in Threads, Read(t)
    PROVE  UNCHANGED <<opened, error, mutex, info, rom, rom_length, alive, src, emitted,
                       bus, present, nonblock, queue>>
  BY DEF Read, GetFirst, GetSecond, GetConfigRom, ReadImage, GetAgain, cache, kernel

\* A step of the application or of the kernel outside of the GSources.
Outside ==
    \/ Open \/ OpenFails \/ Finalize \/ BusReset \/ Unplug
    \/ \E t \in Threads : Read(t)

LEMMA FlagNext ==
    ASSUME FlagTypeOK, [Next]_vars
    PROVE  FlagTypeOK'
  <1> USE DEF FlagTypeOK, kernel
  <1>1. CASE Outside
    <2>1. CASE Open \/ OpenFails \/ Finalize \/ BusReset \/ Unplug
      BY <2>1, Zenon DEF Open, OpenFails, Finalize, BusReset, Unplug
    <2>2. CASE \E t \in Threads : Read(t)
      BY <2>2, ReadOnly, Zenon
    <2> QED BY <1>1, <2>1, <2>2 DEF Outside
  <1>2. ASSUME NEW s \in Sources, CreateSource(s) \/ Dispatch(s) PROVE FlagTypeOK'
    BY <1>2, Zenon DEF Dispatch, CreateSource, Poll, PollErr, Disconnected, ReadEvent, ReadAgain,
                       ReadFails, UpdateBegin, UpdateFails, UpdateEnd, BusUpdate
  <1>3. CASE UNCHANGED vars
    BY <1>3, Zenon DEF vars
  <1> QED BY <1>1, <1>2, <1>3 DEF Next, Outside

LEMMA CacheNext ==
    ASSUME CacheTypeOK, [Next]_vars
    PROVE  CacheTypeOK'
  <1> USE DEF CacheTypeOK, cache, kernel
  <1>1. CASE Open
    BY <1>1 DEF Open, Updated, Images, Orders, Generations
  <1>2. CASE OpenFails
    BY <1>2 DEF OpenFails, OpenError
  <1>3. CASE BusReset
    <2>1. bus' \in 1..MaxGeneration /\ bus + 1 \in Generations
      BY <1>3 DEF BusReset, Generations
    <2>2. Append(queue, bus + 1) \in Seq(Generations)
      BY <2>1
    <2>3. queue' \in Seq(Generations)
      BY <1>3, <2>2 DEF BusReset
    <2> QED BY <1>3, <2>1, <2>3 DEF BusReset
  <1>4. CASE Finalize \/ Unplug \/ UNCHANGED vars
    BY <1>4 DEF Finalize, Unplug, vars
  <1>5. ASSUME NEW t \in Threads, Read(t) PROVE CacheTypeOK'
    BY <1>5, ReadOnly
  <1>6. ASSUME NEW s \in Sources, CreateSource(s) \/ Dispatch(s) PROVE CacheTypeOK'
    <2>1. CASE ReadEvent(s)
      BY <2>1 DEF ReadEvent
    <2>2. CASE UpdateBegin(s)
      BY <2>2 DEF UpdateBegin, GetInfo, Images, Orders, Generations
    <2>3. CASE UpdateEnd(s)
      BY <2>3 DEF UpdateEnd, Images, Orders
    <2>4. CASE \/ CreateSource(s) \/ Poll(s) \/ PollErr(s) \/ Disconnected(s) \/ ReadAgain(s)
               \/ ReadFails(s) \/ UpdateFails(s) \/ BusUpdate(s)
      BY <2>4 DEF CreateSource, Poll, PollErr, Disconnected, ReadAgain, ReadFails, UpdateFails,
                  BusUpdate
    <2> QED BY <1>6, <2>1, <2>2, <2>3, <2>4 DEF Dispatch
  <1> QED BY <1>1, <1>2, <1>3, <1>4, <1>5, <1>6 DEF Next

\* A GSource goes from one of its statements to another; only a read() changes
\* its event.
LEMMA SourceStep ==
    ASSUME ActorTypeOK, NEW s \in Sources, CreateSource(s) \/ Dispatch(s)
    PROVE  /\ UNCHANGED reader
           /\ \/ ReadEvent(s)
              \/ \E p \in SourcePcs : src' = [src EXCEPT ![s].pc = p]
           /\ mutex' = mutex \/ UpdateBegin(s) \/ UpdateEnd(s)
  BY DEF Dispatch, CreateSource, Poll, PollErr, Disconnected, ReadEvent, ReadAgain, ReadFails,
         UpdateBegin, UpdateFails, UpdateEnd, BusUpdate, Goto, SourcePcs

\* Only the GSources touch the mutex and their own statements.
LEMMA OutsideStep ==
    ASSUME Outside \/ UNCHANGED vars
    PROVE  /\ UNCHANGED <<mutex, src, emitted>>
           /\ UNCHANGED reader \/ \E t \in Threads : Read(t)
  <1>1. CASE Outside
    BY <1>1, ReadOnly DEF Outside, Open, OpenFails, Finalize, BusReset, Unplug
  <1>2. CASE UNCHANGED vars
    BY <1>2 DEF vars
  <1> QED BY <1>1, <1>2

LEMMA ActorNext ==
    ASSUME TypeOK, [Next]_vars
    PROVE  ActorTypeOK'
  <1> USE DEF TypeOK, ActorTypeOK, CacheTypeOK
  <1>1. ASSUME NEW t \in Threads, Read(t)
        PROVE  reader' \in [Threads -> Readers]
    <2>1. CASE GetFirst(t)
      <3>1. 0 \in Generations /\ [of |-> 0, order |-> "big"] \in Images
        BY DEF Generations, Images, Orders
      <3> QED BY <2>1, <3>1, ReadStep DEF Readers
    <2>2. CASE GetSecond(t)
      BY <2>2, ReadStep DEF Readers
    <2>3. CASE GetConfigRom(t)
      <3>1. [reader[t] EXCEPT !.pc = "handed", !.length = rom_length] \in Readers
        BY DEF Readers
      <3> QED BY <2>3, <3>1 DEF GetConfigRom
    <2>4. CASE ReadImage(t)
      <3>1. [reader[t] EXCEPT !.pc = "read", !.image = rom] \in Readers
        BY DEF Readers
      <3> QED BY <2>4, <3>1 DEF ReadImage
    <2>5. CASE GetAgain(t)
      <3>1. [reader[t] EXCEPT !.pc = "checked", !.again = info] \in Readers
        BY DEF Readers
      <3> QED BY <2>5, <3>1 DEF GetAgain
    <2> QED BY <1>1, <2>1, <2>2, <2>3, <2>4, <2>5 DEF Read
  <1>2. CASE Outside \/ UNCHANGED vars
    BY <1>1, <1>2, OutsideStep
  <1>3. ASSUME NEW s \in Sources, CreateSource(s) \/ Dispatch(s) PROVE ActorTypeOK'
    <2>1. CASE ReadEvent(s)
      <3>1. Head(queue) \in Generations
        BY <2>1 DEF ReadEvent
      <3> QED BY <2>1, <3>1 DEF ReadEvent, SourcePcs
    <2>2. CASE \E p \in SourcePcs : src' = [src EXCEPT ![s].pc = p]
      <3>1. PICK p \in SourcePcs : src' = [src EXCEPT ![s].pc = p]
        BY <2>2
      <3>2. UNCHANGED reader
        BY <1>3, SourceStep
      <3> QED BY <3>1, <3>2
    <2> QED BY <1>3, <2>1, <2>2, SourceStep
  <1> QED BY <1>2, <1>3 DEF Next, Outside

LEMMA TypeNext == TypeOK /\ [Next]_vars => TypeOK'
  BY FlagNext, CacheNext, ActorNext DEF TypeOK

LEMMA LockNext ==
    ASSUME TypeOK, LockInv, [Next]_vars
    PROVE  LockInv'
  <1> USE DEF TypeOK, ActorTypeOK, CacheTypeOK
  <1>1. CASE Outside \/ UNCHANGED vars
    BY <1>1, OutsideStep DEF LockInv, At
  <1>2. ASSUME NEW s \in Sources, CreateSource(s) \/ Dispatch(s) PROVE LockInv'
    <2>1. CASE ReadEvent(s)
      BY <2>1 DEF ReadEvent, LockInv, At
    <2>2. CASE UpdateBegin(s)
      BY <2>2 DEF UpdateBegin, LockInv, At, Goto
    <2>3. CASE UpdateEnd(s)
      BY <2>3 DEF UpdateEnd, LockInv, At, Goto
    <2>4. CASE \/ CreateSource(s) \/ Poll(s) \/ PollErr(s) \/ Disconnected(s) \/ ReadAgain(s)
               \/ ReadFails(s) \/ UpdateFails(s) \/ BusUpdate(s)
      <3>1. PICK p \in SourcePcs \ {"swap"} : Goto(s, p)
        BY <2>4 DEF CreateSource, Poll, PollErr, Disconnected, ReadAgain, ReadFails, UpdateFails,
                    BusUpdate, SourcePcs
      <3>2. mutex' = mutex /\ ~At(s, "swap")
        BY <2>4 DEF CreateSource, Poll, PollErr, Disconnected, ReadAgain, ReadFails, UpdateFails,
                    BusUpdate, At
      <3> QED BY <3>1, <3>2 DEF LockInv, At, Goto
    <2> QED BY <1>2, <2>1, <2>2, <2>3, <2>4 DEF Dispatch
  <1> QED BY <1>1, <1>2 DEF Next, Outside

\* The buffer changes with the properties, and its length under the mutex.
LEMMA RomNext ==
    ASSUME TypeOK, RomInv, [Next]_vars
    PROVE  RomInv'
  <1> USE DEF TypeOK, CacheTypeOK, cache, kernel, Images, RomInv
  <1>1. CASE Open
    BY <1>1 DEF Open, Updated
  <1>2. CASE OpenFails \/ Finalize \/ BusReset \/ Unplug \/ UNCHANGED vars
    BY <1>2 DEF OpenFails, Finalize, BusReset, Unplug, vars
  <1>3. ASSUME NEW t \in Threads, Read(t) PROVE RomInv'
    BY <1>3, ReadOnly
  <1>4. ASSUME NEW s \in Sources, CreateSource(s) \/ Dispatch(s) PROVE RomInv'
    <2>1. CASE UpdateBegin(s)
      BY <2>1 DEF UpdateBegin, GetInfo
    <2>2. CASE UpdateEnd(s)
      BY <2>2 DEF UpdateEnd
    <2>3. CASE \/ CreateSource(s) \/ Poll(s) \/ PollErr(s) \/ Disconnected(s) \/ ReadEvent(s)
               \/ ReadAgain(s) \/ ReadFails(s) \/ UpdateFails(s) \/ BusUpdate(s)
      BY <2>3 DEF CreateSource, Poll, PollErr, Disconnected, ReadEvent, ReadAgain, ReadFails,
                  UpdateFails, BusUpdate
    <2> QED BY <1>4, <2>1, <2>2, <2>3 DEF Dispatch
  <1> QED BY <1>1, <1>2, <1>3, <1>4 DEF Next

\* info follows the bus: it never decreases.
LEMMA InfoGrows ==
    ASSUME TypeOK, AgeInv, [Next]_vars
    PROVE  /\ info \in Nat /\ info' \in Nat /\ bus \in Nat /\ bus' \in Nat
           /\ info <= info' /\ info' <= bus' /\ bus <= bus'
  <1>1. TypeOK'
    BY TypeNext
  <1>2. info \in Nat /\ info' \in Nat /\ bus \in Nat /\ bus' \in Nat
    BY <1>1 DEF TypeOK, CacheTypeOK, Generations
  <1>3. CASE Open
    BY <1>2, <1>3 DEF AgeInv, Open, Updated
  <1>4. CASE BusReset
    BY <1>2, <1>4 DEF AgeInv, BusReset, cache
  <1>5. CASE OpenFails \/ Finalize \/ Unplug \/ UNCHANGED vars
    BY <1>2, <1>5 DEF AgeInv, OpenFails, Finalize, Unplug, vars, cache, kernel
  <1>6. ASSUME NEW t \in Threads, Read(t) PROVE bus' = bus /\ info' = info
    BY <1>6, ReadOnly
  <1>7. ASSUME NEW s \in Sources, CreateSource(s) \/ Dispatch(s)
        PROVE  bus' = bus /\ info' \in {info, bus}
    BY <1>7 DEF CreateSource, Dispatch, Poll, PollErr, Disconnected, ReadEvent, ReadAgain,
         ReadFails, UpdateBegin, GetInfo, UpdateFails, UpdateEnd, BusUpdate, cache, kernel
  <1>8. ASSUME bus' = bus, info' \in {info, bus} PROVE info <= info' /\ info' <= bus' /\ bus <= bus'
    BY <1>2, <1>8 DEF AgeInv
  <1> QED BY <1>2, <1>3, <1>4, <1>5, <1>6, <1>7, <1>8 DEF Next

\* A removed device does not come back, a finalized object neither.
LEMMA NoReturn ==
    ASSUME [Next]_vars
    PROVE  (present' => present) /\ (alive' => alive)
  <1>1. CASE Open \/ OpenFails \/ BusReset
    <2>1. present' = present /\ alive' = alive
      BY <1>1 DEF Open, OpenFails, BusReset, kernel
    <2> QED BY <2>1, Zenon
  <1>5. CASE Finalize
    BY <1>5 DEF Finalize, kernel
  <1>6. CASE Unplug
    BY <1>6 DEF Unplug
  <1>4. ASSUME NEW t \in Threads, Read(t) PROVE present' = present /\ alive' = alive
    BY <1>4, ReadOnly
  <1>2. ASSUME NEW s \in Sources, CreateSource(s) \/ Dispatch(s)
        PROVE  present' = present /\ alive' = alive
    BY <1>2, Zenon DEF Dispatch, CreateSource, Poll, PollErr, Disconnected, ReadEvent, ReadAgain,
                       ReadFails, UpdateBegin, UpdateFails, UpdateEnd, BusUpdate, kernel
  <1>3. CASE UNCHANGED vars
    BY <1>3, Zenon DEF vars, kernel
  <1> QED BY <1>1, <1>2, <1>3, <1>4, <1>5, <1>6, Zenon DEF Next

\* Only an event of the new generation joins the queue.
LEMMA QueueNext ==
    ASSUME TypeOK, AgeInv, [Next]_vars
    PROVE  \A i \in 1..Len(queue') : queue'[i] <= bus'
  <1> USE DEF TypeOK, CacheTypeOK, Generations
  <1>1. CASE UNCHANGED queue
    BY <1>1, InfoGrows DEF AgeInv
  <1>2. CASE BusReset
    <2>1. bus' = bus + 1 /\ queue' \in {queue, Append(queue, bus + 1)}
      BY <1>2 DEF BusReset
    <2>2. CASE queue' = Append(queue, bus + 1)
      <3>1. Len(queue') = Len(queue) + 1 /\ Len(queue) \in Nat
        BY <2>2
      <3>2. \A i \in 1..Len(queue) : queue'[i] = queue[i] /\ queue[i] \in Nat
        BY <2>2
      <3>3. queue'[Len(queue) + 1] = bus + 1
        BY <2>2
      <3>4. \A i \in 1..Len(queue') : i \in 1..Len(queue) \/ i = Len(queue) + 1
        BY <3>1
      <3>5. \A i \in 1..Len(queue) : queue[i] <= bus + 1
        BY <3>2, InfoGrows DEF AgeInv
      <3> QED BY <2>1, <3>2, <3>3, <3>4, <3>5, InfoGrows
    <2> QED BY <1>1, <2>1, <2>2
  <1>3. ASSUME NEW s \in Sources, ReadEvent(s) PROVE \A i \in 1..Len(queue') : queue'[i] <= bus'
    <2>1. Len(queue') = Len(queue) - 1 /\ \A i \in 1..Len(queue') : queue'[i] = queue[i + 1]
      BY <1>3 DEF ReadEvent
    <2>2. \A i \in 1..Len(queue') : i + 1 \in 1..Len(queue)
      BY <2>1
    <2>3. bus' = bus
      BY <1>3 DEF ReadEvent
    <2>4. ASSUME NEW i \in 1..Len(queue') PROVE queue'[i] <= bus'
      <3>1. queue[i + 1] <= bus
        BY <2>2 DEF AgeInv
      <3> QED BY <2>1, <2>3, <3>1
    <2> QED BY <2>4
  <1>4. UNCHANGED queue \/ BusReset \/ \E s \in Sources : ReadEvent(s)
    <2>1. CASE Outside \/ UNCHANGED vars
      BY <2>1, ReadOnly DEF Outside, Open, OpenFails, Finalize, Unplug, vars, kernel
    <2>2. ASSUME NEW s \in Sources, CreateSource(s) \/ Dispatch(s) PROVE UNCHANGED queue \/ ReadEvent(s)
      BY <2>2 DEF Dispatch, CreateSource, Poll, PollErr, Disconnected, ReadAgain, ReadFails,
                  UpdateBegin, UpdateFails, UpdateEnd, BusUpdate, kernel
    <2> QED BY <2>1, <2>2 DEF Next, Outside
  <1> QED BY <1>1, <1>2, <1>3, <1>4

\* An update brings the properties to the generation of the bus, which is that of
\* the event or a later one; no other step takes them back.
LEMMA AgeNext ==
    ASSUME TypeOK, AgeInv, [Next]_vars
    PROVE  AgeInv'
  <1>1. \A s \in Sources : src[s].event \in Nat
    BY DEF TypeOK, ActorTypeOK, Generations
  <1>2. ASSUME UNCHANGED src PROVE AgeInv'
    <2>1. \A s \in Sources : src'[s].event <= bus'
      BY <1>1, <1>2, InfoGrows DEF AgeInv
    <2>2. ASSUME NEW s \in Sources, src'[s].pc \in {"swap", "emit"} /\ present'
          PROVE  info' >= src'[s].event
      BY <1>1, <1>2, <2>2, NoReturn, InfoGrows DEF AgeInv
    <2> QED BY <2>1, <2>2, QueueNext, InfoGrows DEF AgeInv
  <1>3. ASSUME NEW s \in Sources, CreateSource(s) \/ Dispatch(s) PROVE AgeInv'
    <2>1. CASE ReadEvent(s)
      <3>1. Head(queue) \in Generations /\ Head(queue) <= bus
        BY <2>1 DEF ReadEvent, AgeInv, TypeOK, CacheTypeOK
      <3>2. /\ bus' = bus /\ info' = info /\ present' = present
            /\ src' = [src EXCEPT ![s] = [pc |-> "update", event |-> Head(queue)]]
        BY <2>1 DEF ReadEvent, cache
      <3>3. \A u \in Sources : src'[u].event <= bus'
        BY <3>1, <3>2 DEF AgeInv, TypeOK, ActorTypeOK
      <3>4. ASSUME NEW u \in Sources, src'[u].pc \in {"swap", "emit"} /\ present'
            PROVE  info' >= src'[u].event
        BY <3>2, <3>4 DEF AgeInv, TypeOK, ActorTypeOK
      <3> QED BY <3>3, <3>4, QueueNext, InfoGrows DEF AgeInv
    <2>2. ASSUME NEW p \in SourcePcs, src' = [src EXCEPT ![s].pc = p],
                 p \in {"swap", "emit"} /\ present' => info' >= src[s].event
          PROVE  AgeInv'
      <3>1. \A u \in Sources : src'[u].event = src[u].event
        BY <2>2 DEF TypeOK, ActorTypeOK
      <3>2. \A u \in Sources : src'[u].event <= bus'
        BY <1>1, <3>1, InfoGrows DEF AgeInv
      <3>3. ASSUME NEW u \in Sources, src'[u].pc \in {"swap", "emit"} /\ present'
            PROVE  info' >= src'[u].event
        <4>1. CASE u = s
          BY <2>2, <3>1, <3>3, <4>1 DEF TypeOK, ActorTypeOK
        <4>2. CASE u # s
          <5>1. info >= src[u].event
            BY <2>2, <3>3, <4>2, NoReturn DEF AgeInv, TypeOK, ActorTypeOK
          <5> QED BY <1>1, <3>1, <5>1, InfoGrows
        <4> QED BY <4>1, <4>2
      <3> QED BY <3>2, <3>3, QueueNext, InfoGrows DEF AgeInv
    <2>3. CASE UpdateBegin(s)
      <3>1. info' = bus /\ src' = [src EXCEPT ![s].pc = "swap"]
        BY <2>3 DEF UpdateBegin, GetInfo, Goto
      <3>2. info' >= src[s].event
        BY <1>1, <3>1, InfoGrows DEF AgeInv
      <3> QED BY <2>2, <3>1, <3>2 DEF SourcePcs
    <2>4. CASE UpdateEnd(s)
      <3>1. info' = info /\ src' = [src EXCEPT ![s].pc = "emit"] /\ src[s].pc = "swap"
        BY <2>4 DEF UpdateEnd, Goto, At
      <3>2. present' => info' >= src[s].event
        BY <3>1, NoReturn DEF AgeInv
      <3> QED BY <2>2, <3>1, <3>2 DEF SourcePcs
    <2>5. CASE UpdateFails(s)
      <3>1. src' = [src EXCEPT ![s].pc = "emit"] /\ ~present'
        BY <2>5, NoReturn DEF UpdateFails, Goto
      <3> QED BY <2>2, <3>1 DEF SourcePcs
    <2>6. CASE \/ CreateSource(s) \/ Poll(s) \/ PollErr(s) \/ Disconnected(s) \/ ReadAgain(s)
               \/ ReadFails(s) \/ BusUpdate(s)
      <3>1. PICK p \in SourcePcs \ {"swap", "emit"} : src' = [src EXCEPT ![s].pc = p]
        BY <2>6 DEF CreateSource, Poll, PollErr, Disconnected, ReadAgain, ReadFails, BusUpdate,
                    Goto, SourcePcs
      <3> QED BY <2>2, <3>1
    <2> QED BY <1>3, <2>1, <2>3, <2>4, <2>5, <2>6 DEF Dispatch
  <1> QED BY <1>2, <1>3, OutsideStep DEF Next, Outside

LEMMA ReaderNext ==
    ASSUME TypeOK, RomInv, AgeInv, ReaderInv, [Next]_vars
    PROVE  ReaderInv'
  <1>1. DOMAIN reader = Threads
    BY DEF TypeOK, ActorTypeOK
  <1>2. info \in Nat /\ info' \in Nat /\ info <= info' /\ info <= info
    BY InfoGrows
  <1>3. ASSUME NEW u \in Threads
        PROVE  /\ reader[u].generation \in Nat /\ reader[u].length \in Nat
               /\ reader[u].image.of \in Nat /\ InOrder(reader[u])
    BY DEF TypeOK, ActorTypeOK, Readers, Generations, Images, ReaderInv
  <1>4. ASSUME NEW u \in Threads, reader'[u] = reader[u] PROVE InOrder(reader[u])'
    BY <1>2, <1>3, <1>4 DEF InOrder
  <1>5. ASSUME NEW t \in Threads, Read(t) PROVE ReaderInv'
    <2>1. info' = info
      BY <1>5, ReadOnly
    <2>2. SUFFICES (\A u \in Threads \ {t} : reader'[u] = reader[u]) /\ InOrder(reader[t])'
      BY <1>4 DEF ReaderInv
    <2>3. CASE GetFirst(t)
      <3>1. /\ \A u \in Threads \ {t} : reader'[u] = reader[u]
            /\ reader'[t].pc = "half" /\ reader'[t].generation = info
        BY <1>1, <2>3, ReadStep
      <3> QED BY <1>2, <2>1, <3>1 DEF InOrder
    <2>4. CASE GetSecond(t)
      <3>1. /\ \A u \in Threads \ {t} : reader'[u] = reader[u]
            /\ reader'[t].pc = "idle" /\ reader'[t].node_id = info
            /\ reader'[t].generation = reader[t].generation
        BY <1>1, <2>4, ReadStep
      <3>2. reader[t].pc = "half"
        BY <2>4 DEF GetSecond
      <3> QED BY <1>3, <2>1, <3>1, <3>2 DEF InOrder
    <2>5. CASE GetConfigRom(t)
      <3>1. reader[t].pc = "half" /\ rom_length = info
        BY <2>5 DEF GetConfigRom, Reads, RomInv
      <3>2. /\ \A u \in Threads \ {t} : reader'[u] = reader[u]
            /\ reader'[t].pc = "handed" /\ reader'[t].length = rom_length
            /\ reader'[t].generation = reader[t].generation
        BY <2>5 DEF GetConfigRom, TypeOK, ActorTypeOK, Readers
      <3> QED BY <1>2, <1>3, <2>1, <3>1, <3>2 DEF InOrder
    <2>6. CASE ReadImage(t)
      <3>1. reader[t].pc = "handed" /\ rom.of = info
        BY <2>6 DEF ReadImage, RomInv
      <3>2. /\ \A u \in Threads \ {t} : reader'[u] = reader[u]
            /\ reader'[t].pc = "read" /\ reader'[t].image = rom
            /\ reader'[t].generation = reader[t].generation
            /\ reader'[t].length = reader[t].length
        BY <2>6 DEF ReadImage, TypeOK, ActorTypeOK, Readers
      <3> QED BY <1>2, <1>3, <2>1, <3>1, <3>2 DEF InOrder
    <2>7. CASE GetAgain(t)
      <3>1. reader[t].pc = "read"
        BY <2>7 DEF GetAgain
      <3>2. /\ \A u \in Threads \ {t} : reader'[u] = reader[u]
            /\ reader'[t].pc = "checked" /\ reader'[t].again = info
            /\ reader'[t].generation = reader[t].generation
            /\ reader'[t].length = reader[t].length
            /\ reader'[t].image = reader[t].image
        BY <2>7 DEF GetAgain, TypeOK, ActorTypeOK, Readers
      <3> QED BY <1>3, <2>1, <3>1, <3>2 DEF InOrder
    <2> QED BY <1>5, <2>3, <2>4, <2>5, <2>6, <2>7 DEF Read
  <1>6. ASSUME UNCHANGED reader PROVE ReaderInv'
    BY <1>4, <1>6 DEF ReaderInv
  <1> QED BY <1>5, <1>6, OutsideStep, SourceStep DEF Next, Outside, TypeOK

LEMMA NodeInvariant == Spec => []NodeInv
  <1>1. NodeInv /\ [Next]_vars => NodeInv'
    BY TypeNext, LockNext, RomNext, AgeNext, ReaderNext DEF NodeInv
  <1> QED BY <1>1, NodeInit, PTL DEF Spec

-----------------------------------------------------------------------------
\* Every variable keeps its type.
THEOREM TypeCorrect == Spec => []TypeOK
  <1>1. NodeInv => TypeOK
    BY DEF NodeInv
  <1> QED BY <1>1, NodeInvariant, PTL

\* The buffer that hinawa_fw_node_get_config_rom() hands out is read without the
\* mutex, while any number of GSources overwrite it (fw_node.c:446): a caller that
\* reads the same generation before and after has the ROM of that generation and
\* its length.
THEOREM ImageSafe == Spec => []ImageOfGeneration
  <1>1. ASSUME NodeInv, NEW t \in Threads, reader[t].pc = "checked",
               reader[t].again = reader[t].generation
        PROVE  reader[t].image.of = reader[t].generation /\ reader[t].length = reader[t].generation
    <2>1. /\ reader[t].generation \in Nat /\ reader[t].length \in Nat
          /\ reader[t].image.of \in Nat
      BY <1>1 DEF NodeInv, TypeOK, ActorTypeOK, Readers, Images, Generations
    <2>2. /\ reader[t].generation <= reader[t].length
          /\ reader[t].length <= reader[t].image.of
          /\ reader[t].image.of <= reader[t].again
      BY <1>1 DEF NodeInv, ReaderInv, InOrder
    <2> QED BY <1>1, <2>1, <2>2
  <1>2. NodeInv => ImageOfGeneration
    BY <1>1 DEF ImageOfGeneration
  <1> QED BY <1>2, NodeInvariant, PTL

\* The node ID of a g_object_get() of generation and node ID is never older than
\* the generation (fw_fcp.c:615, 670), with any number of updates in between.
THEOREM NodeIdSafe == Spec => []NodeIdNotOlder
  <1>1. NodeInv => NodeIdNotOlder
    BY DEF NodeInv, ReaderInv, InOrder, NodeIdNotOlder
  <1> QED BY <1>1, NodeInvariant, PTL

\* In the emission of "bus-update" the properties are at least as new as the
\* event (fw_node.c:265), although several GSources take events from one queue
\* and update the properties in any order.
THEOREM BusUpdateSafe == Spec => []BusUpdateCurrent
  <1>1. NodeInv => BusUpdateCurrent
    BY DEF NodeInv, AgeInv, BusUpdateCurrent, At
  <1> QED BY <1>1, NodeInvariant, PTL
=============================================================================
