-------------------------------- MODULE FwNode --------------------------------
(***************************************************************************)
(* HinawaFwNode (fw_node.c) as the view an application has of a node: the  *)
(* descriptor, the generation and node IDs and the configuration ROM that  *)
(* follow bus resets, the GSources that read the events, and the end of    *)
(* all of it when the device is removed.                                   *)
(*                                                                         *)
(* Processes: the GSources, each in the main context of some thread (the   *)
(* application may create several for one node); application threads that  *)
(* read properties and the ROM; the kernel.  priv->mutex is held during an *)
(* update, which is two steps: the ioctl fills the buffer in host order,   *)
(* then it is brought to big-endian.                                       *)
(*                                                                         *)
(* A bus generation is a number; node IDs and the ROM are told apart by    *)
(* the generation they are of.  The only events are those of bus resets:   *)
(* FwTransaction and FwResp are about the others.                          *)
(***************************************************************************)
EXTENDS Naturals, Sequences

CONSTANTS
    Sources,        \* GSources of the node
    Threads,        \* application threads that read
    MaxGeneration   \* bound: the last generation of the bus

ASSUME ActorsAssumption == "nobody" \notin Sources
ASSUME MaxGenerationAssumption == MaxGeneration \in Nat \ {0}

VARIABLES
    opened,         \* priv->fd >= 0
    error,          \* *error of the last hinawa_fw_node_open()
    mutex,          \* owner of priv->mutex
    info,           \* priv->generation: generation and node IDs of generation info
    rom,            \* priv->config_rom: of which generation, in which order
    rom_length,     \* priv->config_rom_length: that of the ROM of this generation
    alive,          \* the object is not finalized
    src,            \* src[s]: the statement GSource s is at, and its event
    reader,         \* reader[t]: what thread t has read
    emitted,        \* "disconnected" was emitted
    bus,            \* the generation of the bus (external)
    present,        \* the device is in the system (external)
    nonblock,       \* O_NONBLOCK is among the flags of open (external)
    queue           \* events of bus resets not yet read (external)

cache == <<info, rom, rom_length>>
kernel == <<bus, present, nonblock, queue>>
vars == <<opened, error, mutex, cache, alive, src, reader, emitted, kernel>>

Generations == 0..MaxGeneration
Orders == {"host", "big"}
Images == [of: Generations, order: Orders]
NothingRead == [pc |-> "idle", generation |-> 0, node_id |-> 0, length |-> 0,
                image |-> [of |-> 0, order |-> "big"], again |-> 0]
At(s, p) == src[s].pc = p
Goto(s, p) == src' = [src EXCEPT ![s].pc = p]
Attached(s) == src[s].pc \notin {"none", "removed"}
Resting(t) == reader[t].pc \in {"idle", "checked"}

\* hinawa_fw_node_init(): no descriptor, everything else zero.
Init ==
    /\ opened = FALSE /\ error = "none"
    /\ mutex = "nobody"
    /\ info = 0 /\ rom = [of |-> 0, order |-> "big"] /\ rom_length = 0
    /\ alive = TRUE
    /\ src = [s \in Sources |-> [pc |-> "none", event |-> 0]]
    /\ reader = [t \in Threads |-> NothingRead]
    /\ emitted = FALSE
    /\ bus = 1 /\ present = TRUE /\ nonblock = FALSE /\ queue = <<>>

-----------------------------------------------------------------------------
\* The kernel and the bus.

\* A bus reset: a new generation, and an event for a client that has made the
\* ioctl of open.
BusReset ==
    /\ present /\ bus < MaxGeneration
    /\ bus' = bus + 1
    /\ queue' = IF opened THEN Append(queue, bus + 1) ELSE queue
    /\ UNCHANGED <<opened, error, mutex, cache, alive, src, reader, emitted, present, nonblock>>

Unplug ==
    /\ present
    /\ present' = FALSE
    /\ UNCHANGED <<opened, error, mutex, cache, alive, src, reader, emitted, bus, nonblock, queue>>

-----------------------------------------------------------------------------
\* The application.

\* Mutant: the length is stored in another unit.
UpdatedBytes(g) ==
    /\ info' = g
    /\ rom' = [of |-> g, order |-> "big"]
    /\ rom_length' = 4 * g

\* What update_info() has done when it returns 0.
Updated(g) ==
    /\ info' = g
    /\ rom' = [of |-> g, order |-> "big"]
    /\ rom_length' = g

\* hinawa_fw_node_open(): the descriptor, then the first update.  No one else
\* uses the node yet.
Open ==
    /\ alive /\ ~opened /\ present
    /\ opened' = TRUE /\ error' = "none"
    /\ nonblock' \in BOOLEAN
    /\ Updated(bus)
    /\ UNCHANGED <<mutex, alive, src, reader, emitted, bus, present, queue>>

\* It is open already, the device is gone, open(2) fails, or the ioctl does and
\* the descriptor is closed again.
OpenError ==
    IF opened THEN {"OPENED"}
    ELSE IF ~present THEN {"DISCONNECTED"}
    ELSE {"FILE_ERROR", "FAILED"}

OpenFails ==
    /\ alive
    /\ error' \in OpenError
    /\ UNCHANGED <<opened, mutex, cache, alive, src, reader, emitted, kernel>>

\* hinawa_fw_node_create_source(), and the GSource is attached.  It keeps the
\* address of the node, not a reference to it.
CreateSource(s) ==
    /\ alive /\ opened
    /\ At(s, "none")
    /\ Goto(s, "idle")
    /\ UNCHANGED <<opened, error, mutex, cache, alive, reader, emitted, kernel>>

\* fw_node_finalize(), when the application drops its reference: once no GSource
\* is attached, or "immediately" in a handler of "disconnected", as the
\* documentation prefers (fw_node.c:283), wherever the other GSources are; an
\* emission of "bus-update" holds a reference until it ends.
Finalize ==
    /\ alive
    /\ \/ \A s \in Sources : ~Attached(s)
       \/ \E s \in Sources : At(s, "disconnected")
    /\ \A s \in Sources : ~At(s, "emit")
    /\ \A t \in Threads : Resting(t)
    /\ alive' = FALSE /\ opened' = FALSE
    /\ UNCHANGED <<error, mutex, cache, src, reader, emitted, kernel>>

\* Application threads.  fw_node_get_property() locks for each property, so that a
\* g_object_get() of two, as fw_fcp.c:615 and 670 make it, locks twice.
PropertyOrderSwapped == <<"node_id", "generation">>    \* Mutant: the other order.
PropertyOrder == <<"generation", "node_id">>

ReadsUnlocked(t) == alive    \* Mutant: the mutex is not taken.
Reads(t) == alive /\ mutex = "nobody"

GetFirst(t) ==
    /\ Reads(t)
    /\ Resting(t)
    /\ reader' = [reader EXCEPT ![t] =
                     [NothingRead EXCEPT !.pc = "half", ![PropertyOrder[1]] = info]]
    /\ UNCHANGED <<opened, error, mutex, cache, alive, src, emitted, kernel>>

GetSecond(t) ==
    /\ Reads(t)
    /\ reader[t].pc = "half"
    /\ reader' = [reader EXCEPT ![t].pc = "idle", ![t][PropertyOrder[2]] = info]
    /\ UNCHANGED <<opened, error, mutex, cache, alive, src, emitted, kernel>>

\* hinawa_fw_node_get_config_rom(), by a thread that has read the generation: the
\* address of the node's buffer, and the length of what is in it now.
GetConfigRom(t) ==
    /\ Reads(t) /\ opened
    /\ reader[t].pc = "half"
    /\ reader' = [reader EXCEPT ![t].pc = "handed", ![t].length = rom_length]
    /\ UNCHANGED <<opened, error, mutex, cache, alive, src, emitted, kernel>>

\* The thread reads the buffer, without the mutex, as it is by then.
ReadImage(t) ==
    /\ reader[t].pc = "handed"
    /\ reader' = [reader EXCEPT ![t].pc = "read", ![t].image = rom]
    /\ UNCHANGED <<opened, error, mutex, cache, alive, src, emitted, kernel>>

\* It reads the generation again, to know whether the bus was reset meanwhile.
GetAgain(t) ==
    /\ Reads(t)
    /\ reader[t].pc = "read"
    /\ reader' = [reader EXCEPT ![t].pc = "checked", ![t].again = info]
    /\ UNCHANGED <<opened, error, mutex, cache, alive, src, emitted, kernel>>

-----------------------------------------------------------------------------
\* A GSource: check_src() and dispatch_src().

Poll(s) ==
    /\ At(s, "idle")
    /\ present /\ queue # <<>>
    /\ Goto(s, "read")
    /\ UNCHANGED <<opened, error, mutex, cache, alive, reader, emitted, kernel>>

\* Mutant: the condition G_IO_ERR is not looked at.
PollErrReads(s) ==
    /\ At(s, "idle")
    /\ ~present
    /\ Goto(s, "read")
    /\ UNCHANGED <<opened, error, mutex, cache, alive, reader, emitted, kernel>>

\* G_IO_ERR: "disconnected" is emitted, whatever is unread.
PollErr(s) ==
    /\ At(s, "idle")
    /\ ~present
    /\ Goto(s, "disconnected")
    /\ emitted' = TRUE
    /\ UNCHANGED <<opened, error, mutex, cache, alive, reader, kernel>>

\* G_SOURCE_REMOVE after the emission; the node may be finalized by now.
Disconnected(s) ==
    /\ At(s, "disconnected")
    /\ Goto(s, "removed")
    /\ UNCHANGED <<opened, error, mutex, cache, alive, reader, emitted, kernel>>

\* read(): an event, which another GSource may have taken meanwhile; then it
\* waits for the next one ...
ReadEvent(s) ==
    /\ At(s, "read")
    /\ queue # <<>>
    /\ src' = [src EXCEPT ![s] = [pc |-> "update", event |-> Head(queue)]]
    /\ queue' = Tail(queue)
    /\ UNCHANGED <<opened, error, mutex, cache, alive, reader, emitted, bus, present, nonblock>>

\* ... or fails with EAGAIN ...
ReadAgain(s) ==
    /\ At(s, "read")
    /\ queue = <<>> /\ present /\ nonblock
    /\ Goto(s, "idle")
    /\ UNCHANGED <<opened, error, mutex, cache, alive, reader, emitted, kernel>>

\* ... or with ENODEV, which removes the GSource without an emission.
ReadFails(s) ==
    /\ At(s, "read")
    /\ queue = <<>> /\ ~present
    /\ Goto(s, "removed")
    /\ UNCHANGED <<opened, error, mutex, cache, alive, reader, emitted, kernel>>

\* FW_CDEV_IOC_GET_INFO fills both buffers with the present state of the bus and
\* of the node, the ROM in host order.  The kernel is taken to fill them with the
\* state of one moment.
GetInfo ==
    /\ present
    /\ info' = bus
    /\ rom' = [of |-> bus, order |-> "host"]

\* Mutant: what the event says is stored, not what the ioctl returns.
UpdateFromEvent(s) ==
    /\ At(s, "update")
    /\ mutex = "nobody" /\ present
    /\ mutex' = s
    /\ info' = src[s].event
    /\ rom' = [of |-> src[s].event, order |-> "host"]
    /\ Goto(s, "swap")
    /\ UNCHANGED <<opened, error, rom_length, alive, reader, emitted, kernel>>

\* handle_update() locks, and update_info() makes the ioctl.
UpdateBegin(s) ==
    /\ At(s, "update")
    /\ mutex = "nobody"
    /\ mutex' = s
    /\ GetInfo
    /\ Goto(s, "swap")
    /\ UNCHANGED <<opened, error, rom_length, alive, reader, emitted, kernel>>

\* The ioctl fails: nothing is stored, and the error is ignored.
UpdateFails(s) ==
    /\ At(s, "update")
    /\ mutex = "nobody" /\ ~present
    /\ Goto(s, "emit")
    /\ UNCHANGED <<opened, error, mutex, cache, alive, reader, emitted, kernel>>

\* Mutant: the mutex is not released.
UpdateEndLocked(s) ==
    /\ At(s, "swap")
    /\ rom' = [rom EXCEPT !.order = "big"]
    /\ rom_length' = rom.of
    /\ Goto(s, "emit")
    /\ UNCHANGED <<opened, error, mutex, info, alive, reader, emitted, kernel>>

\* The rest of update_info(), and the mutex is released.
UpdateEnd(s) ==
    /\ At(s, "swap")
    /\ rom' = [rom EXCEPT !.order = "big"]
    /\ rom_length' = rom.of
    /\ mutex' = "nobody"
    /\ Goto(s, "emit")
    /\ UNCHANGED <<opened, error, info, alive, reader, emitted, kernel>>

\* The handlers of "bus-update" have run, and the GSource continues.
BusUpdate(s) ==
    /\ At(s, "emit")
    /\ Goto(s, "idle")
    /\ UNCHANGED <<opened, error, mutex, cache, alive, reader, emitted, kernel>>

-----------------------------------------------------------------------------
\* A GSource that is left attached to a node that was freed is dispatched on it all
\* the same (fw_node.c:638 takes no reference): what it does is undefined and is not
\* followed further.
Dispatch(s) ==
    \/ Disconnected(s)
    \/ /\ alive
       /\ \/ Poll(s) \/ PollErr(s)
          \/ ReadEvent(s) \/ ReadAgain(s) \/ ReadFails(s)
          \/ UpdateBegin(s) \/ UpdateFails(s) \/ UpdateEnd(s) \/ BusUpdate(s)

Read(t) == GetFirst(t) \/ GetSecond(t) \/ GetConfigRom(t) \/ ReadImage(t) \/ GetAgain(t)

Next ==
    \/ \E s \in Sources : CreateSource(s) \/ Dispatch(s)
    \/ \E t \in Threads : Read(t)
    \/ Open \/ OpenFails \/ Finalize
    \/ BusReset \/ Unplug

Spec == Init /\ [][Next]_vars

\* The main contexts of the GSources run: one that can dispatch does so, and
\* priv->mutex, held for two statements only, is acquired at last.
FairSpec == Spec /\ \A s \in Sources : WF_vars(Dispatch(s))
-----------------------------------------------------------------------------
SourcePcs == {"none", "idle", "read", "update", "swap", "emit", "disconnected", "removed"}
Readers == [pc: {"idle", "half", "handed", "read", "checked"},
            generation: Generations, node_id: Generations, length: Generations,
            image: Images, again: Generations]

FlagTypeOK ==
    /\ opened \in BOOLEAN /\ alive \in BOOLEAN /\ emitted \in BOOLEAN
    /\ present \in BOOLEAN /\ nonblock \in BOOLEAN

CacheTypeOK ==
    /\ error \in {"none", "OPENED", "DISCONNECTED", "FILE_ERROR", "FAILED"}
    /\ mutex \in Sources \cup {"nobody"}
    /\ info \in Generations /\ rom_length \in Generations
    /\ rom \in Images
    /\ bus \in 1..MaxGeneration
    /\ queue \in Seq(Generations)

ActorTypeOK ==
    /\ src \in [Sources -> [pc: SourcePcs, event: Generations]]
    /\ reader \in [Threads -> Readers]

\* Every variable has its type.
TypeOK == FlagTypeOK /\ CacheTypeOK /\ ActorTypeOK

\* What a caller of hinawa_fw_node_get_config_rom() can make of a buffer that every
\* update overwrites behind its back (fw_node.c:446): if the generation is the same
\* before and after, what was read is the ROM of that generation, and the length
\* handed out with the buffer is the length of it.  Nothing is said of the byte order:
\* an update of the same generation may have it in host order.
ImageOfGeneration ==
    \A t \in Threads :
        (reader[t].pc = "checked" /\ reader[t].again = reader[t].generation) =>
            /\ reader[t].image.of = reader[t].generation
            /\ reader[t].length = reader[t].generation

\* Two properties read one after the other may be of two generations; then the
\* node ID is the newer one (fw_fcp.c:615, 670): a node ID is never attributed to
\* a generation that begins after it was assigned.
NodeIdNotOlder ==
    \A t \in Threads : reader[t].pc = "idle" => reader[t].generation <= reader[t].node_id

\* "Handlers can read current generation in the bus" (fw_node.c:265): in the
\* emission of "bus-update" the properties are at least as new as the event,
\* with another GSource that updates them too, unless the device is gone.
BusUpdateCurrent ==
    \A s \in Sources : (At(s, "emit") /\ present) => info >= src[s].event

\* The properties arrive at the state of the bus and stay there, once the bus
\* resets have ended and while a GSource is attached, in whatever order the
\* GSources handle the events (fw_node.c:492).
Converges ==
    <>[]((present /\ \E s \in Sources : Attached(s)) => info = bus)

\* "Emitted when the node is not available anymore" (fw_node.c:283): a removed
\* device is noticed, although a read() that fails removes its GSource silently
\* (fw_node.c:535).
DisconnectionNoticed ==
    (~present /\ \E s \in Sources : Attached(s)) ~> emitted
=============================================================================
