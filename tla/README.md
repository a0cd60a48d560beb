# A TLA+ model of libhinawa

libhinawa lets applications take part in asynchronous transactions on an IEEE 1394
bus through the Linux FireWire character devices. It is a small library, but a
concurrent one: application threads block in calls whose result is delivered by an
event dispatcher in another thread, and the bus renumbers its nodes, answers late
or not at all, and disappears. This directory models that behaviour, checks it with
TLC on small instances and proves its safety with TLAPS.

## The system

| part | state | operations | what is hard |
|------|-------|------------|--------------|
| `HinawaFwNode` (`fw_node.c`) | descriptor, generation and node IDs, configuration ROM, list of `HinawaFwReq` awaiting a response with `transactions_mutex` | open, get_config_rom, read_cycle_time, create_source, internal ioctl and invalidate; the GSource (`check_src`, `dispatch_src`) | the list is written by every sending thread, every finishing thread and the dispatcher |
| `HinawaFwReq` (`fw_req.c`) | none; a `struct waiter` on the stack of each blocking call | request, transaction, transaction_with_tstamp | the handler of "responded" writes into the stack of another thread; timeouts race responses |
| `HinawaFwResp` (`fw_resp.c`) | node, range, response frame | reserve, release, set_resp_frame, handlers of request events | events outlive a reservation |
| `HinawaFwFcp` (`fw_fcp.c`), a `HinawaFwResp` | bound node, list of waiters with `transactions_mutex` and one mutex per waiter, ring of (generation, node ID) records | bind, unbind, command, avc_transaction | two levels of locks, INTERIM responses, responses matched by two bytes, bus resets |
| `HinawaCycleTime` (`cycle_time.c`) | a register value and a system time | field access, compute and parse time stamps | wraps after 8 and 128 seconds |

How they interact. A blocking call connects a handler of "responded", calls
`hinawa_fw_node_ioctl()` (which registers the object and sends), waits on a condition
with a timeout, and at last invalidates the registration. The dispatcher, run by the
thread of some GMainContext, reads one event at a time from the descriptor and, by
the closure in it, updates the node, runs a `HinawaFwResp` or looks a `HinawaFwReq`
up and emits its signal with `transactions_mutex` held. An AV/C transaction of
`HinawaFwFcp` sends its command by such a call and waits once more, for a write
request of the target that arrives through `HinawaFwResp`.

What makes each part correct:

- the node: what is read can be told to be of one generation, follows the bus and comes to
  rest with it; a removed device is noticed;
- address ranges: a request is answered, once, with the data set for it; the frame is
  never overrun; no range is lost;
- registry and calls: a handler never writes into a waiter whose call is over; a
  waiter gets the response to its own request; a timeout and a response that race
  give one verdict; responses are dropped only if invalidated; calls return;
- AV/C transactions: listed waiters are alive; TRUE means a whole final response of
  the right generation; ABORTED means a bus reset, TIMEOUT a timeout; calls return;
- binding: "responded" is emitted for the responses of the target and only for those;
- cycle time: a time stamp is completed to the second in which it was taken.

`PROJECT.json` lists the hazards line by line with the properties that watch them.

## Modules

`FwTransaction` models `fw_req.c` and the registry and dispatcher of `fw_node.c`.
A thread's `pc` is the statement it is at; `Begin*`, `RefuseArguments`,
`SendNotOpened`, `CheckOpened`, `Prepend*`, `SendIoctl`, `SendFails`, `StopWaiting`,
`Invalidate*` and `Finish` follow the two functions of `fw_req.c` and the two internal
ones of `fw_node.c`; `Poll`, `ReadEvent`, `Lookup`, `Drop`, `Unlink`, `EnterHandler`,
`RunHandler`, `EmitDone` and `Disconnected` follow `dispatch_src()`. The list of
transactions is a bag, because its order never matters; the unlocked
`g_list_prepend()` is a read and a write, and a deletion that another thread overlaps
may or may not survive it. The struct waiter is the response it holds: which call it
answers, and the rcode. External: the kernel and the bus (`Respond`, `Unplug`).
The registry and the kernel know a `HinawaFwReq` by its address only, so a member of `Reqs`
is an address, and a later call may have it again: the same object, or a new one where a
freed one was (`fw_fcp.c:263-271` allocates and frees one for each command). The constant
`Discipline` says on which addresses a call may begin: `"shared"`, any; `"serial"`, one that
is in no other call; `"settled"`, one of these to which no response is outstanding, that is in
flight, unread or being handled (`Outstanding`). Nothing in the library ensures the last one
after a timeout; `txn_reuse` shows what happens without it.

`BlockingCall` is the abstract specification of a call as its thread sees it: it begins,
a transaction receives at most one answer, that to its own request, and it returns TRUE
exactly if the answer is COMPLETE. `FwTransaction` implements it, with the waiter as the
answer (`ImplementsBlockingCall`, for `Discipline = "settled"`).

`FwNode` models `HinawaFwNode` as the application sees it: `Open`, `OpenFails`,
`CreateSource`, `Finalize`, the readers, and for each GSource `Poll` to `BusUpdate`, that is
`check_src()`, `dispatch_src()` and `handle_update()`. `GetFirst` and `GetSecond` are one
`g_object_get()` of two properties, which locks twice. A thread that has read the generation
may call `GetConfigRom` instead, which hands out the address of the live buffer with the
present length; it then reads the buffer without the mutex (`ReadImage`) and the generation
again (`GetAgain`). `update_info()` is two steps under `priv->mutex`, since the buffer is
in host order between them, and `ReadImage` may fall there. A generation stands for the node
IDs and the ROM of its time. Several GSources of one node are allowed, as the code allows
them. External: bus resets, the removal of the device, and the ioctl that fills the ROM and
the node IDs, which is taken to do so with the state of one moment. `Finalize` has no
condition of the code's: the application drops its reference once no GSource is attached, or
in any handler of "disconnected", as the documentation prefers, also while another GSource is
attached. A GSource that is dispatched on a freed node is undefined behaviour and takes no
further step (`Dispatch`).

`FwResp` models `HinawaFwResp` with the kernel's side of its ranges: `Reserve`,
`ReserveFails`, `Release`, `Finalize`, `SetRespFrame`, and `HandleRequest`,
`HandleRequest2`, `HandleRequest3`, which clear the frame and then refuse, find no handler
or enter one; `Respond` is what follows the emission. The application acts between events
and inside the emission, where it may release the range and reserve another, also at
another node. Handles are those of one client of the kernel and may be equal in two. The
ABI version of the kernel decides the type of event. `Drains` restricts the application:
it does not reserve at a node while requests of another are queued or being handled.

`FcpTransaction` models the AV/C transaction, the handler of "responded" and the
aborting half of unbind, cut at every acquisition of `transactions_mutex` and of a
waiter's mutex (`wmutex[t]`). The transaction of the command frame is abstracted to
what `FwTransaction` promises: success after the dispatcher has read its response, or
failure. External: the target, which acknowledges, may send one INTERIM and one final
response, and bus resets.

`FcpHistory` models bind, unbind and `handle_requested_signal()`: the ring of records,
the properties of the `HinawaFwNode`s, which follow bus resets some time later, and
responses of all the nodes of the bus and of the bus of another card. Bind, unbind and
the handling of an event are one step each, that is, they run in one thread. A bind
whose reservation fails changes nothing that is modelled here.

`CycleTime` models the arithmetic on the register and on time stamps. The 32 bit
register is the pair of its halves. The clock of the bus is external.

The `*Proofs` modules hold the theorems about the module they are named after, and
`FwTransactionRefinement` the one about `BlockingCall`, and `FwRegistryProofs` those about the
registry with one thread. The `MC*` modules hold the small sets.

Definitions named as mutants in their comments are not part of any specification;
each is a plausible error for which one of the properties below must fail.

## Runs

Deadlock is not checked: applications make a bounded number of calls and may stop.

| run | instance | shows |
|-----|----------|-------|
| `txn_settled` | 2 threads, 2 calls each, 2 addresses, `"settled"`, both kinds of calls, refused arguments, symmetry | `TypeOK`, `WaiterOutlivesHandler`, `ImplementsBlockingCall` |
| `txn_single` | 1 thread, 3 calls, 3 addresses, `"settled"`, 3 rcodes, fairness | `VerdictStands`, `DroppedOnlyInvalidated`, `InvalidatedNotProcessed`, `CallReturns`, `DispatcherReturns` |
| `fcp_two` | 2 threads with 2 calls and 1 call, equal and different codes | `TypeOK`, `WaitersLive`, `TrueMeansFinalResponse` |
| `fcp_reset` | 1 thread, 2 calls, 2 bus resets, failing commands, unbind, 2 sizes, a buffer of 1 | `TrueMeansFinalResponse`, `AbortedOnlyByReset` |
| `hist_rebind` | 2 nodes that swap IDs, 3 generations, a ring of 2, 2 unread events, rebinding, symmetry | `TypeOK`, `EmittedFromTarget`, `RingInOrder`, `CurrentResponseTaken` |
| `resp` | 2 nodes, 3 handles, widths 1 and 2, 2 requests, 2 attempts to reserve, ABI 3, 5 and 6, fairness | `TypeOK`, `FrameFits`, `AnswersOwnData`, `RangeIsKnown`, `EventuallyAnswered` |
| `node` | 2 GSources, 1 reader, 3 generations, open with and without `O_NONBLOCK`, fairness | `TypeOK`, `ImageOfGeneration`, `NodeIdNotOlder`, `BusUpdateCurrent`, `Converges`, `DisconnectionNoticed` |
| `cycle_time` | all 128 seconds, 3 cycles, 2 offsets, stamps up to 7 s later | `TypeOK`, `FieldsOfRegister`, `UpperSecondExact`, `ExactInSameSecond` |

Runs that end in a violation, each a disagreement of the code with its own comments
or documentation (quoted in `PROJECT.json`):

- `txn_lost`: two threads that send at once lose an entry of the unlocked list
  (`fw_node.c:662`); the response of a waiting call is dropped.
- `txn_reuse`: a call that times out and a later one with its `HinawaFwReq` at the same
  address (`"serial"`): the registry finds the entry of the second for the late response of the
  first (`fw_node.c:566`), and the second call returns TRUE with it.
- `fcp_deadlock`: `w.mutex` and `transactions_mutex` are taken in opposite orders; a
  timeout that meets a response blocks the thread and the dispatcher for ever.
- `fcp_lost_final`: a final response longer than the INTERIM before it, handled before
  the thread wakes, is lost.

Bounds. Two threads are enough for every race here, each of which is between a thread
and the dispatcher or between two threads on one list or lock; a second call makes late
responses of the first possible, and a third is there to have both the late response
and a normal one around it. Two addresses for up to four calls are used again and again, by
the same thread and by the other. Two sizes tell fitting and longer responses apart; three
generations and two IDs make a reused ID and a wrap of the two-slot ring possible. In
`FcpTransaction` `MaxCalls` is given per thread, and the code per call, to have equal
and different codes in one small instance. In `FwResp` two requests let one meet the frame
of the other, two widths (up to `MaxWidth`) a range that became too narrow for a queued request, and two
nodes with few handles a handle that means something at both; a second attempt to reserve
is the one between or inside the handling of a request. In `FwNode` two GSources are enough
to take events in the opposite order or from under each other, and three generations are
two bus resets after open. The two liveness properties of `txn_single` also hold with two
threads, two addresses and two calls each (`TransactionOnly`, `CompleteOnly`, 283,804
states). The cycle counts are the edges and one value
with the highest bit of the field set.

Two behaviours of `FcpTransaction` end in undefined behaviour of the program and are not
followed further. A failing command leaves its waiter, on a stack frame that is gone, on
the list (`fw_fcp.c:423`): `WaitersLive` is checked for commands that succeed, and in
`fcp_reset`, where they may fail, a thread makes no call after one that did (the guard of
`Begin`). And `w->frame_size`, the bound of the copy of a response, is left at the length
of the previous response when two are handled before the thread wakes (`fw_fcp.c:335`);
where it is too large for the buffer the copy runs past its end (`Overruns`). Where it is
too small, the response is lost (`fcp_lost_final`); and where a longer INTERIM response
follows a final one of another call, the length handed over is not that of the bytes,
which is why `TrueMeansFinalResponse` says nothing of the length.

Further disagreements met while modelling, without a run:

- `sec |= tstamp_sec_low` does not clear the low bits of the register's second
  (`cycle_time.c:162`): register second 1 and time stamp second 2 give 3, although "The second
  count is completed with the internal value read from the CYCLE_TIME register"
  (`cycle_time.c:146`). `UpperSecondExact` says what does hold.
- The answer to a request goes through `priv->node` as it is after the emission
  (`fw_resp.c:481`). With `Drains = FALSE`, a handler that releases the range and reserves
  one at another node answers a request of the other node's client that has the same
  handle; `AnswersOwnData` fails. The header says "using the same @handle"
  (`firewire-cdev.h:242`), which is a handle of the client that received the event.
- A request that is read after its range was released is never answered
  (`fw_resp.c:407`: no node), although "userspace is responsible for sending the response"
  (`firewire-cdev.h:240`): the kernel keeps it pending. `EventuallyAnswered` excepts it.
- The configuration ROM is documented as "aligned to big-endian" (`fw_node.c:422`), but what
  is handed out is the buffer itself (`fw_node.c:446`), which an update has in host order for
  a moment (`fw_node.c:342-345`). Stated of what `ReadImage` sees, big-endian fails, and it
  still does for readers that find the same generation before and after: when two bus resets
  precede the handling of their events, the second update writes the same generation once
  more. `ImageOfGeneration` is what such a reader can rely on.
- The documentation prefers to drop the node "immediately" in a handler of "disconnected"
  (`fw_node.c:283`), but a GSource keeps the node without a reference (`fw_node.c:638`). With a
  second GSource attached, `Finalize` in the handler of the first leaves it on a freed node: TLC
  reaches this by opening the node, creating two GSources, unplugging, `PollErr`, `Finalize`.
- `NodeIdNotOlder` allows an older generation with a newer node ID, which two reads with an
  update between them give (`fw_fcp.c:615`).
- On kernels of ABI 3 a request without a handler may be answered with an uninitialised rcode
  (`fw_resp.c:382`).
- What unbind aborts is reported as TIMEOUT (`fw_fcp.c:466`); unbind misses a transaction
  that has an unseen INTERIM response (`fw_fcp.c:715`); a response that overtakes the event
  of its bus reset is dropped (`fw_fcp.c:619`).

Fairness. In `FwTransaction` each thread and the dispatcher is weakly fair: the
operating system schedules them, and the only lock is always released by a step of its
owner. A timeout counts as a step of the thread, because `g_cond_wait_until()` has an
expiration. The application need not open the node, attach the source or make a call,
and the bus need not answer. In `FwResp` the dispatcher of each node is weakly fair, and so
is the return of a handler of "requested". In `FwNode` each GSource is: its main context
runs, and a `read()` that blocks is not enabled until there is an event or the device is
gone. Nobody owes a bus reset, a request or a reservation. In `FcpTransaction` the same
actors are strongly fair (a mutex that is freed again and again is acquired at last), so
that the deadlock found is one and not starvation.

## Proofs

The theorems hold for every value of the constants that satisfies the named assumptions
of the modules, which say only that the names of the actors differ from each other and
from marks like "nobody", that bounds are numbers and that values are in the ranges the
code has for them. The bounds on calls, generations and events are parameters there, so
that the theorems hold however large they are. Every safety property that a passing run
checks has its theorem.

`FwTransactionProofs`:

- `TypeCorrect`: `Spec => []TypeOK`. `TypeOK` alone is not inductive: that the registry
  is a bag of natural numbers needs that the entry to be deleted was in the list that
  was read (`AppShape`, `DispShape`).
- `WaiterSafe`: `WaiterOutlivesHandler` always holds if calls begin on settled addresses
  or no argument check is ever violated (`WellBehaved`). The
  argument: the dispatcher holds `transactions_mutex` exactly from the lookup to the end
  of the emission (`LockInv`), the handlers yet to run belong to calls on the object of
  the event (`EmissionInv`), and a call whose handler is entered can leave the waiting
  loop but not pass its invalidation (`HandlerInv`), which needs the mutex. The refused
  call is the one way out of a transaction without invalidation; on a settled address it has
  no event (`SettledInv`), with a shared object it is not safe.
- `OwnResponseSafe`: with `Discipline = "settled"`, `OwnResponse`, for addresses that are used
  any number of times, after timeouts too. `SettledInv` says that every response under way (in
  flight, queued or dispatched) to the address of a call in progress is the response to
  that call. The hypothesis is what an application has to ensure: with `"serial"` the
  theorem is false (`txn_reuse`).
- `VerdictSafe`: under `WellBehaved`, `VerdictStands`. `VerdictInv` adds that no call is
  invalidated before it reaches its invalidation, and which errors can precede the
  verdict.

`FwTransactionRefinement`, `RefinesBlockingCall`: with `Discipline = "settled"` the
specification implements `BlockingCall`. Initial states map to initial states and each
action to a step of the abstract call or to a stutter. That a transaction is answered at
most once is what needs proof: an object has one response under way (`UniqueInv`), and
once its call is answered there is none, and no handler of it is left to run (`OnceInv`).

`FwRegistryProofs`, from `SolitaryInv`: the action properties `DroppedSafe`
(`DroppedOnlyInvalidated`) and `InvalidatedSafe` (`InvalidatedNotProcessed`), for an
application with one thread whose calls are transactions on settled addresses (`Solitary`), with
any number of calls, objects and failures. The registry then holds at most the object of the
call in progress, and whoever replaces the list replaces the one it read (`EntryInv`); a
response that has not been looked up has an entry or an invalidated call (`ComingInv`). The
hypotheses are needed, as TLC shows: with two threads the unlocked prepend loses an entry
(`txn_lost`) or brings a deleted one back, which breaks both properties. One thread that also
calls `hinawa_fw_req_request()` on its own leaves an entry behind, which the dispatcher deletes
while the thread prepends the next: this breaks `DroppedOnlyInvalidated`.

`FwNodeProofs`, from `NodeInv`: `TypeCorrect`, `ImageSafe`, `NodeIdSafe` and
`BusUpdateSafe`. `priv->mutex` is held exactly during an update (`LockInv`), so that whoever
takes it finds the ROM, its length and the properties of one generation (`RomInv`). The
properties never go back, and are no newer than the bus and no older than an event that
was read before the update (`AgeInv`). What a thread reads one after the other, with or
without the mutex, is therefore in the order of generations (`ReaderInv`): between two reads
of the same generation there is no other.

`FwRespProofs`, from `RespInv`: `TypeCorrect`, `FrameSafe` and `RangeSafe` without a
hypothesis, and `AnswersSafe` for applications with `Drains`. An object without a range
has width 0 (`FrameInv`), and a descriptor that is not open has no range (`RangeInv`).
For `AnswersSafe`: a handle means one pending request as long as its event is queued or
handled (`PendingInv`, `EmissionInv`), and a reserved range is of the node whose requests
are handled (`DrainInv`), which is where `Drains` is needed: without it TLC finds the
counterexample above.

`FcpTransactionProofs` has an invariant in three layers:

- `CoreInv`: types, who holds which mutex (`LockInv`), who is in the list (`ListInv`: each
  waiter at most once, and a traversal has only listed waiters ahead, since unlinking
  needs `transactions_mutex`). It gives `TypeCorrect` and, when commands do not fail and
  nobody unbinds, `WaitersSafe`. The hypotheses are those of the run `fcp_two`; the path of
  the failed command (`fw_fcp.c:423`) breaks the property without them.
- `ResetInv`: the generations of responses never decrease from the waiter over the
  dispatcher and the queue to the bus (`GenInv`); in the queue the response subaction of
  a command is ahead only of responses that are not older than its call (`OrderInv`); and
  no handler reaches the waiter before (`WaiterInv`). It gives `AbortedSafe`.
- `AnswerInv`: a final response is the last frame of its call, wherever it is
  (`FinalInv`); no frame of a call that returned its own response is under way, but for
  one in an emission that can no longer reach the thread (`OwnInv`); and the frame in a
  buffer answers a command with the same code and is of the generations between the
  call's and the waiter's (`FrameInv`). It gives `TrueSafe`.

Neither `AbortedSafe` nor `TrueSafe` has a hypothesis: failed commands, unbind, bus
resets and responses longer than the buffer are covered, up to a copy that would run past the
end of the buffer (`Overruns`), where the model stops following the program.

`FcpHistoryProofs`, from `HistoryInv`: `TypeCorrect`, `EmissionSafe`, `RingSafe` and the
action property `CurrentResponseSafe`. All records of a bound object and the properties
of each node are true of the node in the generation they name (`BoundInv`, `BusInv`), and
no record is in two slots (`RingInv`), which makes the search of the ring a function.

`CycleTimeProofs`, from `TimeInv`: `TypeCorrect`, `FieldsSafe` and the action properties
`UpperSecondSafe` and `SameSecondSafe`, for all cycle and offset counts and not only the
edges that `cycle_time` tries. The lemmas are the arithmetic of the bit fields.

Only model-checked:

- liveness (`CallReturns`, `DispatcherReturns`, `EventuallyAnswered`, `Converges`,
  `DisconnectionNoticed`): fairness is out of the prover's reach;
- the four violations, by their counterexamples.

## Not modelled

Arguments of requests (tcode, address, length) beyond accepted or refused; payloads of
requests; handlers of "responded" that call back into the library; a `HinawaFwResp` that is
finalized while events for it are queued, or whose handlers run in two threads at once
(nothing in `fw_resp.c` is locked: both are undefined behaviour); what a GSource does on a
freed node; bind and release in one thread while another handles a request (between the reservation, `fw_fcp.c:667`, and
the end of bind there is no node to read and no cursor); node IDs as numbers of their own in
`FwNode` (`FcpHistory` has them); the order of events of different kinds in one descriptor;
the system time beside the cycle time; isochronous transfers, PHY packets and bus management
of the kernel interface, which the library does not use; samples, tests, build files.

## Plan

1. `BlockingCall` in place of the command inside `FcpTransaction`; rebinding there, and the
   composition with `FcpHistory`, with bind cut at each of its steps.
2. The conditions on requests (`fw_req.c:146-183`) as an operator, checked against the
   sizes the kernel reads and writes.
