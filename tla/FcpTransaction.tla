---------------------------- MODULE FcpTransaction ----------------------------
(***************************************************************************)
(* AV/C transactions of HinawaFwFcp (fw_fcp.c): a thread sends a command   *)
(* frame, waits for the response frame with the same two bytes that came   *)
(* as a write request of the target (fw_fcp.c:377), and gives up after a   *)
(* timeout; hinawa_fw_fcp_unbind() aborts what is pending.                 *)
(*                                                                         *)
(* Two levels of locks: transactions_mutex of the object protects the list *)
(* of waiters, and each waiter, on the stack of its thread, has a mutex.   *)
(* The thread holds its waiter's mutex except inside g_cond_wait_until();  *)
(* it takes transactions_mutex while holding it.  The handler of           *)
(* "responded" and unbind take them in the other order.                    *)
(*                                                                         *)
(* The transaction that carries the command frame is the one of module     *)
(* FwTransaction; here it is its promise: it succeeds after the dispatcher *)
(* has handled its response, or it fails.  That the response frames come   *)
(* from the target is the matter of fw_fcp.c:593.                          *)
(***************************************************************************)
EXTENDS Naturals, Sequences, FiniteSets

CONSTANTS
    Threads,        \* application threads that make AV/C transactions
    Code,           \* Code[<<t, n>>]: the two bytes that match the n-th call of t
    MaxCalls,       \* bound: MaxCalls[t] AV/C transactions of thread t
    MaxGeneration,  \* bound: bus resets
    Sizes,          \* sizes of response frames
    Capacity,       \* *resp_size of every call
    CommandFails,   \* may the transaction of the command frame fail?
    Unbinds         \* does the application call hinawa_fw_fcp_unbind()?

ASSUME ThreadsAssumption == {"nobody", "disp", "unbind"} \cap Threads = {}
ASSUME SizesAssumption == Sizes \subseteq Nat /\ Capacity \in Nat
ASSUME BoundsAssumption == MaxCalls \in [Threads -> Nat] /\ MaxGeneration \in Nat
ASSUME EnvironmentAssumption == CommandFails \in BOOLEAN /\ Unbinds \in BOOLEAN

VARIABLES
    pc,             \* pc[t]: the next statement of thread t
    calls,          \* calls[t]: transactions t has begun
    waiter,         \* waiter[t]: the struct waiter on t's stack and its frame
    start,          \* start[t]: the generation t read before the command
    acked,          \* acked[t]: the transaction of t's command has its response
    result,         \* result[t]: what t's last transaction returned
    wmutex,         \* wmutex[t]: owner of the mutex of t's waiter
    tmutex,         \* owner of priv->transactions_mutex
    list,           \* priv->transactions: threads, the head first
    connected,      \* threads with a handler connected to "responded"
    bound,          \* priv->node # NULL
    generation,     \* the generation of the bus, as the node knows it
    device,         \* the commands the target has yet to answer (external)
    queue,          \* events the dispatcher has not read (external)
    disp,           \* the dispatcher inside the emission of "responded"
    unbind,         \* the thread in hinawa_fw_fcp_unbind()
    final,          \* history: final[t]: a handler took t's final response
    gaveup          \* history: calls that returned without their response

thread == <<pc, calls, start, acked, result>>
locks == <<wmutex, tmutex, list, connected>>
outside == <<bound, generation, device, queue>>
vars == <<thread, waiter, locks, outside, disp, unbind, final, gaveup>>

Calls == UNION {{t} \X (1..MaxCalls[t]) : t \in Threads}
Call(t) == <<t, calls[t]>>
\* A response frame: its AV/C status, its size, the bus generation in which it
\* was sent and the call whose command it answers.
Frames == [status: {"INTERIM", "FINAL"}, size: Sizes, gen: 0..MaxGeneration, call: Calls]
\* What is in the caller's buffer before any response, and after frame[0] was
\* cleared for a deferred transaction.
NoFrame == [status |-> "none", size |-> 0, gen |-> 0, call |-> <<>>]

Owed == {"ack", "INTERIM", "FINAL"}    \* what a target sends for a command

NewWaiter == [state |-> "PENDING", gen |-> 0, frame |-> NoFrame, size |-> Capacity]

Init ==
    /\ pc = [t \in Threads |-> "idle"]
    /\ calls = [t \in Threads |-> 0]
    /\ waiter = [t \in Threads |-> NewWaiter]
    /\ start = [t \in Threads |-> 0]
    /\ acked = [t \in Threads |-> FALSE]
    /\ result = [t \in Threads |-> "none"]
    /\ wmutex = [t \in Threads |-> "nobody"]
    /\ tmutex = "nobody"
    /\ list = <<>>
    /\ connected = {}
    /\ bound = TRUE
    /\ generation = 0
    /\ device = {}
    /\ queue = <<>>
    /\ disp = [pc |-> "idle", frame |-> NoFrame, todo |-> {}, rest |-> <<>>]
    /\ unbind = [pc |-> "idle", rest |-> <<>>]
    /\ final = [t \in Threads |-> FALSE]
    /\ gaveup = {}

InSeq(t, s) == \E i \in 1..Len(s) : s[i] = t

\* LIST_REMOVE(): the entry of t is unlinked.
Without(s, t) ==
    LET k == CHOOSE i \in 1..Len(s) : s[i] = t
    IN  [i \in 1..(Len(s) - 1) |-> IF i < k THEN s[i] ELSE s[i + 1]]

-----------------------------------------------------------------------------
\* hinawa_fw_fcp_avc_transaction_with_tstamp().

\* Mutant: the waiter is not locked before it is listed.
BeginUnlocked(t) ==
    /\ pc[t] = "idle" /\ bound /\ ~InSeq(t, list)
    /\ calls[t] < MaxCalls[t]
    /\ pc' = [pc EXCEPT ![t] = "insert"]
    /\ calls' = [calls EXCEPT ![t] = @ + 1]
    /\ waiter' = [waiter EXCEPT ![t] = NewWaiter]
    /\ acked' = [acked EXCEPT ![t] = FALSE]
    /\ result' = [result EXCEPT ![t] = "none"]
    /\ final' = [final EXCEPT ![t] = FALSE]
    /\ connected' = connected \cup {t}
    /\ UNCHANGED <<start, wmutex, tmutex, list, outside, disp, unbind, gaveup>>

\* The waiter is initialised and locked, the handler connected.  After a command
\* that failed the list still has the dead waiter of the thread, and what a call
\* does then is undefined: the thread makes none.
Begin(t) ==
    /\ pc[t] = "idle" /\ bound /\ ~InSeq(t, list)
    /\ calls[t] < MaxCalls[t]
    /\ pc' = [pc EXCEPT ![t] = "insert"]
    /\ calls' = [calls EXCEPT ![t] = @ + 1]
    /\ waiter' = [waiter EXCEPT ![t] = NewWaiter]
    /\ acked' = [acked EXCEPT ![t] = FALSE]
    /\ result' = [result EXCEPT ![t] = "none"]
    /\ final' = [final EXCEPT ![t] = FALSE]
    /\ wmutex' = [wmutex EXCEPT ![t] = t]
    /\ connected' = connected \cup {t}
    /\ UNCHANGED <<start, tmutex, list, outside, disp, unbind, gaveup>>

Insert(t) ==
    /\ pc[t] = "insert"
    /\ tmutex = "nobody"
    /\ list' = <<t>> \o list
    /\ pc' = [pc EXCEPT ![t] = "generation"]
    /\ UNCHANGED <<calls, waiter, start, acked, result, wmutex, tmutex, connected,
                   outside, disp, unbind, final, gaveup>>

\* The generation is read before the command is sent, with transactions_mutex
\* free: a bus reset in between makes the response one of a later generation.
ReadGeneration(t) ==
    /\ pc[t] = "generation"
    /\ start' = [start EXCEPT ![t] = generation]
    /\ pc' = [pc EXCEPT ![t] = "send"]
    /\ UNCHANGED <<calls, waiter, acked, result, locks, outside, disp,
                   unbind, final, gaveup>>

SendCommand(t) ==
    /\ pc[t] = "send"
    /\ bound
    /\ device' = device \cup {[call |-> Call(t), owed |-> Owed]}
    /\ pc' = [pc EXCEPT ![t] = "command"]
    /\ UNCHANGED <<calls, waiter, start, acked, result, locks, bound, generation, queue,
                   disp, unbind, final, gaveup>>

\* The command was delivered; the waiter is pending, for no one could lock it,
\* and g_cond_wait_until() releases its mutex.
CommandDone(t) ==
    /\ pc[t] = "command"
    /\ acked[t]
    /\ pc' = [pc EXCEPT ![t] = "waiting"]
    /\ wmutex' = [wmutex EXCEPT ![t] = "nobody"]
    /\ UNCHANGED <<calls, waiter, start, acked, result, tmutex, list, connected, outside,
                   disp, unbind, final, gaveup>>

\* The command failed (it timed out, the rcode was an error, the node is gone):
\* the waiter is unlocked and the call returns, and the list still holds it.
CommandFailed(t) ==
    /\ \/ pc[t] = "send" /\ (CommandFails \/ ~bound)
       \/ pc[t] = "command" /\ CommandFails
    /\ connected' = connected \ {t}
    /\ disp' = [disp EXCEPT !.todo = @ \ {t}]
    /\ wmutex' = [wmutex EXCEPT ![t] = "nobody"]
    /\ pc' = [pc EXCEPT ![t] = "idle"]
    /\ result' = [result EXCEPT ![t] = "COMMAND_FAILED"]
    /\ gaveup' = gaveup \cup {Call(t)}
    /\ UNCHANGED <<calls, waiter, start, acked, tmutex, list, outside, unbind, final>>

\* g_cond_wait_until() returns with the waiter's mutex: signalled, or expired.
Wake(t) ==
    /\ pc[t] = "waiting"
    /\ wmutex[t] = "nobody"
    /\ waiter[t].state # "PENDING"
    /\ wmutex' = [wmutex EXCEPT ![t] = t]
    /\ pc' = [pc EXCEPT ![t] = "woken"]
    /\ UNCHANGED <<calls, waiter, start, acked, result, tmutex, list, connected, outside,
                   disp, unbind, final, gaveup>>

Expire(t) ==
    /\ pc[t] = "waiting"
    /\ wmutex[t] = "nobody"
    /\ wmutex' = [wmutex EXCEPT ![t] = t]
    /\ pc' = [pc EXCEPT ![t] = "woken"]
    /\ UNCHANGED <<calls, waiter, start, acked, result, tmutex, list, connected, outside, disp,
                   unbind, final, gaveup>>

\* Mutant: an INTERIM response is taken for the final one.
NeverDeferred(t) == waiter[t].state = "INTERIM"

Deferred(t) ==
    /\ waiter[t].state = "RESPONDED"
    /\ waiter[t].gen = start[t]
    /\ waiter[t].frame.status = "INTERIM"

\* A deferred transaction waits again, until the same expiration.
WaitAgain(t) ==
    /\ pc[t] = "woken"
    /\ Deferred(t)
    /\ waiter' = [waiter EXCEPT ![t].state = "PENDING", ![t].frame = NoFrame,
                                ![t].size = Capacity]
    /\ wmutex' = [wmutex EXCEPT ![t] = "nobody"]
    /\ pc' = [pc EXCEPT ![t] = "waiting"]
    /\ UNCHANGED <<calls, start, acked, result, tmutex, list, connected, outside, disp,
                   unbind, final, gaveup>>

\* Mutant: the waiter is unlinked without transactions_mutex.
RemoveUnlocked(t) ==
    /\ pc[t] = "woken"
    /\ ~Deferred(t)
    /\ list' = Without(list, t)
    /\ connected' = connected \ {t}
    /\ disp' = [disp EXCEPT !.todo = @ \ {t}]
    /\ wmutex' = [wmutex EXCEPT ![t] = "nobody"]
    /\ pc' = [pc EXCEPT ![t] = "verdict"]
    /\ UNCHANGED <<calls, waiter, start, acked, result, tmutex, outside,
                   unbind, final, gaveup>>

\* The waiter is unlinked under transactions_mutex, its handler disconnected, and
\* its own mutex, held since the thread woke, released.
Remove(t) ==
    /\ pc[t] = "woken"
    /\ ~Deferred(t)
    /\ tmutex = "nobody"
    /\ list' = Without(list, t)
    /\ connected' = connected \ {t}
    /\ disp' = [disp EXCEPT !.todo = @ \ {t}]
    /\ wmutex' = [wmutex EXCEPT ![t] = "nobody"]
    /\ pc' = [pc EXCEPT ![t] = "verdict"]
    /\ UNCHANGED <<calls, waiter, start, acked, result, tmutex, outside,
                   unbind, final, gaveup>>

\* Mutant: the generation is compared with the one of the node, read again.
VerdictByNode(t) ==
    CASE waiter[t].state # "RESPONDED" -> "TIMEOUT"
      [] waiter[t].state = "RESPONDED" /\ waiter[t].gen # generation -> "ABORTED"
      [] waiter[t].state = "RESPONDED" /\ waiter[t].gen = generation ->
            IF waiter[t].size > Capacity THEN "LARGE_RESP" ELSE "TRUE"

\* The switch on w.state: ABORTED takes the default, with PENDING.
Verdict(t) ==
    CASE waiter[t].state # "RESPONDED" -> "TIMEOUT"
      [] waiter[t].state = "RESPONDED" /\ waiter[t].gen # start[t] -> "ABORTED"
      [] waiter[t].state = "RESPONDED" /\ waiter[t].gen = start[t] ->
            IF waiter[t].size > Capacity THEN "LARGE_RESP" ELSE "TRUE"

Finish(t) ==
    /\ pc[t] = "verdict"
    /\ result' = [result EXCEPT ![t] = Verdict(t)]
    /\ gaveup' = IF Verdict(t) = "TRUE" /\ waiter[t].frame.call = Call(t)
                  THEN gaveup ELSE gaveup \cup {Call(t)}
    /\ pc' = [pc EXCEPT ![t] = "idle"]
    /\ UNCHANGED <<calls, waiter, start, acked, locks, outside, disp, unbind, final>>

-----------------------------------------------------------------------------
\* The dispatcher.

\* The response subaction of a command's transaction.
DispatchAck ==
    /\ disp.pc = "idle"
    /\ queue # <<>> /\ Head(queue).type = "ack"
    /\ LET c == Head(queue).call
       IN  acked' = [acked EXCEPT ![c[1]] = @ \/ (pc[c[1]] = "command" /\ calls[c[1]] = c[2])]
    /\ queue' = Tail(queue)
    /\ UNCHANGED <<pc, calls, waiter, start, result, locks, bound, generation, device,
                   disp, unbind, final, gaveup>>

\* A write request of the target to the response register: "responded" is
\* emitted, unless the address range was released meanwhile.
DispatchResponse ==
    /\ disp.pc = "idle"
    /\ queue # <<>> /\ Head(queue).type = "fcp"
    /\ queue' = Tail(queue)
    /\ disp' = IF bound THEN [disp EXCEPT !.pc = "emit", !.frame = Head(queue).frame,
                                          !.todo = connected]
                        ELSE disp
    /\ UNCHANGED <<thread, waiter, locks, bound, generation, device, unbind, final, gaveup>>

\* handle_responded_signal(), which each transaction in progress has connected
\* once more: each emission runs it once for each of them.
EnterHandler ==
    /\ disp.pc = "emit"
    /\ tmutex = "nobody"
    /\ \E t \in disp.todo :
          disp' = [disp EXCEPT !.pc = "visit", !.todo = @ \ {t}, !.rest = list]
    /\ tmutex' = "disp"
    /\ UNCHANGED <<thread, waiter, wmutex, list, connected, outside, unbind, final, gaveup>>

\* Mutant: the length is off by one.
RespondedLonger(w, f) ==
    [state |-> "RESPONDED", gen |-> f.gen, size |-> f.size + 1,
     frame |-> IF f.size <= w.size THEN f ELSE w.frame]

\* What the handler does to a waiter: it copies the frame if it is not longer
\* than w->frame_size, which it then sets to the length of the frame.
Responded(w, f) ==
    [state |-> "RESPONDED", gen |-> f.gen, size |-> f.size,
     frame |-> IF f.size <= w.size THEN f ELSE w.frame]

\* w->frame_size is the length of the response before, if the thread has not
\* woken since: after one that was too long the next may be copied past the end of
\* the buffer.  What follows is undefined, and not followed here.
Overruns(w, f) == f.size <= w.size /\ f.size > Capacity

\* One waiter of the list, under its mutex.
Visit ==
    /\ disp.pc = "visit"
    /\ disp.rest # <<>>
    /\ LET t == Head(disp.rest)
           match == Code[Call(t)] = Code[disp.frame.call]
       IN  /\ wmutex[t] = "nobody"
           /\ ~(match /\ Overruns(waiter[t], disp.frame))
           /\ waiter' = [waiter EXCEPT ![t] = IF match THEN Responded(@, disp.frame) ELSE @]
           /\ final' = [final EXCEPT ![t] = @ \/ (match /\ disp.frame.status = "FINAL"
                                                        /\ disp.frame.gen = start[t])]
    /\ disp' = [disp EXCEPT !.rest = Tail(@)]
    /\ UNCHANGED <<thread, locks, outside, unbind, gaveup>>

LeaveHandler ==
    /\ disp.pc = "visit"
    /\ disp.rest = <<>>
    /\ tmutex' = "nobody"
    /\ disp' = [disp EXCEPT !.pc = "emit"]
    /\ UNCHANGED <<thread, waiter, wmutex, list, connected, outside, unbind, final, gaveup>>

EmitDone ==
    /\ disp.pc = "emit"
    /\ disp.todo = {}
    /\ disp' = [disp EXCEPT !.pc = "idle", !.frame = NoFrame]
    /\ UNCHANGED <<thread, waiter, locks, outside, unbind, final, gaveup>>

-----------------------------------------------------------------------------
\* hinawa_fw_fcp_unbind() in a thread of the application.

Release ==
    /\ Unbinds
    /\ unbind.pc = "idle"
    /\ bound' = FALSE
    /\ unbind' = [unbind EXCEPT !.pc = "lock"]
    /\ UNCHANGED <<thread, waiter, locks, generation, device, queue, disp, final, gaveup>>

AbortBegin ==
    /\ unbind.pc = "lock"
    /\ tmutex = "nobody"
    /\ tmutex' = "unbind"
    /\ unbind' = [pc |-> "abort", rest |-> list]
    /\ UNCHANGED <<thread, waiter, wmutex, list, connected, outside, disp, final, gaveup>>

Abort ==
    /\ unbind.pc = "abort"
    /\ unbind.rest # <<>>
    /\ LET t == Head(unbind.rest)
       IN  /\ wmutex[t] = "nobody"
           /\ waiter' = [waiter EXCEPT ![t].state = IF @ = "PENDING" THEN "ABORTED" ELSE @]
    /\ unbind' = [unbind EXCEPT !.rest = Tail(@)]
    /\ UNCHANGED <<thread, locks, outside, disp, final, gaveup>>

AbortEnd ==
    /\ unbind.pc = "abort"
    /\ unbind.rest = <<>>
    /\ tmutex' = "nobody"
    /\ unbind' = [unbind EXCEPT !.pc = "done"]
    /\ UNCHANGED <<thread, waiter, wmutex, list, connected, outside, disp, final, gaveup>>

-----------------------------------------------------------------------------
\* External: the target and the bus.  The target acknowledges a command, may
\* send one INTERIM response and sends one final response, in any order with the
\* acknowledgement; any of them may be lost.

Sent(d, event, rest) ==
    /\ queue' = Append(queue, event)
    /\ device' = (device \ {d}) \cup {[d EXCEPT !.owed = rest]}
    /\ UNCHANGED <<thread, waiter, locks, bound, generation, disp, unbind, final, gaveup>>

Ack ==
    \E d \in device :
        /\ "ack" \in d.owed
        /\ Sent(d, [type |-> "ack", call |-> d.call], d.owed \ {"ack"})

Response(d, st, size) ==
    [type |-> "fcp",
     frame |-> [status |-> st, size |-> size, gen |-> generation, call |-> d.call]]

Interim ==
    \E d \in device, size \in Sizes :
        /\ "INTERIM" \in d.owed
        /\ Sent(d, Response(d, "INTERIM", size), d.owed \ {"INTERIM"})

FinalAnswer ==
    \E d \in device, size \in Sizes :
        /\ "FINAL" \in d.owed
        /\ Sent(d, Response(d, "FINAL", size), d.owed \ {"INTERIM", "FINAL"})

BusReset ==
    /\ generation < MaxGeneration
    /\ generation' = generation + 1
    /\ UNCHANGED <<thread, waiter, locks, bound, device, queue, disp, unbind, final, gaveup>>

-----------------------------------------------------------------------------
ThreadStep(t) ==
    \/ Insert(t) \/ ReadGeneration(t) \/ SendCommand(t) \/ CommandDone(t) \/ CommandFailed(t)
    \/ Wake(t) \/ Expire(t) \/ WaitAgain(t) \/ Remove(t) \/ Finish(t)

DispatcherStep ==
    DispatchAck \/ DispatchResponse \/ EnterHandler \/ Visit \/ LeaveHandler \/ EmitDone

UnbindStep == Release \/ AbortBegin \/ Abort \/ AbortEnd

Next ==
    \/ \E t \in Threads : Begin(t) \/ ThreadStep(t)
    \/ DispatcherStep
    \/ UnbindStep
    \/ Ack \/ Interim \/ FinalAnswer \/ BusReset

Spec == Init /\ [][Next]_vars

\* Threads and the dispatcher are scheduled, and a thread whose mutex is freed
\* gets it in the end; a timeout passes in the end.
FairSpec ==
    /\ Spec
    /\ \A t \in Threads : SF_vars(ThreadStep(t))
    /\ SF_vars(DispatcherStep)
    /\ SF_vars(AbortBegin \/ Abort \/ AbortEnd)

-----------------------------------------------------------------------------
Waiters == [state: {"PENDING", "RESPONDED", "ABORTED"}, gen: 0..MaxGeneration,
            frame: Frames \cup {NoFrame}, size: Sizes \cup {Capacity}]

Events == [type: {"ack"}, call: Calls] \cup [type: {"fcp"}, frame: Frames]

FlagTypeOK ==
    /\ acked \in [Threads -> BOOLEAN]
    /\ final \in [Threads -> BOOLEAN]
    /\ bound \in BOOLEAN

ThreadTypeOK ==
    /\ pc \in [Threads -> {"idle", "insert", "generation", "send", "command", "waiting", "woken",
                           "verdict"}]
    /\ calls \in [Threads -> Nat] /\ \A t \in Threads : calls[t] <= MaxCalls[t]
    /\ waiter \in [Threads -> Waiters]
    /\ start \in [Threads -> 0..MaxGeneration]
    /\ result \in [Threads -> {"none", "TRUE", "TIMEOUT", "ABORTED", "LARGE_RESP",
                               "COMMAND_FAILED"}]
    /\ gaveup \subseteq Calls

LockTypeOK ==
    /\ wmutex \in [Threads -> Threads \cup {"nobody"}]
    /\ tmutex \in {"nobody", "disp", "unbind"}
    /\ list \in Seq(Threads)
    /\ connected \subseteq Threads

BusTypeOK ==
    /\ generation \in 0..MaxGeneration
    /\ device \subseteq [call: Calls, owed: SUBSET Owed]
    /\ queue \in Seq(Events)
    /\ disp \in [pc: {"idle", "emit", "visit"}, frame: Frames \cup {NoFrame},
                 todo: SUBSET Threads, rest: Seq(Threads)]
    /\ unbind \in [pc: {"idle", "lock", "abort", "done"}, rest: Seq(Threads)]

\* Every variable has its type.
TypeOK == FlagTypeOK /\ ThreadTypeOK /\ LockTypeOK /\ BusTypeOK

\* A waiter is on the stack of its thread: while a list traversal of the handler
\* or of unbind (fw_fcp.c:328, 713) has still to visit it, or the list links to
\* it, its call is in progress and has not unlinked it (fw_fcp.c:445).
WaitersLive ==
    \A t \in Threads :
        InSeq(t, list) \/ InSeq(t, disp.rest) \/ InSeq(t, unbind.rest) =>
            pc[t] \in {"generation", "send", "command", "waiting", "woken"}

\* An AV/C transaction that returns TRUE hands over a final response of the
\* generation the command was sent in (fw_fcp.c:452), however responses and
\* INTERIMs of other calls and bus resets come in between.  It is
\* one to a command with the same two bytes: its own, or, since nothing else
\* tells responses apart (fw_fcp.c:331), one of another thread or an earlier one
\* of this thread, but then one that returned without it: no response is handed
\* over twice to the same thread.
TrueMeansFinalResponse ==
    \A t \in Threads :
        result[t] = "TRUE" =>
            /\ waiter[t].frame.status = "FINAL"
            /\ LET c == waiter[t].frame.call
               IN  /\ Code[c] = Code[Call(t)]
                   /\ c[1] = t => c = Call(t) \/ c \in gaveup
            /\ waiter[t].frame.gen = start[t]

\* "The transaction is aborted due to bus reset." (hinawa_enum_types.h:156):
\* ABORTED is reported only if the bus was reset since the transaction read the
\* generation (fw_fcp.c:454), never for a late response to an earlier command of
\* an earlier generation: such a response is read before that of the command, and
\* until then no handler can lock the waiter (fw_fcp.c:411).
AbortedOnlyByReset ==
    \A t \in Threads : result[t] = "ABORTED" => generation > start[t]

\* A transaction whose final response a handler took in time reports what the
\* response was, not a timeout (fw_fcp.c:335).
AnsweredNotTimeout ==
    \A t \in Threads : result[t] = "TIMEOUT" => ~final[t]

\* "use the finite value for safe" (fw_fcp.c:441): a transaction returns, if only
\* by its timeout.
AvcReturns ==
    \A t \in Threads : pc[t] # "idle" ~> pc[t] = "idle"
=============================================================================
