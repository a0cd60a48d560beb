------------------------- MODULE FcpTransactionProofs -------------------------
(***************************************************************************)
(* Proofs about FcpTransaction, for every number of threads, calls, bus    *)
(* resets and response sizes.  The inductive invariant is in three layers: *)
(* CoreInv (types, owners of the two levels of mutexes, members of the     *)
(* list of waiters), ResetInv (generations never decrease on the way of a  *)
(* response, and the response subaction of a command is read before the    *)
(* responses to it) and AnswerInv (a final response is the last frame of   *)
(* its call, and the frame in a buffer answers a call that wants it).      *)
(* Each layer uses the ones before it.  Only WaitersSafe has hypotheses.   *)
(***************************************************************************)
EXTENDS FcpTransaction, TLAPS

\* Where a thread is in hinawa_fw_fcp_avc_transaction_with_tstamp().
Linked == {"generation", "send", "command", "waiting", "woken"}
Holding == {"insert", "generation", "send", "command", "woken"}
Unsent == {"insert", "generation", "send"}
Early == {"insert", "generation", "send", "command"}
Late == {"waiting", "woken", "verdict"}

\* A call in progress has begun and has no result; an emission has a frame.
CallInv ==
    /\ \A t \in Threads : pc[t] # "idle" => calls[t] >= 1 /\ result[t] = "none"
    /\ disp.pc # "idle" => disp.frame \in Frames

\* Who holds which mutex: the two that traverse the list visit a waiter in one step.
LockInv ==
    /\ \A t \in Threads : wmutex[t] = IF pc[t] \in Holding THEN t ELSE "nobody"
    /\ tmutex = "disp" <=> disp.pc = "visit"
    /\ tmutex = "unbind" <=> unbind.pc = "abort"
    /\ disp.pc # "visit" => disp.rest = <<>>
    /\ unbind.pc # "abort" => unbind.rest = <<>>

\* Who is in the list: a waiter at most once, and after the return of its call only
\* if the command failed; a traversal has only waiters of the list ahead.
ListInv ==
    /\ \A i, j \in 1..Len(list) : list[i] = list[j] => i = j
    /\ \A t \in Threads :
          /\ pc[t] \in Linked => InSeq(t, list)
          /\ pc[t] \in {"insert", "verdict"} => ~InSeq(t, list)
          /\ pc[t] = "idle" /\ result[t] # "COMMAND_FAILED" => ~InSeq(t, list)
          /\ InSeq(t, disp.rest) \/ InSeq(t, unbind.rest) => InSeq(t, list)

\* Without failures of the command and without unbind no call ends that way.
CommandsSucceed ==
    ~CommandFails /\ ~Unbinds =>
        bound /\ unbind.pc = "idle" /\ \A t \in Threads : result[t] # "COMMAND_FAILED"

\* The command of call c may be on the bus.
WasSent(c) == \/ c[2] < calls[c[1]]
              \/ c[2] = calls[c[1]] /\ pc[c[1]] \notin Unsent

IsFrame(i) == queue[i].type = "fcp"
IsAck(i, c) == queue[i].type = "ack" /\ queue[i].call = c
Gen(i) == queue[i].frame.gen

\* The response subaction of t's command was handled.
Acked(t) == pc[t] \in {"waiting", "woken"} \/ (pc[t] = "command" /\ acked[t])

\* A call has no response subaction of its own before its command is sent.
AckInv == \A t \in Threads : pc[t] \in Unsent => acked[t] = FALSE

\* Nothing belongs to a command that was not sent.
SentInv ==
    /\ \A i \in 1..Len(queue) : /\ queue[i].type = "ack" => WasSent(queue[i].call)
                                /\ IsFrame(i) => WasSent(queue[i].frame.call)
    /\ \A d \in device : WasSent(d.call)
    /\ disp.pc # "idle" => WasSent(disp.frame.call)
    /\ \A t \in Threads : waiter[t].frame # NoFrame => WasSent(waiter[t].frame.call)

\* Generations grow along the way of a response: waiter, dispatcher, queue, bus.
GenInv ==
    /\ \A i \in 1..Len(queue) : IsFrame(i) =>
          /\ Gen(i) <= generation
          /\ \A j \in 1..Len(queue) : i < j /\ IsFrame(j) => Gen(i) <= Gen(j)
          /\ disp.pc # "idle" => disp.frame.gen <= Gen(i)
          /\ \A t \in Threads : waiter[t].gen <= Gen(i)
    /\ disp.pc # "idle" => /\ disp.frame.gen <= generation
                           /\ \A t \in Threads : waiter[t].gen <= disp.frame.gen
    /\ \A t \in Threads : start[t] <= generation /\ waiter[t].gen <= generation

\* Once the response subaction of the command is read, what is read after it is not
\* older than the generation of the call.
OrderInv ==
    \A t \in Threads :
        /\ pc[t] = "command" =>
              \A i, j \in 1..Len(queue) :
                  i < j /\ IsAck(i, Call(t)) /\ IsFrame(j) => start[t] <= Gen(j)
        /\ Acked(t) => \A i \in 1..Len(queue) : IsFrame(i) => start[t] <= Gen(i)
        /\ Acked(t) /\ disp.pc # "idle" => start[t] <= disp.frame.gen

\* What a waiter may hold, in each part of the call.
WaiterInv ==
    \A t \in Threads :
        /\ pc[t] \in Early => waiter[t].state = "PENDING"
        /\ pc[t] \in Late /\ waiter[t].state = "RESPONDED" => start[t] <= waiter[t].gen
        /\ result[t] = "ABORTED" => start[t] < generation

\* No frame of call c is to come.
NoMore(c) ==
    /\ \A i \in 1..Len(queue) : IsFrame(i) => queue[i].frame.call # c
    /\ \A d \in device : d.call = c => "INTERIM" \notin d.owed /\ "FINAL" \notin d.owed

\* A final response is the last frame of its call, wherever it is.
FinalInv ==
    /\ \A d, e \in device : d.call = e.call => d = e
    /\ \A i \in 1..Len(queue) : IsFrame(i) /\ queue[i].frame.status = "FINAL" =>
          /\ \A j \in 1..Len(queue) : i < j /\ IsFrame(j) =>
                queue[j].frame.call # queue[i].frame.call
          /\ \A d \in device : d.call = queue[i].frame.call =>
                "INTERIM" \notin d.owed /\ "FINAL" \notin d.owed
    /\ disp.pc # "idle" /\ disp.frame.status = "FINAL" => NoMore(disp.frame.call)
    /\ \A t \in Threads : waiter[t].frame.status = "FINAL" => NoMore(waiter[t].frame.call)

\* A call that returned its own response is over: none of its frames reaches a later
\* call of its thread.
OwnInv ==
    \A t \in Threads, k \in Nat :
        1 <= k /\ <<t, k>> \notin gaveup /\ (k < calls[t] \/ (k = calls[t] /\ pc[t] = "idle")) =>
            /\ NoMore(<<t, k>>)
            /\ disp.pc # "idle" /\ disp.frame.call = <<t, k>> => ~Acked(t)

\* The frame in the buffer of a call that is answered.
FrameInv ==
    \A t \in Threads :
        pc[t] # "idle" =>
            /\ waiter[t].state # "RESPONDED" => waiter[t].frame = NoFrame /\ waiter[t].size = Capacity
            /\ waiter[t].state = "RESPONDED" /\ waiter[t].frame = NoFrame => waiter[t].size > Capacity
            /\ waiter[t].frame # NoFrame =>
                  /\ Code[waiter[t].frame.call] = Code[Call(t)]
                  /\ start[t] <= waiter[t].frame.gen /\ waiter[t].frame.gen <= waiter[t].gen
                  /\ waiter[t].frame.call[1] = t =>
                        waiter[t].frame.call = Call(t) \/ waiter[t].frame.call \in gaveup
            /\ pc[t] = "verdict" => ~Deferred(t)

CoreInv == TypeOK /\ CallInv /\ LockInv /\ ListInv /\ CommandsSucceed
ResetInv == AckInv /\ SentInv /\ GenInv /\ OrderInv /\ WaiterInv
AnswerInv == FinalInv /\ OwnInv /\ FrameInv

USE ThreadsAssumption, SizesAssumption, BoundsAssumption, EnvironmentAssumption

-----------------------------------------------------------------------------
\* Operators.

LEMMA NoFrameFacts == NoFrame.status = "none" /\ NoFrame.gen = 0
  BY DEF NoFrame

LEMMA FrameFacts ==
    ASSUME NEW f \in Frames
    PROVE  /\ f.status \in {"INTERIM", "FINAL"} /\ f.size \in Sizes /\ f.size \in Nat
           /\ f.gen \in 0..MaxGeneration /\ f.gen \in Nat /\ f.call \in Calls /\ f # NoFrame
  <1>1. f.status \in {"INTERIM", "FINAL"} /\ f.size \in Sizes /\ f.gen \in 0..MaxGeneration
        /\ f.call \in Calls
    BY DEF Frames
  <1>2. f # NoFrame
    BY <1>1 DEF NoFrame
  <1>3. f.size \in Nat
    BY <1>1
  <1>4. \A g \in 0..MaxGeneration : g \in Nat
    OBVIOUS
  <1>5. f.gen \in Nat
    BY <1>1, <1>4
  <1> QED BY <1>1, <1>2, <1>3, <1>5

LEMMA CallFacts ==
    ASSUME NEW c \in Calls
    PROVE  /\ c[1] \in Threads /\ c[2] \in Nat /\ c[2] >= 1 /\ c[2] <= MaxCalls[c[1]]
           /\ c = <<c[1], c[2]>>
  BY DEF Calls

LEMMA CallIs ==
    ASSUME NEW t \in Threads, ThreadTypeOK, calls[t] >= 1
    PROVE  Call(t) \in Calls /\ Call(t)[1] = t /\ Call(t)[2] = calls[t]
  <1>1. calls[t] \in 1..MaxCalls[t]
    BY DEF ThreadTypeOK
  <1> QED BY <1>1 DEF Call, Calls

LEMMA NewWaiterType == NewWaiter \in Waiters /\ NewWaiter.state = "PENDING" /\ NewWaiter.gen = 0
                       /\ NewWaiter.frame = NoFrame /\ NewWaiter.size = Capacity
  BY DEF NewWaiter, Waiters

LEMMA WaiterFacts ==
    ASSUME NEW w \in Waiters
    PROVE  /\ w.state \in {"PENDING", "RESPONDED", "ABORTED"} /\ w.gen \in 0..MaxGeneration
           /\ w.gen \in Nat /\ w.size \in Nat /\ w.frame \in Frames \cup {NoFrame}
  <1>1. /\ w.state \in {"PENDING", "RESPONDED", "ABORTED"} /\ w.gen \in 0..MaxGeneration
        /\ w.size \in Sizes \cup {Capacity} /\ w.frame \in Frames \cup {NoFrame}
    BY DEF Waiters
  <1>2. w.size \in Nat
    BY <1>1
  <1>3. \A g \in 0..MaxGeneration : g \in Nat
    OBVIOUS
  <1>4. w.gen \in Nat
    BY <1>1, <1>3
  <1> QED BY <1>1, <1>2, <1>4

LEMMA RespondedType ==
    ASSUME NEW w \in Waiters, NEW f \in Frames
    PROVE  /\ Responded(w, f) \in Waiters
           /\ Responded(w, f).state = "RESPONDED" /\ Responded(w, f).gen = f.gen
           /\ Responded(w, f).size = f.size
           /\ Responded(w, f).frame = IF f.size <= w.size THEN f ELSE w.frame
  BY WaiterFacts, FrameFacts DEF Responded, Waiters

\* Unlinking keeps the others, in their order.
LEMMA WithoutFacts ==
    ASSUME NEW s \in Seq(Threads), NEW t \in Threads, InSeq(t, s),
           \A i, j \in 1..Len(s) : s[i] = s[j] => i = j
    PROVE  /\ Without(s, t) \in Seq(Threads)
           /\ \A i, j \in 1..Len(Without(s, t)) :
                Without(s, t)[i] = Without(s, t)[j] => i = j
           /\ ~InSeq(t, Without(s, t))
           /\ \A u \in Threads : u # t /\ InSeq(u, s) => InSeq(u, Without(s, t))
           /\ \A u : InSeq(u, Without(s, t)) => InSeq(u, s)
  <1> DEFINE k == CHOOSE i \in 1..Len(s) : s[i] = t
             r == [i \in 1..(Len(s) - 1) |-> IF i < k THEN s[i] ELSE s[i + 1]]
  <1>1. k \in 1..Len(s) /\ s[k] = t
    BY DEF InSeq
  <1>2. Without(s, t) = r
    BY DEF Without
  <1> HIDE DEF k
  <1>3. Len(s) \in Nat /\ Len(s) - 1 \in Nat
    BY <1>1
  <1>4. r \in Seq(Threads) /\ Len(r) = Len(s) - 1
    BY <1>1, <1>3
  <1>5. \A i \in 1..Len(r) : r[i] = IF i < k THEN s[i] ELSE s[i + 1]
    BY <1>4
  <1> HIDE DEF r
  <1>6. ASSUME NEW i \in 1..Len(r)
        PROVE  \E m \in 1..Len(s) : m = (IF i < k THEN i ELSE i + 1) /\ r[i] = s[m] /\ m # k
    <2>1. CASE i < k
      <3>1. i \in 1..Len(s) /\ i # k /\ r[i] = s[i]
        BY <1>1, <1>3, <1>4, <1>5, <2>1
      <3> QED BY <2>1, <3>1
    <2>2. CASE ~(i < k)
      <3>1. i + 1 \in 1..Len(s) /\ i + 1 # k
        BY <1>1, <1>3, <1>4, <2>2
      <3>2. r[i] = s[i + 1]
        BY <1>5, <2>2
      <3> QED BY <2>2, <3>1, <3>2
    <2> QED BY <2>1, <2>2
  <1>7. \A i, j \in 1..Len(r) : r[i] = r[j] => i = j
    <2> SUFFICES ASSUME NEW i \in 1..Len(r), NEW j \in 1..Len(r), r[i] = r[j] PROVE i = j
      OBVIOUS
    <2>1. PICK m \in 1..Len(s) : m = (IF i < k THEN i ELSE i + 1) /\ r[i] = s[m]
      BY <1>6
    <2>2. PICK n \in 1..Len(s) : n = (IF j < k THEN j ELSE j + 1) /\ r[j] = s[n]
      BY <1>6
    <2>3. m = n
      BY <2>1, <2>2
    <2>4. k \in Nat /\ i \in Nat /\ j \in Nat
      BY <1>1, <1>3, <1>4
    <2> QED BY <2>1, <2>2, <2>3, <2>4
  <1>8. ~InSeq(t, r)
    BY <1>1, <1>6 DEF InSeq
  <1>9. \A u \in Threads : u # t /\ InSeq(u, s) => InSeq(u, r)
    <2> SUFFICES ASSUME NEW u \in Threads, u # t, InSeq(u, s) PROVE InSeq(u, r)
      OBVIOUS
    <2>1. PICK m \in 1..Len(s) : s[m] = u
      BY DEF InSeq
    <2>2. m # k
      BY <1>1, <2>1
    <2>3. CASE m < k
      <3>1. m \in 1..Len(r) /\ r[m] = u
        BY <1>1, <1>3, <1>4, <1>5, <2>1, <2>3
      <3> QED BY <3>1 DEF InSeq
    <2>4. CASE m > k
      <3>1. m - 1 \in 1..Len(r) /\ ~(m - 1 < k) /\ (m - 1) + 1 = m
        BY <1>1, <1>3, <1>4, <2>4
      <3>2. r[m - 1] = u
        BY <1>5, <2>1, <3>1
      <3> QED BY <3>1, <3>2 DEF InSeq
    <2> QED BY <1>1, <2>2, <2>3, <2>4
  <1>10. \A u : InSeq(u, r) => InSeq(u, s)
    BY <1>6 DEF InSeq
  <1> QED BY <1>2, <1>4, <1>7, <1>8, <1>9, <1>10

\* The rest of a queue: what was read is gone, everything else is one place nearer.
LEMMA TailFacts ==
    ASSUME NEW S, NEW q \in Seq(S), q # <<>>
    PROVE  /\ Head(q) \in S /\ Head(q) = q[1] /\ Tail(q) \in Seq(S) /\ 1 \in 1..Len(q)
           /\ Len(Tail(q)) = Len(q) - 1
           /\ \A i \in 1..Len(Tail(q)) : i + 1 \in 1..Len(q) /\ Tail(q)[i] = q[i + 1]
  OBVIOUS

LEMMA InTail ==
    ASSUME NEW s \in Seq(Threads), s # <<>>, NEW u, InSeq(u, Tail(s))
    PROVE  InSeq(u, s)
  BY TailFacts DEF InSeq

LEMMA AppendFacts ==
    ASSUME NEW S, NEW q \in Seq(S), NEW e \in S
    PROVE  /\ Append(q, e) \in Seq(S) /\ Len(Append(q, e)) = Len(q) + 1 /\ Len(q) \in Nat
           /\ \A i \in 1..Len(q) : i \in 1..Len(Append(q, e)) /\ Append(q, e)[i] = q[i]
           /\ Append(q, e)[Len(q) + 1] = e
           /\ \A i \in 1..Len(Append(q, e)) : i \in 1..Len(q) \/ i = Len(q) + 1
  OBVIOUS

LEMMA PrependFacts ==
    ASSUME NEW s \in Seq(Threads), NEW t \in Threads
    PROVE  /\ <<t>> \o s \in Seq(Threads) /\ Len(<<t>> \o s) = Len(s) + 1 /\ Len(s) \in Nat
           /\ (<<t>> \o s)[1] = t
           /\ \A i \in 1..Len(s) : i + 1 \in 1..Len(<<t>> \o s) /\ (<<t>> \o s)[i + 1] = s[i]
           /\ \A i \in 1..Len(<<t>> \o s) : i # 1 => i - 1 \in 1..Len(s) /\ (<<t>> \o s)[i] = s[i - 1]
           /\ \A u : InSeq(u, <<t>> \o s) <=> u = t \/ InSeq(u, s)
  <1> DEFINE r == <<t>> \o s
  <1>1. r \in Seq(Threads) /\ Len(r) = Len(s) + 1 /\ Len(s) \in Nat /\ r[1] = t
    OBVIOUS
  <1>2. \A i \in 1..Len(s) : i + 1 \in 1..Len(r) /\ r[i + 1] = s[i]
    OBVIOUS
  <1>3. \A i \in 1..Len(r) : i # 1 => i - 1 \in 1..Len(s) /\ r[i] = s[i - 1]
    OBVIOUS
  <1> HIDE DEF r
  <1>4. \A u : InSeq(u, r) => u = t \/ InSeq(u, s)
    BY <1>1, <1>3 DEF InSeq
  <1>5. \A u : InSeq(u, s) => InSeq(u, r)
    <2> SUFFICES ASSUME NEW u, InSeq(u, s) PROVE InSeq(u, r)
      OBVIOUS
    <2>1. PICK i \in 1..Len(s) : s[i] = u
      BY DEF InSeq
    <2>2. i + 1 \in 1..Len(r) /\ r[i + 1] = u
      BY <1>2, <2>1
    <2> QED BY <2>2 DEF InSeq
  <1>6. InSeq(t, r)
    <2>1. 1 \in 1..Len(r)
      BY <1>1
    <2> QED BY <1>1, <2>1 DEF InSeq
  <1> QED BY <1>1, <1>2, <1>3, <1>4, <1>5, <1>6 DEF r

-----------------------------------------------------------------------------
\* Types and calls.

LEMMA CoreInit == Init => CoreInv
  <1> SUFFICES ASSUME Init PROVE CoreInv
    OBVIOUS
  <1> USE DEF Init
  <1>1. FlagTypeOK
    BY DEF FlagTypeOK
  <1>2. ThreadTypeOK
    BY NewWaiterType DEF ThreadTypeOK
  <1>3. LockTypeOK /\ BusTypeOK
    BY DEF LockTypeOK, BusTypeOK
  <1>4. CallInv
    BY DEF CallInv
  <1>5. LockInv
    BY DEF LockInv, Holding
  <1>6. ListInv
    BY DEF ListInv, InSeq, Linked
  <1>7. CommandsSucceed
    BY DEF CommandsSucceed
  <1> QED BY <1>1, <1>2, <1>3, <1>4, <1>5, <1>6, <1>7 DEF CoreInv, TypeOK

LEMMA FlagNext == TypeOK /\ [Next]_vars => FlagTypeOK'
  <1> SUFFICES ASSUME TypeOK, [Next]_vars PROVE FlagTypeOK'
    OBVIOUS
  <1> USE DEF TypeOK, FlagTypeOK
  <1>1. ASSUME NEW t \in Threads, Begin(t) PROVE FlagTypeOK'
    BY <1>1, Zenon DEF Begin, outside
  <1>2. ASSUME NEW t \in Threads, ThreadStep(t) PROVE FlagTypeOK'
    <2>1. UNCHANGED <<acked, final, bound>>
      BY <1>2 DEF ThreadStep, Insert, ReadGeneration, SendCommand, CommandDone, CommandFailed,
                  Wake, Expire, WaitAgain, Remove, Finish, outside
    <2> QED BY <2>1, Zenon
  <1>3. CASE DispatchAck
    <2>1. acked' \in [Threads -> BOOLEAN]
      BY <1>3, Zenon DEF DispatchAck
    <2> QED BY <1>3, <2>1, Zenon DEF DispatchAck
  <1>4. CASE Visit
    <2>1. final' \in [Threads -> BOOLEAN]
      BY <1>4, Zenon DEF Visit
    <2> QED BY <1>4, <2>1, Zenon DEF Visit, thread, outside
  <1>5. CASE Release
    <2>1. bound' = FALSE /\ UNCHANGED <<acked, final>>
      BY <1>5 DEF Release, thread
    <2> QED BY <2>1, Zenon
  <1>6. CASE DispatchResponse \/ EnterHandler \/ LeaveHandler \/ EmitDone
             \/ AbortBegin \/ Abort \/ AbortEnd
    <2>1. UNCHANGED <<acked, final, bound>>
      BY <1>6 DEF DispatchResponse, EnterHandler, LeaveHandler, EmitDone, AbortBegin, Abort,
                  AbortEnd, thread, outside
    <2> QED BY <2>1, Zenon
  <1>7. CASE Ack \/ Interim \/ FinalAnswer \/ BusReset \/ UNCHANGED vars
    <2>1. UNCHANGED <<acked, final, bound>>
      BY <1>7 DEF Ack, Interim, FinalAnswer, BusReset, Sent, vars, thread, outside
    <2> QED BY <2>1, Zenon
  <1> QED BY <1>1, <1>2, <1>3, <1>4, <1>5, <1>6, <1>7 DEF Next, DispatcherStep, UnbindStep

LEMMA ThreadNext == TypeOK /\ CallInv /\ [Next]_vars => ThreadTypeOK'
  <1> SUFFICES ASSUME TypeOK, CallInv, [Next]_vars PROVE ThreadTypeOK'
    OBVIOUS
  <1>0. ThreadTypeOK /\ BusTypeOK
    BY DEF TypeOK
  <1> USE DEF ThreadTypeOK
  <1>1. ASSUME NEW t \in Threads, Begin(t) PROVE ThreadTypeOK'
    BY <1>0, <1>1, NewWaiterType DEF Begin
  <1>2. ASSUME NEW t \in Threads, ThreadStep(t) PROVE ThreadTypeOK'
    <2>1. CASE Insert(t) \/ CommandDone(t) \/ Wake(t) \/ Expire(t) \/ Remove(t)
      BY <1>0, <2>1 DEF Insert, CommandDone, Wake, Expire, Remove
    <2>2. CASE ReadGeneration(t)
      BY <1>0, <2>2 DEF ReadGeneration, BusTypeOK
    <2>3. CASE SendCommand(t)
      BY <1>0, <2>3 DEF SendCommand
    <2>4. CASE CommandFailed(t)
      <3>1. Call(t) \in Calls
        BY <1>0, <2>4, CallIs DEF CommandFailed, CallInv
      <3>2. /\ UNCHANGED <<calls, waiter, start, acked, final>> /\ gaveup' = gaveup \cup {Call(t)}
            /\ pc' = [pc EXCEPT ![t] = "idle"] /\ result' = [result EXCEPT ![t] = "COMMAND_FAILED"]
        BY <2>4 DEF CommandFailed
      <3> QED BY <1>0, <3>1, <3>2
    <2>5. CASE WaitAgain(t)
      <3>1. [waiter[t] EXCEPT !.state = "PENDING", !.frame = NoFrame, !.size = Capacity] \in Waiters
        BY <1>0 DEF Waiters
      <3>2. waiter' = [waiter EXCEPT ![t] = [waiter[t] EXCEPT !.state = "PENDING",
                                                              !.frame = NoFrame, !.size = Capacity]]
        BY <1>0, <2>5 DEF WaitAgain, Waiters
      <3> QED BY <1>0, <2>5, <3>1, <3>2 DEF WaitAgain
    <2>6. CASE Finish(t)
      <3>1. Call(t) \in Calls
        BY <1>0, <2>6, CallIs DEF Finish, CallInv
      <3>2. Verdict(t) \in {"TRUE", "TIMEOUT", "ABORTED", "LARGE_RESP"}
        BY DEF Verdict
      <3> QED BY <1>0, <2>6, <3>1, <3>2 DEF Finish
    <2> QED BY <1>2, <2>1, <2>2, <2>3, <2>4, <2>5, <2>6 DEF ThreadStep
  <1>3. CASE Visit
    <2>1. PICK t \in Threads : t = Head(disp.rest)
      BY <1>0, <1>3 DEF Visit, BusTypeOK
    <2>2. disp.frame \in Frames /\ waiter[t] \in Waiters
      BY <1>0, <1>3, <2>1 DEF Visit, CallInv
    <2>3. PICK w \in Waiters : waiter' = [waiter EXCEPT ![t] = w]
      BY <1>3, <2>1, <2>2, RespondedType DEF Visit
    <2>4. UNCHANGED <<pc, calls, start, result, gaveup>>
      BY <1>3 DEF Visit, thread
    <2>5. waiter' \in [Threads -> Waiters]
      BY <1>0, <2>3
    <2> QED BY <1>0, <2>4, <2>5
  <1>4. CASE Abort
    <2>1. PICK t \in Threads : t = Head(unbind.rest)
      BY <1>0, <1>4 DEF Abort, BusTypeOK
    <2>2. waiter[t] \in Waiters
      BY <1>0
    <2>3. PICK w \in Waiters : waiter' = [waiter EXCEPT ![t] = w]
      <3>1. \A s \in {"PENDING", "RESPONDED", "ABORTED"} : [waiter[t] EXCEPT !.state = s] \in Waiters
        BY <2>2 DEF Waiters
      <3>2. PICK s \in {"PENDING", "RESPONDED", "ABORTED"} :
                waiter' = [waiter EXCEPT ![t].state = s]
        BY <1>0, <1>4, <2>1, <2>2, WaiterFacts DEF Abort
      <3> QED BY <1>0, <3>1, <3>2
    <2>4. UNCHANGED <<pc, calls, start, result, gaveup>>
      BY <1>4 DEF Abort, thread
    <2>5. waiter' \in [Threads -> Waiters]
      BY <1>0, <2>3
    <2> QED BY <1>0, <2>4, <2>5
  <1>5. CASE DispatchAck \/ DispatchResponse \/ EnterHandler \/ LeaveHandler \/ EmitDone
             \/ Release \/ AbortBegin \/ AbortEnd
    BY <1>0, <1>5 DEF DispatchAck, DispatchResponse, EnterHandler, LeaveHandler, EmitDone, Release,
                      AbortBegin, AbortEnd, thread
  <1>6. CASE Ack \/ Interim \/ FinalAnswer \/ BusReset \/ UNCHANGED vars
    BY <1>0, <1>6 DEF Ack, Interim, FinalAnswer, BusReset, Sent, vars, thread
  <1> QED BY <1>1, <1>2, <1>3, <1>4, <1>5, <1>6 DEF Next, DispatcherStep, UnbindStep

LEMMA LockTypeNext == CoreInv /\ [Next]_vars => LockTypeOK'
  <1> SUFFICES ASSUME CoreInv, [Next]_vars PROVE LockTypeOK'
    OBVIOUS
  <1>0. LockTypeOK
    BY DEF CoreInv, TypeOK
  <1> USE DEF LockTypeOK
  <1>1. ASSUME NEW t \in Threads, Begin(t) \/ ThreadStep(t) PROVE LockTypeOK'
    <2>1. CASE Begin(t)
      BY <1>0, <2>1 DEF Begin
    <2>2. CASE Insert(t)
      BY <1>0, <2>2, PrependFacts DEF Insert
    <2>3. CASE ReadGeneration(t) \/ SendCommand(t) \/ CommandDone(t) \/ CommandFailed(t) \/ Wake(t)
               \/ Expire(t) \/ WaitAgain(t) \/ Finish(t)
      <3>1. CASE ReadGeneration(t) \/ SendCommand(t) \/ CommandDone(t) \/ CommandFailed(t)
        BY <1>0, <3>1 DEF ReadGeneration, SendCommand, CommandDone, CommandFailed, locks
      <3>2. CASE Wake(t) \/ Expire(t) \/ WaitAgain(t) \/ Finish(t)
        BY <1>0, <3>2 DEF Wake, Expire, WaitAgain, Finish, locks
      <3> QED BY <2>3, <3>1, <3>2
    <2>4. CASE Remove(t)
      <3>1. InSeq(t, list) /\ \A i, j \in 1..Len(list) : list[i] = list[j] => i = j
        BY <2>4 DEF Remove, CoreInv, ListInv, Linked
      <3>2. list' \in Seq(Threads)
        BY <1>0, <2>4, <3>1, WithoutFacts DEF Remove
      <3> QED BY <1>0, <2>4, <3>2 DEF Remove
    <2> QED BY <1>1, <2>1, <2>2, <2>3, <2>4 DEF ThreadStep
  <1>2. CASE DispatcherStep
    BY <1>0, <1>2 DEF DispatcherStep, DispatchAck, DispatchResponse, EnterHandler, Visit,
                      LeaveHandler, EmitDone, locks
  <1>3. CASE UnbindStep
    BY <1>0, <1>3 DEF UnbindStep, Release, AbortBegin, Abort, AbortEnd, locks
  <1>4. CASE Ack \/ Interim \/ FinalAnswer \/ BusReset \/ UNCHANGED vars
    BY <1>0, <1>4 DEF Ack, Interim, FinalAnswer, BusReset, Sent, vars, locks
  <1> QED BY <1>1, <1>2, <1>3, <1>4 DEF Next

\* What the target sends is an event; the device then owes less.
LEMMA SentTypes ==
    ASSUME BusTypeOK, Ack \/ Interim \/ FinalAnswer
    PROVE  \E d \in device, e \in Events, rest \in SUBSET Owed :
              /\ d.call \in Calls /\ d.owed \in SUBSET Owed /\ Sent(d, e, rest)
              /\ rest \subseteq d.owed
              /\ \/ e.type = "ack" /\ e.call = d.call /\ rest = d.owed \ {"ack"}
                 \/ /\ e.type = "fcp" /\ e.frame \in Frames
                    /\ e.frame.call = d.call /\ e.frame.gen = generation
                    /\ \/ /\ e.frame.status = "INTERIM" /\ "INTERIM" \in d.owed
                          /\ rest = d.owed \ {"INTERIM"}
                       \/ /\ e.frame.status = "FINAL" /\ "FINAL" \in d.owed
                          /\ rest = d.owed \ {"INTERIM", "FINAL"}
  <1>1. \A d \in device : d.call \in Calls /\ d.owed \in SUBSET Owed
    BY DEF BusTypeOK
  <1>2. CASE Ack
    <2>1. PICK d \in device : Sent(d, [type |-> "ack", call |-> d.call], d.owed \ {"ack"})
      BY <1>2 DEF Ack
    <2>2. [type |-> "ack", call |-> d.call] \in Events
      BY <1>1 DEF Events
    <2> DEFINE e == [type |-> "ack", call |-> d.call]
    <2>3. e.type = "ack" /\ e.call = d.call
      OBVIOUS
    <2> HIDE DEF e
    <2>4. Sent(d, e, d.owed \ {"ack"}) /\ e \in Events
      BY <2>1, <2>2 DEF e
    <2> QED BY <1>1, <2>3, <2>4
  <1>3. ASSUME NEW d \in device, NEW size \in Sizes, NEW st \in {"INTERIM", "FINAL"},
               NEW rest, rest \subseteq d.owed, Sent(d, Response(d, st, size), rest)
        PROVE  \E e \in Events : /\ Sent(d, e, rest) /\ e.type = "fcp" /\ e.frame \in Frames
                                 /\ e.frame.call = d.call /\ e.frame.gen = generation
                                 /\ e.frame.status = st
    <2> DEFINE f == [status |-> st, size |-> size, gen |-> generation, call |-> d.call]
               e == [type |-> "fcp", frame |-> f]
    <2>1. f \in Frames /\ f.call = d.call /\ f.gen = generation /\ f.status = st
      BY <1>1 DEF Frames, BusTypeOK
    <2>2. Sent(d, e, rest)
      BY <1>3 DEF Response
    <2> HIDE DEF f
    <2>3. e \in Events /\ e.type = "fcp" /\ e.frame = f
      BY <2>1 DEF Events
    <2> HIDE DEF e
    <2> QED BY <2>1, <2>2, <2>3
  <1>4. CASE Interim
    <2>1. PICK d \in device, size \in Sizes :
              "INTERIM" \in d.owed /\ Sent(d, Response(d, "INTERIM", size), d.owed \ {"INTERIM"})
      BY <1>4 DEF Interim
    <2>2. PICK e \in Events : /\ Sent(d, e, d.owed \ {"INTERIM"}) /\ e.type = "fcp"
                              /\ e.frame \in Frames /\ e.frame.call = d.call
                              /\ e.frame.gen = generation /\ e.frame.status = "INTERIM"
      BY <1>3, <2>1
    <2> QED BY <1>1, <2>1, <2>2
  <1>5. CASE FinalAnswer
    <2>1. PICK d \in device, size \in Sizes :
              /\ "FINAL" \in d.owed
              /\ Sent(d, Response(d, "FINAL", size), d.owed \ {"INTERIM", "FINAL"})
      BY <1>5 DEF FinalAnswer
    <2>2. PICK e \in Events : /\ Sent(d, e, d.owed \ {"INTERIM", "FINAL"}) /\ e.type = "fcp"
                              /\ e.frame \in Frames /\ e.frame.call = d.call
                              /\ e.frame.gen = generation /\ e.frame.status = "FINAL"
      BY <1>3, <2>1
    <2> QED BY <1>1, <2>1, <2>2
  <1> QED BY <1>2, <1>4, <1>5

LEMMA HeadFrame ==
    ASSUME BusTypeOK, queue # <<>>, Head(queue).type = "fcp"
    PROVE  Head(queue).frame \in Frames
  <1>1. Head(queue) \in Events
    BY DEF BusTypeOK
  <1> QED BY <1>1 DEF Events

LEMMA BusTypeNext == CoreInv /\ [Next]_vars => BusTypeOK' /\ CallInv'
  <1> SUFFICES ASSUME CoreInv, [Next]_vars PROVE BusTypeOK' /\ CallInv'
    OBVIOUS
  <1>0. BusTypeOK /\ CallInv /\ ThreadTypeOK /\ LockTypeOK
    BY DEF CoreInv, TypeOK
  <1> USE DEF BusTypeOK, CallInv
  <1>1. ASSUME NEW t \in Threads, Begin(t) \/ ThreadStep(t) PROVE BusTypeOK' /\ CallInv'
    <2>1. CASE Begin(t)
      BY <1>0, <2>1 DEF Begin, outside, ThreadTypeOK
    <2>2. CASE Insert(t) \/ ReadGeneration(t) \/ CommandDone(t) \/ Wake(t) \/ Expire(t)
               \/ WaitAgain(t) \/ Finish(t)
      <3>1. CASE Insert(t) \/ ReadGeneration(t) \/ CommandDone(t)
        BY <1>0, <3>1 DEF Insert, ReadGeneration, CommandDone, outside, ThreadTypeOK
      <3>2. CASE Wake(t) \/ Expire(t) \/ WaitAgain(t) \/ Finish(t)
        BY <1>0, <3>2 DEF Wake, Expire, WaitAgain, Finish, outside, ThreadTypeOK
      <3> QED BY <2>2, <3>1, <3>2
    <2>3. CASE SendCommand(t)
      <3>1. Call(t) \in Calls
        BY <1>0, <2>3, CallIs DEF SendCommand
      <3>2. [call |-> Call(t), owed |-> Owed] \in [call: Calls, owed: SUBSET Owed]
        BY <3>1
      <3> QED BY <1>0, <2>3, <3>2 DEF SendCommand, ThreadTypeOK
    <2>4. CASE CommandFailed(t) \/ Remove(t)
      <3>1. /\ disp' = [disp EXCEPT !.todo = @ \ {t}]
            /\ UNCHANGED <<generation, device, queue, unbind, calls>>
        BY <2>4 DEF CommandFailed, Remove, outside
      <3>2. disp'.pc = disp.pc /\ disp'.frame = disp.frame
        BY <1>0, <3>1
      <3>3. BusTypeOK'
        BY <1>0, <3>1
      <3>4. \A u \in Threads : pc'[u] # "idle" => pc[u] # "idle" /\ result'[u] = result[u]
        BY <1>0, <2>4 DEF CommandFailed, Remove, ThreadTypeOK
      <3>5. CallInv'
        BY <1>0, <3>1, <3>2, <3>4
      <3> QED BY <3>3, <3>5
    <2> QED BY <1>1, <2>1, <2>2, <2>3, <2>4 DEF ThreadStep
  <1>2. CASE DispatchAck
    BY <1>0, <1>2, TailFacts DEF DispatchAck
  <1>3. CASE DispatchResponse
    <2>1. queue' \in Seq(Events) /\ Head(queue).frame \in Frames
      BY <1>0, <1>3, TailFacts, HeadFrame DEF DispatchResponse
    <2>2. UNCHANGED <<pc, calls, result, generation, device, unbind>>
      BY <1>3 DEF DispatchResponse, thread
    <2>3. CASE disp' = disp
      BY <1>0, <2>1, <2>2, <2>3
    <2>4. CASE disp' = [disp EXCEPT !.pc = "emit", !.frame = Head(queue).frame, !.todo = connected]
      BY <1>0, <2>1, <2>2, <2>4 DEF LockTypeOK
    <2> QED BY <1>3, <2>3, <2>4 DEF DispatchResponse
  <1>4. CASE EnterHandler \/ LeaveHandler \/ EmitDone
    <2>1. UNCHANGED <<pc, calls, result, generation, device, queue, unbind>>
      BY <1>4 DEF EnterHandler, LeaveHandler, EmitDone, thread, outside
    <2>2. CASE EnterHandler
      <3>1. PICK t \in disp.todo : disp' = [disp EXCEPT !.pc = "visit", !.todo = @ \ {t}, !.rest = list]
        BY <2>2 DEF EnterHandler
      <3>2. BusTypeOK' /\ disp.pc = "emit" /\ disp'.frame = disp.frame
        BY <1>0, <2>1, <2>2, <3>1 DEF LockTypeOK, EnterHandler
      <3> QED BY <1>0, <2>1, <3>2
    <2>3. CASE LeaveHandler
      BY <1>0, <2>1, <2>3 DEF LeaveHandler
    <2>4. CASE EmitDone
      BY <1>0, <2>1, <2>4 DEF EmitDone
    <2> QED BY <1>4, <2>2, <2>3, <2>4
  <1>5. CASE Visit
    <2>1. Tail(disp.rest) \in Seq(Threads)
      BY <1>0, <1>5 DEF Visit
    <2> QED BY <1>0, <1>5, <2>1 DEF Visit, thread, outside
  <1>6. CASE UnbindStep
    <2>1. unbind.rest # <<>> => Tail(unbind.rest) \in Seq(Threads)
      BY <1>0
    <2>2. UNCHANGED <<pc, calls, result, generation, device, queue, disp>>
      BY <1>6 DEF UnbindStep, Release, AbortBegin, Abort, AbortEnd, thread, outside
    <2>3. unbind' \in [pc: {"idle", "lock", "abort", "done"}, rest: Seq(Threads)]
      <3>1. CASE Release \/ AbortEnd
        BY <1>0, <3>1 DEF Release, AbortEnd
      <3>2. CASE AbortBegin
        BY <1>0, <3>2 DEF AbortBegin, LockTypeOK
      <3>3. CASE Abort
        BY <1>0, <2>1, <3>3 DEF Abort
      <3> QED BY <1>6, <3>1, <3>2, <3>3 DEF UnbindStep
    <2> QED BY <1>0, <2>2, <2>3
  <1>7. CASE Ack \/ Interim \/ FinalAnswer
    <2>1. PICK d \in device, e \in Events, rest \in SUBSET Owed : Sent(d, e, rest) /\ d.call \in Calls
      BY <1>0, <1>7, SentTypes
    <2>2. [d EXCEPT !.owed = rest] \in [call: Calls, owed: SUBSET Owed]
      BY <1>0
    <2>3. queue' \in Seq(Events)
      BY <1>0, <2>1, AppendFacts DEF Sent
    <2> QED BY <1>0, <2>1, <2>2, <2>3 DEF Sent, thread
  <1>8. CASE BusReset \/ UNCHANGED vars
    BY <1>0, <1>8 DEF BusReset, vars, thread, outside
  <1> QED BY <1>1, <1>2, <1>3, <1>4, <1>5, <1>6, <1>7, <1>8 DEF Next, DispatcherStep

-----------------------------------------------------------------------------
\* Locks and the list.

LEMMA LockNext == CoreInv /\ [Next]_vars => LockInv'
  <1> SUFFICES ASSUME CoreInv, [Next]_vars PROVE LockInv'
    OBVIOUS
  <1>0. LockInv /\ ThreadTypeOK /\ LockTypeOK /\ BusTypeOK
    BY DEF CoreInv, TypeOK
  <1> USE DEF LockInv
  <1>1. ASSUME NEW t \in Threads, Begin(t) \/ ThreadStep(t) PROVE LockInv'
    <2>1. \A u \in Threads \ {t} : pc'[u] = pc[u] /\ wmutex'[u] = wmutex[u]
      BY <1>0, <1>1 DEF ThreadTypeOK, LockTypeOK, Begin, ThreadStep, Insert, ReadGeneration,
                        SendCommand, CommandDone, CommandFailed, Wake, Expire, WaitAgain, Remove,
                        Finish, locks
    <2>2. wmutex'[t] = IF pc'[t] \in Holding THEN t ELSE "nobody"
      BY <1>0, <1>1 DEF ThreadTypeOK, LockTypeOK, Begin, ThreadStep, Insert, ReadGeneration,
                        SendCommand, CommandDone, CommandFailed, Wake, Expire, WaitAgain, Remove,
                        Finish, locks, Holding
    <2>3. UNCHANGED <<tmutex, unbind>> /\ disp'.pc = disp.pc /\ disp'.rest = disp.rest
      BY <1>0, <1>1 DEF BusTypeOK, Begin, ThreadStep, Insert, ReadGeneration, SendCommand,
                        CommandDone, CommandFailed, Wake, Expire, WaitAgain, Remove, Finish, locks
    <2> QED BY <1>0, <2>1, <2>2, <2>3
  <1>2. CASE DispatcherStep
    <2>1. UNCHANGED <<pc, wmutex, unbind>>
      BY <1>2 DEF DispatcherStep, DispatchAck, DispatchResponse, EnterHandler, Visit, LeaveHandler,
                  EmitDone, locks, thread
    <2>2. CASE DispatchAck \/ DispatchResponse \/ EmitDone
      <3>1. tmutex' = tmutex /\ disp.pc # "visit"
        BY <2>2 DEF DispatchAck, DispatchResponse, EmitDone, locks
      <3>2. disp'.pc # "visit" /\ disp'.rest = disp.rest
        <4>1. CASE DispatchAck \/ EmitDone
          BY <1>0, <4>1 DEF BusTypeOK, DispatchAck, EmitDone
        <4>2. CASE DispatchResponse
          <5>1. CASE disp' = disp
            BY <3>1, <5>1
          <5>2. CASE disp' # disp
            BY <1>0, <4>2, <5>2 DEF BusTypeOK, DispatchResponse
          <5> QED BY <5>1, <5>2
        <4> QED BY <2>2, <4>1, <4>2
      <3> QED BY <1>0, <2>1, <3>1, <3>2
    <2>3. CASE EnterHandler
      <3>1. disp'.pc = "visit" /\ tmutex' = "disp" /\ tmutex = "nobody"
        BY <1>0, <2>3 DEF BusTypeOK, EnterHandler
      <3> QED BY <1>0, <2>1, <3>1
    <2>4. CASE Visit \/ LeaveHandler
      BY <1>0, <2>1, <2>4 DEF BusTypeOK, Visit, LeaveHandler, locks
    <2> QED BY <1>2, <2>2, <2>3, <2>4 DEF DispatcherStep
  <1>3. CASE UnbindStep
    <2>1. UNCHANGED <<pc, wmutex, disp>>
      BY <1>3 DEF UnbindStep, Release, AbortBegin, Abort, AbortEnd, locks, thread
    <2> QED BY <1>0, <1>3, <2>1 DEF BusTypeOK, UnbindStep, Release, AbortBegin, Abort, AbortEnd, locks
  <1>4. CASE Ack \/ Interim \/ FinalAnswer \/ BusReset \/ UNCHANGED vars
    <2>1. UNCHANGED <<pc, wmutex, tmutex, disp, unbind>>
      BY <1>4 DEF Ack, Interim, FinalAnswer, BusReset, Sent, vars, thread, locks
    <2> QED BY <1>0, <2>1
  <1> QED BY <1>1, <1>2, <1>3, <1>4 DEF Next

LEMMA ListNext == CoreInv /\ [Next]_vars => ListInv'
  <1> SUFFICES ASSUME CoreInv, [Next]_vars PROVE ListInv'
    OBVIOUS
  <1>0. ListInv /\ LockInv /\ ThreadTypeOK /\ LockTypeOK /\ BusTypeOK
    BY DEF CoreInv, TypeOK
  <1>1. ASSUME NEW t \in Threads, Begin(t) \/ ThreadStep(t) PROVE ListInv'
    <2>1. /\ unbind' = unbind /\ disp'.rest = disp.rest
          /\ \A u \in Threads \ {t} : pc'[u] = pc[u] /\ result'[u] = result[u]
      BY <1>0, <1>1 DEF ThreadTypeOK, BusTypeOK, Begin, ThreadStep, Insert, ReadGeneration,
                        SendCommand, CommandDone, CommandFailed, Wake, Expire, WaitAgain, Remove,
                        Finish
    <2>2. CASE Begin(t)
      <3>1. pc'[t] = "insert" /\ ~InSeq(t, list) /\ list' = list
        BY <1>0, <2>2 DEF Begin, ThreadTypeOK
      <3> QED BY <1>0, <2>1, <3>1 DEF ListInv, Linked
    <2>3. CASE Insert(t)
      <3>1. pc'[t] = "generation" /\ ~InSeq(t, list) /\ list' = <<t>> \o list
        BY <1>0, <2>3 DEF Insert, ThreadTypeOK, ListInv
      <3>2. disp.rest = <<>> /\ unbind.rest = <<>>
        BY <1>0, <2>3 DEF Insert, LockInv
      <3>3. \A u : ~InSeq(u, disp.rest) /\ ~InSeq(u, unbind.rest)
        BY <3>2 DEF InSeq
      <3>4. \A u : InSeq(u, list') <=> u = t \/ InSeq(u, list)
        BY <1>0, <3>1, PrependFacts DEF LockTypeOK
      <3>5. \A i, j \in 1..Len(list') : list'[i] = list'[j] => i = j
        <4> SUFFICES ASSUME NEW i \in 1..Len(list'), NEW j \in 1..Len(list'), list'[i] = list'[j]
                     PROVE  i = j
          OBVIOUS
        <4>1. list \in Seq(Threads) /\ list'[1] = t
          BY <1>0, <3>1, PrependFacts DEF LockTypeOK
        <4>2. \A m \in 1..Len(list') : m # 1 =>
                  m - 1 \in 1..Len(list) /\ list'[m] = list[m - 1] /\ list'[m] # t
          BY <3>1, <4>1, PrependFacts DEF InSeq
        <4>3. CASE i = 1 \/ j = 1
          BY <4>1, <4>2, <4>3
        <4>4. CASE i # 1 /\ j # 1
          <5>1. i - 1 \in 1..Len(list) /\ j - 1 \in 1..Len(list) /\ list[i - 1] = list[j - 1]
            BY <4>2, <4>4
          <5>2. i - 1 = j - 1
            BY <1>0, <5>1 DEF ListInv
          <5> QED BY <4>1, <5>2
        <4> QED BY <4>3, <4>4
      <3> QED BY <1>0, <2>1, <3>1, <3>3, <3>4, <3>5 DEF ListInv, Linked
    <2>4. CASE ReadGeneration(t) \/ SendCommand(t) \/ CommandDone(t) \/ Wake(t) \/ Expire(t)
               \/ WaitAgain(t)
      <3>1. pc'[t] \in Linked /\ pc[t] \in Linked /\ list' = list
        BY <1>0, <2>4 DEF ReadGeneration, SendCommand, CommandDone, Wake, Expire, WaitAgain,
                          ThreadTypeOK, Linked, locks
      <3> QED BY <1>0, <2>1, <3>1 DEF ListInv, Linked
    <2>5. CASE CommandFailed(t)
      <3>1. pc'[t] = "idle" /\ result'[t] = "COMMAND_FAILED" /\ pc[t] \in Linked /\ list' = list
        BY <1>0, <2>5 DEF CommandFailed, ThreadTypeOK, Linked
      <3> QED BY <1>0, <2>1, <3>1 DEF ListInv, Linked
    <2>6. CASE Remove(t)
      <3>1. InSeq(t, list) /\ \A i, j \in 1..Len(list) : list[i] = list[j] => i = j
        BY <1>0, <2>6 DEF Remove, ListInv, Linked
      <3>2. disp.rest = <<>> /\ unbind.rest = <<>>
        BY <1>0, <2>6 DEF Remove, LockInv
      <3>3. \A u : ~InSeq(u, disp.rest) /\ ~InSeq(u, unbind.rest)
        BY <3>2 DEF InSeq
      <3>4. /\ \A i, j \in 1..Len(list') : list'[i] = list'[j] => i = j
            /\ ~InSeq(t, list')
            /\ \A u \in Threads : u # t => (InSeq(u, list) <=> InSeq(u, list'))
        <4>1. list \in Seq(Threads) /\ list' = Without(list, t)
          BY <1>0, <2>6 DEF LockTypeOK, Remove
        <4> QED BY <3>1, <4>1, WithoutFacts
      <3>5. pc'[t] = "verdict"
        BY <1>0, <2>6 DEF Remove, ThreadTypeOK
      <3> QED BY <1>0, <2>1, <3>3, <3>4, <3>5 DEF ListInv, Linked
    <2>7. CASE Finish(t)
      <3>1. pc'[t] = "idle" /\ pc[t] = "verdict" /\ list' = list
        BY <1>0, <2>7 DEF Finish, ThreadTypeOK, locks
      <3> QED BY <1>0, <2>1, <3>1 DEF ListInv, Linked
    <2> QED BY <1>1, <2>2, <2>3, <2>4, <2>5, <2>6, <2>7 DEF ThreadStep
  <1>2. ASSUME UNCHANGED <<pc, result, list>>,
               \A u \in Threads : InSeq(u, disp'.rest) => InSeq(u, disp.rest) \/ InSeq(u, list),
               \A u \in Threads : InSeq(u, unbind'.rest) => InSeq(u, unbind.rest) \/ InSeq(u, list)
        PROVE  ListInv'
    BY <1>0, <1>2 DEF ListInv
  <1>3. CASE DispatcherStep
    <2>1. UNCHANGED <<pc, result, list, unbind>>
      BY <1>3 DEF DispatcherStep, DispatchAck, DispatchResponse, EnterHandler, Visit, LeaveHandler,
                  EmitDone, locks, thread
    <2>2. CASE EnterHandler
      <3>1. disp'.rest = list
        BY <1>0, <2>2 DEF EnterHandler, BusTypeOK
      <3> QED BY <1>2, <2>1, <3>1
    <2>3. CASE Visit
      <3>1. disp.rest # <<>> /\ disp.rest \in Seq(Threads) /\ disp'.rest = Tail(disp.rest)
        BY <1>0, <2>3 DEF Visit, BusTypeOK
      <3> QED BY <1>2, <2>1, <3>1, InTail
    <2>4. CASE DispatchAck \/ DispatchResponse \/ LeaveHandler \/ EmitDone
      <3>1. disp'.rest = disp.rest
        BY <1>0, <2>4 DEF DispatchAck, DispatchResponse, LeaveHandler, EmitDone, BusTypeOK
      <3> QED BY <1>2, <2>1, <3>1
    <2> QED BY <1>3, <2>2, <2>3, <2>4 DEF DispatcherStep
  <1>4. CASE UnbindStep
    <2>1. UNCHANGED <<pc, result, list, disp>>
      BY <1>4 DEF UnbindStep, Release, AbortBegin, Abort, AbortEnd, locks, thread
    <2>2. CASE AbortBegin
      <3>1. unbind'.rest = list
        BY <2>2 DEF AbortBegin
      <3> QED BY <1>2, <2>1, <3>1
    <2>3. CASE Abort
      <3>1. unbind.rest # <<>> /\ unbind.rest \in Seq(Threads) /\ unbind'.rest = Tail(unbind.rest)
        BY <1>0, <2>3 DEF Abort, BusTypeOK
      <3> QED BY <1>2, <2>1, <3>1, InTail
    <2>4. CASE Release \/ AbortEnd
      <3>1. unbind'.rest = unbind.rest
        BY <1>0, <2>4 DEF Release, AbortEnd, BusTypeOK
      <3> QED BY <1>2, <2>1, <3>1
    <2> QED BY <1>4, <2>2, <2>3, <2>4 DEF UnbindStep
  <1>5. CASE Ack \/ Interim \/ FinalAnswer \/ BusReset \/ UNCHANGED vars
    <2>1. UNCHANGED <<pc, result, list, disp, unbind>>
      BY <1>5 DEF Ack, Interim, FinalAnswer, BusReset, Sent, vars, thread, locks
    <2> QED BY <1>2, <2>1
  <1> QED BY <1>1, <1>3, <1>4, <1>5 DEF Next

LEMMA SucceedNext == CoreInv /\ [Next]_vars => CommandsSucceed'
  <1> SUFFICES ASSUME CoreInv, [Next]_vars, ~CommandFails, ~Unbinds
               PROVE  (bound /\ unbind.pc = "idle" /\ \A t \in Threads : result[t] # "COMMAND_FAILED")'
    BY DEF CommandsSucceed
  <1>0. /\ bound /\ unbind.pc = "idle" /\ \A t \in Threads : result[t] # "COMMAND_FAILED"
        /\ ThreadTypeOK /\ BusTypeOK
    BY DEF CoreInv, TypeOK, CommandsSucceed
  <1>1. ASSUME NEW t \in Threads, Begin(t) \/ ThreadStep(t)
        PROVE  UNCHANGED <<bound, unbind>> /\ \A u \in Threads : result'[u] # "COMMAND_FAILED"
    <2>1. CASE Begin(t)
      BY <1>0, <2>1 DEF Begin, outside, ThreadTypeOK
    <2>2. CASE CommandFailed(t)
      BY <1>0, <2>2 DEF CommandFailed
    <2>3. CASE Finish(t)
      <3>1. Verdict(t) # "COMMAND_FAILED"
        BY DEF Verdict
      <3> QED BY <1>0, <2>3, <3>1 DEF Finish, outside, ThreadTypeOK
    <2>4. CASE Insert(t) \/ ReadGeneration(t) \/ SendCommand(t) \/ CommandDone(t) \/ Wake(t)
               \/ Expire(t) \/ WaitAgain(t) \/ Remove(t)
      BY <1>0, <2>4 DEF Insert, ReadGeneration, SendCommand, CommandDone, Wake, Expire, WaitAgain,
                        Remove, outside
    <2> QED BY <1>1, <2>1, <2>2, <2>3, <2>4 DEF ThreadStep
  <1>2. CASE DispatcherStep \/ Ack \/ Interim \/ FinalAnswer \/ BusReset \/ UNCHANGED vars
    <2>1. UNCHANGED <<bound, unbind, result>>
      BY <1>2 DEF DispatcherStep, DispatchAck, DispatchResponse, EnterHandler, Visit, LeaveHandler,
                  EmitDone, Ack, Interim, FinalAnswer, BusReset, Sent, vars, thread, outside
    <2> QED BY <1>0, <2>1
  <1>3. ~UnbindStep
    BY <1>0 DEF UnbindStep, Release, AbortBegin, Abort, AbortEnd
  <1> QED BY <1>0, <1>1, <1>2, <1>3 DEF Next

LEMMA CoreAlways == Spec => []CoreInv
  <1>1. CoreInv /\ [Next]_vars => CoreInv'
    BY FlagNext, ThreadNext, LockTypeNext, BusTypeNext, LockNext, ListNext, SucceedNext
       DEF CoreInv, TypeOK
  <1> QED BY <1>1, CoreInit, PTL DEF Spec

-----------------------------------------------------------------------------
\* Commands, generations and the order of the events.

\* A step forgets no command that was sent.
LEMMA StaysSent ==
    ASSUME CoreInv, [Next]_vars, NEW c \in Calls, WasSent(c)
    PROVE  WasSent(c)'
  <1>0. ThreadTypeOK
    BY DEF CoreInv, TypeOK
  <1>1. c[1] \in Threads /\ c[2] \in Nat
    BY CallFacts
  <1>2. /\ calls'[c[1]] \in Nat /\ calls[c[1]] \in Nat
        /\ \/ calls'[c[1]] = calls[c[1]] + 1
           \/ /\ calls'[c[1]] = calls[c[1]]
              /\ pc[c[1]] \notin Unsent => pc'[c[1]] \notin Unsent
    <2>1. calls[c[1]] \in Nat
      BY <1>0, <1>1 DEF ThreadTypeOK
    <2>2. ASSUME NEW t \in Threads, Begin(t)
          PROVE  \/ calls'[c[1]] = calls[c[1]] + 1
                 \/ calls'[c[1]] = calls[c[1]] /\ pc'[c[1]] = pc[c[1]]
      BY <1>0, <1>1, <2>2 DEF Begin, ThreadTypeOK
    <2>3. ASSUME NEW t \in Threads, ThreadStep(t)
          PROVE  calls' = calls /\ (pc'[c[1]] = pc[c[1]] \/ (pc[c[1]] \notin Unsent => pc'[c[1]] \notin Unsent))
      BY <1>0, <1>1, <2>3 DEF ThreadStep, Insert, ReadGeneration, SendCommand, CommandDone,
              CommandFailed, Wake, Expire, WaitAgain, Remove, Finish, ThreadTypeOK, Unsent
    <2>4. CASE DispatcherStep \/ UnbindStep \/ Ack \/ Interim \/ FinalAnswer \/ BusReset \/ UNCHANGED vars
      <3>1. UNCHANGED <<calls, pc>>
        BY <2>4 DEF DispatcherStep, DispatchAck, DispatchResponse, EnterHandler, Visit, LeaveHandler,
                    EmitDone, UnbindStep, Release, AbortBegin, Abort, AbortEnd,
                    Ack, Interim, FinalAnswer, BusReset, Sent, vars, thread
      <3> QED BY <2>1, <3>1
    <2> QED BY <2>1, <2>2, <2>3, <2>4 DEF Next
  <1> QED BY <1>1, <1>2 DEF WasSent

\* The shape of the queue after a step: it is unchanged, or shorter by its head, or
\* longer by an event of the target.
LEMMA QueueStep ==
    ASSUME CoreInv, [Next]_vars
    PROVE  \/ queue' = queue
           \/ (DispatchAck \/ DispatchResponse) /\ queue # <<>> /\ queue' = Tail(queue)
           \/ Ack \/ Interim \/ FinalAnswer
  <1>1. ASSUME NEW t \in Threads, Begin(t) \/ ThreadStep(t) PROVE queue' = queue
    BY <1>1 DEF Begin, ThreadStep, Insert, ReadGeneration, SendCommand, CommandDone,
              CommandFailed, Wake, Expire, WaitAgain, Remove, Finish, outside
  <1>2. CASE DispatcherStep \/ UnbindStep \/ BusReset \/ UNCHANGED vars
    BY <1>2 DEF DispatcherStep, DispatchAck, DispatchResponse, EnterHandler, Visit, LeaveHandler,
                EmitDone, UnbindStep, Release, AbortBegin, Abort, AbortEnd, BusReset, vars, outside
  <1> QED BY <1>1, <1>2 DEF Next

\* The events of the queue have their types.
LEMMA EventTypes ==
    ASSUME BusTypeOK, NEW i \in 1..Len(queue)
    PROVE  /\ queue[i] \in Events
           /\ queue[i].type = "ack" => queue[i].call \in Calls
           /\ queue[i].type = "fcp" => queue[i].frame \in Frames
  <1>1. queue[i] \in Events
    BY DEF BusTypeOK
  <1> QED BY <1>1 DEF Events

\* The frame in the emission after a step: that of before, or the head of the queue.
LEMMA EmissionStep ==
    ASSUME CoreInv, [Next]_vars, disp'.pc # "idle"
    PROVE  \/ disp.pc # "idle" /\ disp'.frame = disp.frame
           \/ /\ DispatchResponse /\ queue # <<>> /\ Head(queue).type = "fcp"
              /\ disp'.frame = Head(queue).frame /\ queue' = Tail(queue)
              /\ UNCHANGED <<pc, calls, start, acked, result, waiter, generation, device, gaveup>>
  <1>0. BusTypeOK
    BY DEF CoreInv, TypeOK
  <1>1. ASSUME NEW t \in Threads, Begin(t) \/ ThreadStep(t)
        PROVE  disp'.pc = disp.pc /\ disp'.frame = disp.frame
    BY <1>0, <1>1 DEF Begin, ThreadStep, Insert, ReadGeneration, SendCommand, CommandDone,
              CommandFailed, Wake, Expire, WaitAgain, Remove, Finish, BusTypeOK
  <1>2. CASE DispatchResponse
    <2>1. CASE disp' = disp
      BY <2>1
    <2>2. CASE disp' # disp
      BY <1>0, <1>2, <2>2 DEF DispatchResponse, BusTypeOK, thread
    <2> QED BY <2>1, <2>2
  <1>3. CASE DispatchAck \/ Visit \/ LeaveHandler \/ EmitDone
    BY <1>0, <1>3 DEF DispatchAck, Visit, LeaveHandler, EmitDone, BusTypeOK
  <1>4. CASE EnterHandler
    BY <1>0, <1>4 DEF EnterHandler, BusTypeOK
  <1>5. CASE UnbindStep \/ Ack \/ Interim \/ FinalAnswer \/ BusReset \/ UNCHANGED vars
    BY <1>5 DEF UnbindStep, Release, AbortBegin, Abort, AbortEnd, Ack, Interim, FinalAnswer,
                BusReset, Sent, vars
  <1> QED BY <1>1, <1>2, <1>3, <1>4, <1>5 DEF Next, DispatcherStep

\* A waiter after a step: that of before, or one of these.
LEMMA WaiterStep ==
    ASSUME CoreInv, [Next]_vars, NEW t \in Threads
    PROVE  \/ waiter'[t] = waiter[t]
           \/ Begin(t) /\ waiter'[t] = NewWaiter
           \/ /\ WaitAgain(t) /\ waiter'[t].state = "PENDING" /\ waiter'[t].gen = waiter[t].gen
              /\ waiter'[t].frame = NoFrame /\ waiter'[t].size = Capacity
           \/ /\ Visit /\ disp.frame \in Frames /\ InSeq(t, list)
              /\ wmutex[t] = "nobody" /\ ~Overruns(waiter[t], disp.frame)
              /\ Code[Call(t)] = Code[disp.frame.call]
              /\ waiter'[t] = Responded(waiter[t], disp.frame)
           \/ /\ Abort /\ InSeq(t, list) /\ wmutex[t] = "nobody" /\ waiter[t].state = "PENDING"
              /\ waiter'[t].state = "ABORTED" /\ waiter'[t].gen = waiter[t].gen
              /\ waiter'[t].frame = waiter[t].frame /\ waiter'[t].size = waiter[t].size
  <1>0. ThreadTypeOK /\ BusTypeOK /\ waiter[t] \in Waiters /\ ListInv /\ CallInv
    BY DEF CoreInv, TypeOK, ThreadTypeOK
  <1>1. ASSUME NEW u \in Threads, Begin(u)
        PROVE  waiter'[t] = waiter[t] \/ (Begin(t) /\ waiter'[t] = NewWaiter)
    BY <1>0, <1>1 DEF Begin, ThreadTypeOK
  <1>2. ASSUME NEW u \in Threads, WaitAgain(u)
        PROVE  \/ waiter'[t] = waiter[t]
               \/ /\ WaitAgain(t) /\ waiter'[t].state = "PENDING" /\ waiter'[t].gen = waiter[t].gen
                  /\ waiter'[t].frame = NoFrame /\ waiter'[t].size = Capacity
    <2>1. CASE u = t
      BY <1>0, <1>2, <2>1 DEF WaitAgain, ThreadTypeOK, Waiters
    <2>2. CASE u # t
      BY <1>0, <1>2, <2>2 DEF WaitAgain, ThreadTypeOK
    <2> QED BY <2>1, <2>2
  <1>3. ASSUME NEW u \in Threads, ThreadStep(u), ~WaitAgain(u)
        PROVE  waiter' = waiter
    BY <1>3 DEF ThreadStep, Insert, ReadGeneration, SendCommand, CommandDone, CommandFailed, Wake,
                Expire, Remove, Finish
  <1>4. CASE Visit
    <2>1. PICK u \in Threads : u = Head(disp.rest) /\ InSeq(u, disp.rest)
      <3>1. disp.rest \in Seq(Threads) /\ disp.rest # <<>>
        BY <1>0, <1>4 DEF Visit, BusTypeOK
      <3>2. Head(disp.rest) \in Threads /\ Head(disp.rest) = disp.rest[1] /\ 1 \in 1..Len(disp.rest)
        BY <3>1
      <3> QED BY <3>2 DEF InSeq
    <2>2. InSeq(u, list) /\ wmutex[u] = "nobody" /\ disp.frame \in Frames
      BY <1>0, <1>4, <2>1 DEF Visit, ListInv, CallInv
    <2>3. CASE u # t
      BY <1>0, <1>4, <2>1, <2>3 DEF Visit, ThreadTypeOK
    <2>4. CASE u = t /\ Code[Call(t)] # Code[disp.frame.call]
      BY <1>0, <1>4, <2>1, <2>4 DEF Visit, ThreadTypeOK
    <2>5. CASE u = t /\ Code[Call(t)] = Code[disp.frame.call]
      <3>1. ~Overruns(waiter[t], disp.frame) /\ waiter'[t] = Responded(waiter[t], disp.frame)
        BY <1>0, <1>4, <2>1, <2>5 DEF Visit, ThreadTypeOK
      <3> QED BY <1>4, <2>2, <2>5, <3>1
    <2> QED BY <2>3, <2>4, <2>5
  <1>5. CASE Abort
    <2>1. PICK u \in Threads : u = Head(unbind.rest) /\ InSeq(u, unbind.rest)
      <3>1. unbind.rest \in Seq(Threads) /\ unbind.rest # <<>>
        BY <1>0, <1>5 DEF Abort, BusTypeOK
      <3>2. Head(unbind.rest) \in Threads /\ Head(unbind.rest) = unbind.rest[1]
            /\ 1 \in 1..Len(unbind.rest)
        BY <3>1
      <3> QED BY <3>2 DEF InSeq
    <2>2. InSeq(u, list) /\ wmutex[u] = "nobody"
      BY <1>0, <1>5, <2>1 DEF Abort, ListInv
    <2>3. CASE u # t
      BY <1>0, <1>5, <2>1, <2>3 DEF Abort, ThreadTypeOK
    <2>4. CASE u = t /\ waiter[t].state = "PENDING"
      BY <1>0, <1>5, <2>1, <2>2, <2>4 DEF Abort, ThreadTypeOK, Waiters
    <2>5. CASE u = t /\ waiter[t].state # "PENDING"
      BY <1>0, <1>5, <2>1, <2>5 DEF Abort, ThreadTypeOK, Waiters
    <2> QED BY <2>3, <2>4, <2>5
  <1>6. CASE DispatchAck \/ DispatchResponse \/ EnterHandler \/ LeaveHandler \/ EmitDone
             \/ Release \/ AbortBegin \/ AbortEnd
    BY <1>6 DEF DispatchAck, DispatchResponse, EnterHandler, LeaveHandler, EmitDone, Release,
                AbortBegin, AbortEnd
  <1>7. CASE Ack \/ Interim \/ FinalAnswer \/ BusReset \/ UNCHANGED vars
    BY <1>7 DEF Ack, Interim, FinalAnswer, BusReset, Sent, vars
  <1> QED BY <1>1, <1>2, <1>3, <1>4, <1>5, <1>6, <1>7 DEF Next, DispatcherStep, UnbindStep

\* What the steps of the others leave of a thread, and its own steps, one by one.
Unmoved(t) == /\ pc'[t] = pc[t] /\ calls'[t] = calls[t] /\ start'[t] = start[t]
              /\ result'[t] = result[t]

Moves(t, from, to) == /\ pc[t] = from /\ pc'[t] = to /\ calls'[t] = calls[t]
                      /\ queue' = queue /\ disp'.pc = disp.pc /\ disp'.frame = disp.frame
                      /\ generation' = generation

OwnStep(t) ==
    \/ /\ Begin(t) /\ pc[t] = "idle" /\ pc'[t] = "insert" /\ calls'[t] = calls[t] + 1
       /\ result'[t] = "none" /\ waiter'[t] = NewWaiter
    \/ /\ Moves(t, "insert", "generation") /\ start'[t] = start[t] /\ result'[t] = result[t]
       /\ waiter'[t] = waiter[t]
    \/ /\ Moves(t, "generation", "send") /\ start'[t] = generation /\ result'[t] = result[t]
       /\ waiter'[t] = waiter[t]
    \/ /\ SendCommand(t) /\ Moves(t, "send", "command") /\ start'[t] = start[t]
       /\ result'[t] = result[t] /\ waiter'[t] = waiter[t]
    \/ /\ Moves(t, "command", "waiting") /\ acked[t] /\ start'[t] = start[t]
       /\ result'[t] = result[t] /\ waiter'[t] = waiter[t]
    \/ /\ pc[t] \in {"send", "command"} /\ pc'[t] = "idle" /\ calls'[t] = calls[t]
       /\ start'[t] = start[t] /\ result'[t] = "COMMAND_FAILED" /\ waiter'[t] = waiter[t]
       /\ Call(t) \in gaveup'
    \/ /\ Moves(t, "waiting", "woken") /\ start'[t] = start[t] /\ result'[t] = result[t]
       /\ waiter'[t] = waiter[t]
    \/ /\ WaitAgain(t) /\ Moves(t, "woken", "waiting") /\ start'[t] = start[t]
       /\ result'[t] = result[t]
    \/ /\ Moves(t, "woken", "verdict") /\ start'[t] = start[t] /\ result'[t] = result[t]
       /\ waiter'[t] = waiter[t] /\ ~Deferred(t)
    \/ /\ Finish(t) /\ Moves(t, "verdict", "idle") /\ start'[t] = start[t]
       /\ result'[t] = Verdict(t) /\ waiter'[t] = waiter[t]

LEMMA ThreadShape ==
    ASSUME CoreInv, [Next]_vars, NEW t \in Threads
    PROVE  Unmoved(t) \/ OwnStep(t)
  <1>0. ThreadTypeOK /\ BusTypeOK
    BY DEF CoreInv, TypeOK
  <1> USE DEF OwnStep, Moves
  <1>1. CASE Begin(t)
    BY <1>0, <1>1 DEF Begin, ThreadTypeOK
  <1>2. CASE Insert(t)
    BY <1>0, <1>2 DEF Insert, ThreadTypeOK, outside
  <1>3. CASE ReadGeneration(t)
    BY <1>0, <1>3 DEF ReadGeneration, ThreadTypeOK, outside
  <1>4. CASE SendCommand(t)
    BY <1>0, <1>4 DEF SendCommand, ThreadTypeOK
  <1>5. CASE CommandDone(t)
    BY <1>0, <1>5 DEF CommandDone, ThreadTypeOK, outside
  <1>6. CASE CommandFailed(t)
    BY <1>0, <1>6 DEF CommandFailed, ThreadTypeOK
  <1>7. CASE Wake(t) \/ Expire(t)
    BY <1>0, <1>7 DEF Wake, Expire, ThreadTypeOK, outside
  <1>8. CASE WaitAgain(t)
    BY <1>0, <1>8 DEF WaitAgain, ThreadTypeOK, outside
  <1>9. CASE Remove(t)
    BY <1>0, <1>9 DEF Remove, ThreadTypeOK, BusTypeOK, outside
  <1>10. CASE Finish(t)
    BY <1>0, <1>10 DEF Finish, ThreadTypeOK, outside
  <1>11. ASSUME NEW u \in Threads, Begin(u) \/ ThreadStep(u), u # t PROVE Unmoved(t)
    BY <1>0, <1>11 DEF Unmoved, Begin, ThreadStep, Insert, ReadGeneration, SendCommand, CommandDone,
              CommandFailed, Wake, Expire, WaitAgain, Remove, Finish, ThreadTypeOK
  <1>12. CASE DispatcherStep \/ UnbindStep \/ Ack \/ Interim \/ FinalAnswer \/ BusReset \/ UNCHANGED vars
    BY <1>12 DEF Unmoved, DispatcherStep, DispatchAck, DispatchResponse, EnterHandler, Visit,
              LeaveHandler, EmitDone, UnbindStep, Release, AbortBegin, Abort, AbortEnd,
              Ack, Interim, FinalAnswer, BusReset, Sent, vars, thread
  <1> HIDE DEF OwnStep, Moves
  <1>13. Begin(t) \/ ThreadStep(t) => Unmoved(t) \/ OwnStep(t)
    BY <1>1, <1>2, <1>3, <1>4, <1>5, <1>6, <1>7, <1>8, <1>9, <1>10 DEF ThreadStep
  <1> QED BY <1>11, <1>12, <1>13 DEF Next

\* The places of the events after a step: moved by at most one place towards the
\* head, or as they were with one more event of the target behind them.
Shifted(s) ==
    /\ Len(queue') = Len(queue) - s
    /\ \A i \in 1..Len(queue') : i + s \in 1..Len(queue) /\ queue'[i] = queue[i + s]

Appended(d, e, rest) ==
    /\ Sent(d, e, rest)
    /\ d.call \in Calls /\ d.owed \in SUBSET Owed /\ rest \subseteq d.owed
    /\ Len(queue') = Len(queue) + 1
    /\ \A i \in 1..Len(queue') : \/ i \in 1..Len(queue) /\ queue'[i] = queue[i]
                                 \/ i = Len(queue) + 1 /\ queue'[i] = e
    /\ \/ e.type = "ack" /\ e.call = d.call /\ rest = d.owed \ {"ack"}
       \/ /\ e.type = "fcp" /\ e.frame \in Frames
          /\ e.frame.call = d.call /\ e.frame.gen = generation
          /\ \/ e.frame.status = "INTERIM" /\ "INTERIM" \in d.owed /\ rest = d.owed \ {"INTERIM"}
             \/ /\ e.frame.status = "FINAL" /\ "FINAL" \in d.owed
                /\ rest = d.owed \ {"INTERIM", "FINAL"}

LEMMA QueueShape ==
    ASSUME CoreInv, [Next]_vars
    PROVE  \/ Shifted(0) /\ queue' = queue
           \/ Shifted(1) /\ queue # <<>> /\ queue' = Tail(queue) /\ (DispatchAck \/ DispatchResponse)
           \/ \E d \in device, e \in Events, rest \in SUBSET Owed : Appended(d, e, rest)
  <1>0. BusTypeOK /\ Len(queue) \in Nat /\ queue \in Seq(Events)
    BY DEF CoreInv, TypeOK, BusTypeOK
  <1>1. CASE queue' = queue
    BY <1>0, <1>1 DEF Shifted
  <1>2. CASE (DispatchAck \/ DispatchResponse) /\ queue # <<>> /\ queue' = Tail(queue)
    BY <1>0, <1>2, TailFacts DEF Shifted
  <1>3. CASE Ack \/ Interim \/ FinalAnswer
    <2>1. PICK d \in device, e \in Events, rest \in SUBSET Owed :
              /\ d.call \in Calls /\ d.owed \in SUBSET Owed /\ Sent(d, e, rest)
              /\ rest \subseteq d.owed
              /\ \/ e.type = "ack" /\ e.call = d.call /\ rest = d.owed \ {"ack"}
                 \/ /\ e.type = "fcp" /\ e.frame \in Frames
                    /\ e.frame.call = d.call /\ e.frame.gen = generation
                    /\ \/ /\ e.frame.status = "INTERIM" /\ "INTERIM" \in d.owed
                          /\ rest = d.owed \ {"INTERIM"}
                       \/ /\ e.frame.status = "FINAL" /\ "FINAL" \in d.owed
                          /\ rest = d.owed \ {"INTERIM", "FINAL"}
      BY <1>0, <1>3, SentTypes
    <2>2. queue' = Append(queue, e)
      BY <2>1 DEF Sent
    <2>3. /\ Len(queue') = Len(queue) + 1
          /\ \A i \in 1..Len(queue') : \/ i \in 1..Len(queue) /\ queue'[i] = queue[i]
                                       \/ i = Len(queue) + 1 /\ queue'[i] = e
      BY <1>0, <2>2, AppendFacts
    <2>4. Appended(d, e, rest)
      BY <2>1, <2>3 DEF Appended
    <2> QED BY <2>4
  <1> QED BY <1>1, <1>2, <1>3, QueueStep

LEMMA SentNext == CoreInv /\ SentInv /\ [Next]_vars => SentInv'
  <1> SUFFICES ASSUME CoreInv, SentInv, [Next]_vars PROVE SentInv'
    OBVIOUS
  <1>0. ThreadTypeOK /\ BusTypeOK /\ CallInv /\ Len(queue) \in Nat
    BY DEF CoreInv, TypeOK, BusTypeOK
  <1> DEFINE Of(e, c) == \/ e.type = "ack" /\ c = e.call
                         \/ e.type = "fcp" /\ c = e.frame.call
  <1>1. ASSUME NEW i \in 1..Len(queue'), NEW c, Of(queue'[i], c)
        PROVE  WasSent(c)'
    <2>1. ASSUME NEW k \in 1..Len(queue), queue'[i] = queue[k] PROVE WasSent(c)'
      <3>1. c \in Calls /\ WasSent(c)
        BY <1>0, <1>1, <2>1, EventTypes, FrameFacts DEF SentInv, IsFrame
      <3> QED BY <3>1, StaysSent
    <2>2. CASE Shifted(0) \/ Shifted(1)
      BY <1>1, <2>1, <2>2 DEF Shifted
    <2>3. ASSUME NEW d \in device, NEW e \in Events, NEW rest \in SUBSET Owed, Appended(d, e, rest)
          PROVE  WasSent(c)'
      <3>1. CASE i \in 1..Len(queue) /\ queue'[i] = queue[i]
        BY <2>1, <3>1
      <3>2. CASE queue'[i] = e
        <4>1. c = d.call
          BY <1>1, <2>3, <3>2 DEF Appended
        <4>2. c \in Calls /\ WasSent(c)
          BY <2>3, <4>1 DEF Appended, SentInv
        <4> QED BY <4>2, StaysSent
      <3> QED BY <1>1, <2>3, <3>1, <3>2 DEF Appended
    <2> QED BY <2>2, <2>3, QueueShape
  <1>2. ASSUME NEW d \in device' PROVE WasSent(d.call)'
    <2>1. ASSUME NEW b \in device, b.call = d.call PROVE WasSent(d.call)'
      <3>1. b.call \in Calls /\ WasSent(b.call)
        BY <1>0 DEF BusTypeOK, SentInv
      <3> QED BY <2>1, <3>1, StaysSent
    <2>2. CASE d \in device
      BY <2>1, <2>2
    <2>3. ASSUME NEW t \in Threads, SendCommand(t), d = [call |-> Call(t), owed |-> Owed]
          PROVE  WasSent(d.call)'
      <3>1. d.call[1] = t /\ d.call[2] = calls[t]
        BY <2>3 DEF Call
      <3>2. calls'[t] = calls[t] /\ pc'[t] = "command"
        BY <1>0, <2>3 DEF SendCommand, ThreadTypeOK
      <3> QED BY <3>1, <3>2 DEF WasSent, Unsent
    <2>4. ASSUME NEW b \in device, NEW e, NEW rest, Sent(b, e, rest), d \notin device
          PROVE  WasSent(d.call)'
      <3>1. d = [b EXCEPT !.owed = rest]
        BY <2>4 DEF Sent
      <3>2. d.call = b.call
        BY <1>0, <3>1 DEF BusTypeOK
      <3> QED BY <2>1, <3>2
    <2>5. \/ device' = device
          \/ \E t \in Threads : SendCommand(t)
          \/ Ack \/ Interim \/ FinalAnswer
      <3>1. ASSUME NEW t \in Threads, Begin(t) \/ ThreadStep(t)
            PROVE  device' = device \/ SendCommand(t)
        BY <3>1 DEF Begin, ThreadStep, Insert, ReadGeneration, CommandDone, CommandFailed,
              Wake, Expire, WaitAgain, Remove, Finish, outside
      <3>2. CASE DispatcherStep \/ UnbindStep \/ BusReset \/ UNCHANGED vars
        BY <3>2 DEF DispatcherStep, DispatchAck, DispatchResponse, EnterHandler, Visit, LeaveHandler,
              EmitDone, UnbindStep, Release, AbortBegin, Abort, AbortEnd, BusReset, vars, outside
      <3> QED BY <3>1, <3>2 DEF Next
    <2>6. ASSUME NEW t \in Threads, SendCommand(t) PROVE WasSent(d.call)'
      BY <1>2, <2>2, <2>3, <2>6 DEF SendCommand
    <2>7. CASE Ack \/ Interim \/ FinalAnswer
      <3>1. PICK b \in device, e \in Events, rest \in SUBSET Owed : Sent(b, e, rest)
        BY <1>0, <2>7, SentTypes
      <3> QED BY <2>2, <2>4, <3>1
    <2> QED BY <1>2, <2>2, <2>5, <2>6, <2>7
  <1>3. ASSUME disp'.pc # "idle", NEW c, c = disp'.frame.call PROVE WasSent(c)'
    <2>1. CASE disp.pc # "idle" /\ disp'.frame = disp.frame
      <3>1. c \in Calls /\ WasSent(c)
        BY <1>0, <1>3, <2>1, FrameFacts DEF CallInv, SentInv
      <3> QED BY <3>1, StaysSent
    <2>2. CASE queue # <<>> /\ Head(queue).type = "fcp" /\ disp'.frame = Head(queue).frame
      <3>1. Head(queue) = queue[1] /\ 1 \in 1..Len(queue)
        BY <1>0, <2>2 DEF BusTypeOK
      <3>2. c \in Calls /\ WasSent(c)
        BY <1>0, <1>3, <2>2, <3>1, EventTypes, FrameFacts DEF SentInv, IsFrame
      <3> QED BY <3>2, StaysSent
    <2> QED BY <1>3, <2>1, <2>2, EmissionStep
  <1>4. ASSUME NEW t \in Threads, waiter'[t].frame # NoFrame, NEW c, c = waiter'[t].frame.call
        PROVE  WasSent(c)'
    <2>1. waiter[t] \in Waiters
      BY <1>0 DEF ThreadTypeOK
    <2>2. CASE waiter'[t].frame = waiter[t].frame
      <3>1. c \in Calls /\ WasSent(c)
        BY <1>4, <2>1, <2>2, WaiterFacts, FrameFacts DEF SentInv
      <3> QED BY <3>1, StaysSent
    <2>3. CASE disp.frame \in Frames /\ disp.pc # "idle" /\ waiter'[t].frame = disp.frame
      <3>1. c \in Calls /\ WasSent(c)
        BY <1>4, <2>3, FrameFacts DEF SentInv
      <3> QED BY <3>1, StaysSent
    <2>4. CASE Visit /\ disp.frame \in Frames /\ waiter'[t] = Responded(waiter[t], disp.frame)
      <3>1. disp.pc # "idle"
        BY <2>4 DEF Visit
      <3>2. waiter'[t].frame = disp.frame \/ waiter'[t].frame = waiter[t].frame
        BY <2>1, <2>4, RespondedType
      <3> QED BY <2>2, <2>3, <2>4, <3>1, <3>2
    <2> QED BY <1>4, <2>2, <2>4, WaiterStep, NewWaiterType
  <1> QED BY <1>1, <1>2, <1>3, <1>4 DEF SentInv, IsFrame, WasSent

\* The generation of the bus only grows.
LEMMA GenerationStep ==
    ASSUME CoreInv, [Next]_vars
    PROVE  generation \in Nat /\ generation' \in Nat /\ generation <= generation'
  <1>0. generation \in Nat
    BY DEF CoreInv, TypeOK, BusTypeOK
  <1>1. ASSUME NEW t \in Threads, Begin(t) \/ ThreadStep(t) PROVE generation' = generation
    BY <1>1 DEF Begin, ThreadStep, Insert, ReadGeneration, SendCommand, CommandDone,
              CommandFailed, Wake, Expire, WaitAgain, Remove, Finish, outside
  <1>2. CASE DispatcherStep \/ UnbindStep \/ Ack \/ Interim \/ FinalAnswer \/ UNCHANGED vars
    <2>1. generation' = generation
      BY <1>2 DEF DispatcherStep, DispatchAck, DispatchResponse, EnterHandler, Visit, LeaveHandler,
              EmitDone, UnbindStep, Release, AbortBegin, Abort, AbortEnd,
              Ack, Interim, FinalAnswer, Sent, vars, outside
    <2> QED BY <1>0, <2>1
  <1>3. CASE BusReset
    BY <1>0, <1>3 DEF BusReset
  <1> QED BY <1>0, <1>1, <1>2, <1>3 DEF Next

\* The same in the form the invariants of generations use: the generation a waiter
\* has after a step.
LEMMA WaiterGen ==
    ASSUME CoreInv, [Next]_vars, NEW t \in Threads
    PROVE  /\ waiter[t].gen \in Nat /\ waiter'[t].gen \in Nat
           /\ \/ waiter'[t].gen = waiter[t].gen
              \/ waiter'[t].gen = 0
              \/ /\ Visit /\ disp.frame \in Frames /\ disp.pc # "idle"
                 /\ waiter'[t].gen = disp.frame.gen
  <1>1. waiter[t] \in Waiters
    BY DEF CoreInv, TypeOK, ThreadTypeOK
  <1>2. waiter[t].gen \in Nat
    BY <1>1, WaiterFacts
  <1>3. CASE Visit /\ disp.frame \in Frames /\ waiter'[t] = Responded(waiter[t], disp.frame)
    BY <1>1, <1>2, <1>3, RespondedType, FrameFacts DEF Visit
  <1> QED BY <1>2, <1>3, WaiterStep, NewWaiterType

LEMMA GenNext == CoreInv /\ GenInv /\ [Next]_vars => GenInv'
  <1> SUFFICES ASSUME CoreInv, GenInv, [Next]_vars PROVE GenInv'
    OBVIOUS
  <1>0. ThreadTypeOK /\ BusTypeOK /\ CallInv /\ Len(queue) \in Nat
    BY DEF CoreInv, TypeOK, BusTypeOK
  <1>1. generation \in Nat /\ generation' \in Nat /\ generation <= generation'
    BY GenerationStep
  <1>2. ASSUME NEW k \in 1..Len(queue), IsFrame(k)
        PROVE  Gen(k) \in Nat /\ Gen(k) <= generation
               /\ (disp.pc # "idle" => disp.frame.gen <= Gen(k))
               /\ \A t \in Threads : waiter[t].gen <= Gen(k)
    BY <1>0, <1>2, EventTypes, FrameFacts DEF GenInv, IsFrame, Gen
  <1>3. disp.pc # "idle" => /\ disp.frame.gen \in Nat /\ disp.frame.gen <= generation
                            /\ \A t \in Threads : waiter[t].gen <= disp.frame.gen
    BY <1>0, FrameFacts DEF GenInv, CallInv
  <1>4. \A t \in Threads : waiter[t].gen <= generation /\ start[t] <= generation
    BY DEF GenInv
  <1>5. ASSUME NEW t \in Threads
        PROVE  start'[t] <= generation' /\ waiter'[t].gen <= generation'
    <2>1. start[t] \in Nat
      BY <1>0 DEF ThreadTypeOK
    <2>2. start'[t] = start[t] \/ start'[t] = generation
      <3>1. CASE Begin(t)
        BY <3>1 DEF Begin
      <3> QED BY <3>1, ThreadShape DEF Unmoved, OwnStep
    <2>3. start'[t] <= generation'
      BY <1>1, <1>4, <2>1, <2>2
    <2>4. waiter'[t].gen <= generation'
      BY <1>1, <1>3, <1>4, WaiterGen
    <2> QED BY <2>3, <2>4
  <1>6. ASSUME disp'.pc # "idle"
        PROVE  /\ disp'.frame.gen <= generation'
               /\ \A t \in Threads : waiter'[t].gen <= disp'.frame.gen
    <2>1. CASE disp.pc # "idle" /\ disp'.frame = disp.frame
      <3>1. disp'.frame.gen <= generation'
        BY <1>1, <1>3, <2>1
      <3>2. ASSUME NEW t \in Threads PROVE waiter'[t].gen <= disp'.frame.gen
        BY <1>3, <2>1, WaiterGen
      <3> QED BY <3>1, <3>2
    <2>2. CASE /\ DispatchResponse /\ queue # <<>> /\ Head(queue).type = "fcp"
               /\ disp'.frame = Head(queue).frame /\ waiter' = waiter /\ generation' = generation
      <3>1. Head(queue) = queue[1] /\ 1 \in 1..Len(queue)
        BY <1>0, <2>2 DEF BusTypeOK
      <3>2. IsFrame(1) /\ disp'.frame.gen = Gen(1)
        BY <2>2, <3>1 DEF IsFrame, Gen
      <3> QED BY <1>2, <2>2, <3>1, <3>2
    <2> QED BY <1>6, <2>1, <2>2, EmissionStep
  <1>7. ASSUME NEW i \in 1..Len(queue'), queue'[i].type = "fcp"
        PROVE  /\ queue'[i].frame.gen <= generation'
               /\ disp'.pc # "idle" => disp'.frame.gen <= queue'[i].frame.gen
               /\ \A t \in Threads : waiter'[t].gen <= queue'[i].frame.gen
               /\ \A j \in 1..Len(queue') : i < j /\ queue'[j].type = "fcp" =>
                        queue'[i].frame.gen <= queue'[j].frame.gen
    <2>1. ASSUME NEW s \in {0, 1}, Shifted(s), s = 1 => DispatchAck \/ DispatchResponse
          PROVE  /\ queue'[i].frame.gen <= generation'
                 /\ disp'.pc # "idle" => disp'.frame.gen <= queue'[i].frame.gen
                 /\ \A t \in Threads : waiter'[t].gen <= queue'[i].frame.gen
                 /\ \A j \in 1..Len(queue') : i < j /\ queue'[j].type = "fcp" =>
                          queue'[i].frame.gen <= queue'[j].frame.gen
      <3>1. PICK k \in 1..Len(queue) : k = i + s /\ queue'[i] = queue[k]
        BY <2>1 DEF Shifted
      <3>2. IsFrame(k) /\ queue'[i].frame.gen = Gen(k) /\ Gen(k) \in Nat
        BY <1>2, <1>7, <3>1 DEF IsFrame, Gen
      <3>3. queue'[i].frame.gen <= generation'
        BY <1>1, <1>2, <3>2
      <3>4. ASSUME disp'.pc # "idle" PROVE disp'.frame.gen <= queue'[i].frame.gen
        <4>1. CASE disp.pc # "idle" /\ disp'.frame = disp.frame
          BY <1>2, <3>2, <4>1
        <4>2. CASE /\ DispatchResponse /\ queue # <<>> /\ Head(queue).type = "fcp"
                   /\ disp'.frame = Head(queue).frame /\ queue' = Tail(queue)
          <5>1. Head(queue) = queue[1] /\ 1 \in 1..Len(queue) /\ Len(queue') = Len(queue) - 1
            BY <1>0, <4>2 DEF BusTypeOK
          <5>2. IsFrame(1) /\ disp'.frame.gen = Gen(1)
            BY <4>2, <5>1 DEF IsFrame, Gen
          <5>3. s = 1
            BY <1>0, <2>1, <5>1 DEF Shifted
          <5>4. 1 < k
            BY <3>1, <5>3
          <5> QED BY <3>2, <5>1, <5>2, <5>4 DEF GenInv
        <4> QED BY <3>4, <4>1, <4>2, EmissionStep
      <3>5. ASSUME NEW t \in Threads PROVE waiter'[t].gen <= queue'[i].frame.gen
        BY <1>2, <3>2, WaiterGen
      <3>6. ASSUME NEW j \in 1..Len(queue'), i < j, queue'[j].type = "fcp"
            PROVE  queue'[i].frame.gen <= queue'[j].frame.gen
        <4>1. PICK l \in 1..Len(queue) : l = j + s /\ queue'[j] = queue[l]
          BY <2>1 DEF Shifted
        <4>2. IsFrame(l) /\ queue'[j].frame.gen = Gen(l) /\ k < l
          BY <3>1, <3>6, <4>1 DEF IsFrame, Gen
        <4> QED BY <3>2, <4>2 DEF GenInv
      <3> QED BY <3>3, <3>4, <3>5, <3>6
    <2>2. ASSUME NEW d \in device, NEW e \in Events, NEW rest \in SUBSET Owed, Appended(d, e, rest)
          PROVE  /\ queue'[i].frame.gen <= generation'
                 /\ disp'.pc # "idle" => disp'.frame.gen <= queue'[i].frame.gen
                 /\ \A t \in Threads : waiter'[t].gen <= queue'[i].frame.gen
                 /\ \A j \in 1..Len(queue') : i < j /\ queue'[j].type = "fcp" =>
                          queue'[i].frame.gen <= queue'[j].frame.gen
      <3>1. UNCHANGED <<disp, waiter, generation>>
        BY <2>2 DEF Appended, Sent
      <3>2. CASE i \in 1..Len(queue) /\ queue'[i] = queue[i]
        <4>1. IsFrame(i) /\ queue'[i].frame.gen = Gen(i)
          BY <1>7, <3>2 DEF IsFrame, Gen
        <4>2. ASSUME NEW j \in 1..Len(queue'), i < j, queue'[j].type = "fcp"
              PROVE  Gen(i) <= queue'[j].frame.gen
          <5>1. CASE j \in 1..Len(queue) /\ queue'[j] = queue[j]
            BY <3>2, <4>1, <4>2, <5>1 DEF GenInv, IsFrame, Gen
          <5>2. CASE queue'[j] = e
            <6>1. queue'[j].frame.gen = generation
              BY <2>2, <4>2, <5>2 DEF Appended
            <6> QED BY <1>2, <3>2, <4>1, <6>1
          <5> QED BY <2>2, <4>2, <5>1, <5>2 DEF Appended
        <4> QED BY <1>2, <3>1, <3>2, <4>1, <4>2
      <3>3. CASE i = Len(queue) + 1 /\ queue'[i] = e
        <4>1. queue'[i].frame.gen = generation
          BY <1>7, <2>2, <3>3 DEF Appended
        <4>2. \A j \in 1..Len(queue') : ~(i < j)
          BY <1>0, <2>2, <3>3 DEF Appended
        <4> QED BY <1>1, <1>3, <1>4, <3>1, <4>1, <4>2
      <3> QED BY <1>7, <2>2, <3>2, <3>3 DEF Appended
    <2> QED BY <2>1, <2>2, QueueShape
  <1> QED BY <1>5, <1>6, <1>7 DEF GenInv, IsFrame, Gen

\* The response subaction of t's command is handled in DispatchAck only.
LEMMA AckedValue ==
    ASSUME CoreInv, [Next]_vars, NEW t \in Threads
    PROVE  \/ acked'[t] = acked[t]
           \/ Begin(t) /\ acked'[t] = FALSE
           \/ /\ DispatchAck /\ pc[t] = "command" /\ disp' = disp /\ disp.pc = "idle"
              /\ queue # <<>> /\ queue' = Tail(queue)
              /\ Head(queue).type = "ack" /\ Head(queue).call = Call(t)
  <1>0. FlagTypeOK /\ ThreadTypeOK /\ BusTypeOK
    BY DEF CoreInv, TypeOK
  <1>1. ASSUME NEW u \in Threads, Begin(u)
        PROVE  acked'[t] = acked[t] \/ (Begin(t) /\ acked'[t] = FALSE)
    <2>1. acked' = [acked EXCEPT ![u] = FALSE] /\ acked \in [Threads -> BOOLEAN]
      BY <1>0, <1>1 DEF Begin, FlagTypeOK
    <2> QED BY <1>1, <2>1
  <1>2. ASSUME NEW u \in Threads, ThreadStep(u) PROVE acked' = acked
    BY <1>2 DEF ThreadStep, Insert, ReadGeneration, SendCommand, CommandDone,
              CommandFailed, Wake, Expire, WaitAgain, Remove, Finish
  <1>3. CASE DispatchAck
    <2>1. PICK c \in Calls : c = Head(queue).call /\ c[1] \in Threads /\ c = <<c[1], c[2]>>
      <3>1. queue # <<>> /\ queue \in Seq(Events) /\ Head(queue).type = "ack"
        BY <1>0, <1>3 DEF DispatchAck, BusTypeOK
      <3>2. Head(queue) \in Events
        BY <3>1
      <3>3. Head(queue).call \in Calls
        BY <3>1, <3>2 DEF Events
      <3> QED BY <3>3, CallFacts
    <2>2. CASE c[1] # t
      BY <1>0, <1>3, <2>1, <2>2 DEF DispatchAck, FlagTypeOK
    <2>3. CASE c[1] = t /\ pc[t] = "command" /\ calls[t] = c[2]
      <3>1. c = Call(t)
        BY <2>1, <2>3 DEF Call
      <3> QED BY <1>3, <2>1, <2>3, <3>1 DEF DispatchAck
    <2>4. CASE c[1] = t /\ ~(pc[t] = "command" /\ calls[t] = c[2])
      <3>1. acked \in [Threads -> BOOLEAN]
            /\ acked' = [acked EXCEPT ![c[1]] = @ \/ (pc[c[1]] = "command" /\ calls[c[1]] = c[2])]
        BY <1>0, <1>3, <2>1 DEF DispatchAck, FlagTypeOK
      <3> QED BY <2>4, <3>1, Zenon
    <2> QED BY <2>2, <2>3, <2>4
  <1>4. CASE DispatchResponse \/ EnterHandler \/ Visit \/ LeaveHandler \/ EmitDone \/ UnbindStep
    BY <1>4 DEF DispatchResponse, EnterHandler, Visit, LeaveHandler, EmitDone, UnbindStep, Release,
                AbortBegin, Abort, AbortEnd, thread
  <1>5. CASE Ack \/ Interim \/ FinalAnswer \/ BusReset \/ UNCHANGED vars
    BY <1>5 DEF Ack, Interim, FinalAnswer, BusReset, Sent, vars, thread
  <1> QED BY <1>1, <1>2, <1>3, <1>4, <1>5 DEF Next, DispatcherStep

LEMMA AckNext == CoreInv /\ AckInv /\ [Next]_vars => AckInv'
  <1> SUFFICES ASSUME CoreInv, AckInv, [Next]_vars, NEW t \in Threads, pc'[t] \in Unsent
               PROVE  acked'[t] = FALSE
    BY DEF AckInv
  <1>1. pc[t] \in Unsent \/ pc[t] = "idle"
    BY ThreadShape DEF Unmoved, OwnStep, Moves, Unsent
  <1>2. pc[t] = "idle" => Begin(t)
    BY ThreadShape DEF Unmoved, OwnStep, Moves, Unsent
  <1>3. Begin(t) => acked'[t] = FALSE
    BY DEF Begin, CoreInv, TypeOK, FlagTypeOK
  <1>4. pc[t] \in Unsent => acked[t] = FALSE
    BY DEF AckInv
  <1> QED BY <1>1, <1>2, <1>3, <1>4, AckedValue DEF Unsent

LEMMA AckedStep ==
    ASSUME CoreInv, AckInv, [Next]_vars, NEW t \in Threads, Acked(t)'
    PROVE  /\ start'[t] = start[t] /\ calls'[t] = calls[t]
           /\ \/ Acked(t)
              \/ /\ pc[t] = "command" /\ disp' = disp /\ disp.pc = "idle"
                 /\ queue # <<>> /\ queue' = Tail(queue)
                 /\ Head(queue).type = "ack" /\ Head(queue).call = Call(t)
  <1>1. CASE pc'[t] \in {"waiting", "woken"}
    BY <1>1, ThreadShape DEF Unmoved, OwnStep, Moves, Acked
  <1>2. CASE pc'[t] = "command" /\ acked'[t]
    <2>1. /\ start'[t] = start[t] /\ calls'[t] = calls[t] /\ ~Begin(t)
          /\ pc[t] = "command" \/ pc[t] = "send"
      BY <1>2, ThreadShape DEF Unmoved, OwnStep, Moves, Begin
    <2>2. CASE acked'[t] = acked[t]
      <3>1. acked[t]
        BY <1>2, <2>2, Zenon
      <3>2. pc[t] = "command"
        BY <2>1, <3>1 DEF AckInv, Unsent
      <3> QED BY <2>1, <3>1, <3>2 DEF Acked
    <2> QED BY <2>1, <2>2, AckedValue
  <1> QED BY <1>1, <1>2 DEF Acked

LEMMA OrderNext == CoreInv /\ ResetInv /\ [Next]_vars => OrderInv'
  <1> SUFFICES ASSUME CoreInv, ResetInv, [Next]_vars, NEW t \in Threads
               PROVE  /\ pc'[t] = "command" =>
                           \A i, j \in 1..Len(queue') :
                               i < j /\ IsAck(i, Call(t))' /\ IsFrame(j)' => start'[t] <= Gen(j)'
                      /\ Acked(t)' => \A i \in 1..Len(queue') : IsFrame(i)' => start'[t] <= Gen(i)'
                      /\ Acked(t)' /\ disp'.pc # "idle" => start'[t] <= disp'.frame.gen
    BY DEF OrderInv
  <1>0. ThreadTypeOK /\ BusTypeOK /\ CallInv /\ Len(queue) \in Nat
    BY DEF CoreInv, TypeOK, BusTypeOK
  <1>1. SentInv /\ GenInv /\ OrderInv /\ AckInv
    BY DEF ResetInv
  <1>2. start[t] \in Nat /\ start[t] <= generation /\ generation \in Nat
    BY <1>0, <1>1 DEF ThreadTypeOK, BusTypeOK, GenInv
  <1>3. ASSUME pc'[t] = "command", NEW i \in 1..Len(queue'), NEW j \in 1..Len(queue'), i < j,
               IsAck(i, Call(t))', IsFrame(j)'
        PROVE  start'[t] <= Gen(j)'
    <2>1. /\ start'[t] = start[t] /\ calls'[t] = calls[t]
          /\ pc[t] = "command" \/ (pc[t] = "send" /\ queue' = queue)
      BY <1>3, ThreadShape DEF Unmoved, OwnStep, Moves
    <2>2. queue'[i].type = "ack" /\ queue'[i].call = Call(t) /\ queue'[j].type = "fcp"
      BY <1>3, <2>1 DEF IsAck, IsFrame, Call
    <2>3. CASE pc[t] = "send" /\ queue' = queue
      <3>1. WasSent(Call(t))
        BY <1>1, <2>2, <2>3 DEF SentInv
      <3>2. ~WasSent(Call(t))
        BY <1>0, <2>3 DEF WasSent, Call, Unsent, ThreadTypeOK
      <3> QED BY <3>1, <3>2
    <2>4. CASE pc[t] = "command"
      <3>1. ASSUME NEW k \in 1..Len(queue), NEW l \in 1..Len(queue), k < l,
                   queue'[i] = queue[k], queue'[j] = queue[l]
            PROVE  start'[t] <= Gen(j)'
        <4>1. IsAck(k, Call(t)) /\ IsFrame(l)
          BY <2>2, <3>1 DEF IsAck, IsFrame
        <4>2. start[t] <= Gen(l)
          BY <1>1, <2>4, <3>1, <4>1 DEF OrderInv
        <4> QED BY <2>1, <3>1, <4>2 DEF Gen
      <3>2. ASSUME NEW s \in {0, 1}, Shifted(s) PROVE start'[t] <= Gen(j)'
        <4>1. i + s \in 1..Len(queue) /\ queue'[i] = queue[i + s]
          BY <3>2 DEF Shifted
        <4>2. j + s \in 1..Len(queue) /\ queue'[j] = queue[j + s]
          BY <3>2 DEF Shifted
        <4>3. i + s < j + s
          BY <1>3
        <4> QED BY <3>1, <4>1, <4>2, <4>3
      <3>3. ASSUME NEW d \in device, NEW e \in Events, NEW rest \in SUBSET Owed, Appended(d, e, rest)
            PROVE  start'[t] <= Gen(j)'
        <4>1. CASE j = Len(queue) + 1 /\ queue'[j] = e
          <5>1. queue'[j].frame.gen = generation
            BY <2>2, <3>3, <4>1 DEF Appended
          <5> QED BY <1>2, <2>1, <5>1 DEF Gen
        <4>2. CASE j \in 1..Len(queue) /\ queue'[j] = queue[j]
          <5>1. i \in 1..Len(queue) /\ queue'[i] = queue[i]
            BY <1>0, <1>3, <3>3, <4>2 DEF Appended
          <5> QED BY <1>3, <3>1, <4>2, <5>1
        <4> QED BY <1>3, <3>3, <4>1, <4>2 DEF Appended
      <3> QED BY <3>2, <3>3, QueueShape
    <2> QED BY <2>1, <2>3, <2>4
  <1>4. ASSUME Acked(t)', NEW i \in 1..Len(queue'), IsFrame(i)'
        PROVE  start'[t] <= Gen(i)'
    <2>1. start'[t] = start[t] /\ queue'[i].type = "fcp"
      BY <1>1, <1>4, AckedStep DEF IsFrame
    <2>2. CASE Acked(t)
      <3>1. ASSUME NEW k \in 1..Len(queue), queue'[i] = queue[k] PROVE start'[t] <= Gen(i)'
        BY <1>1, <2>1, <2>2, <3>1 DEF OrderInv, IsFrame, Gen
      <3>2. CASE Shifted(0) \/ Shifted(1)
        BY <3>1, <3>2 DEF Shifted
      <3>3. ASSUME NEW d \in device, NEW e \in Events, NEW rest \in SUBSET Owed, Appended(d, e, rest)
            PROVE  start'[t] <= Gen(i)'
        <4>1. CASE queue'[i] = e
          <5>1. queue'[i].frame.gen = generation
            BY <2>1, <3>3, <4>1 DEF Appended
          <5> QED BY <1>2, <2>1, <5>1 DEF Gen
        <4> QED BY <3>1, <3>3, <4>1 DEF Appended
      <3> QED BY <3>2, <3>3, QueueShape
    <2>3. CASE /\ pc[t] = "command" /\ queue # <<>> /\ queue' = Tail(queue)
               /\ Head(queue).type = "ack" /\ Head(queue).call = Call(t)
      <3>1. Head(queue) = queue[1] /\ 1 \in 1..Len(queue) /\ i + 1 \in 1..Len(queue)
            /\ queue'[i] = queue[i + 1]
        BY <1>0, <2>3, TailFacts DEF BusTypeOK
      <3>2. IsAck(1, Call(t)) /\ IsFrame(i + 1) /\ 1 < i + 1
        BY <2>1, <2>3, <3>1 DEF IsAck, IsFrame
      <3>3. start[t] <= Gen(i + 1)
        BY <1>1, <2>3, <3>1, <3>2 DEF OrderInv
      <3> QED BY <2>1, <3>1, <3>3 DEF Gen
    <2> QED BY <1>1, <1>4, <2>2, <2>3, AckedStep
  <1>5. ASSUME Acked(t)', disp'.pc # "idle" PROVE start'[t] <= disp'.frame.gen
    <2>1. start'[t] = start[t] /\ Acked(t)
      BY <1>1, <1>5, AckedStep
    <2>2. CASE disp.pc # "idle" /\ disp'.frame = disp.frame
      BY <1>1, <2>1, <2>2 DEF OrderInv
    <2>3. CASE queue # <<>> /\ Head(queue).type = "fcp" /\ disp'.frame = Head(queue).frame
      <3>1. Head(queue) = queue[1] /\ 1 \in 1..Len(queue)
        BY <1>0, <2>3 DEF BusTypeOK
      <3> QED BY <1>1, <2>1, <2>3, <3>1 DEF OrderInv, IsFrame, Gen
    <2> QED BY <1>5, <2>2, <2>3, EmissionStep
  <1> QED BY <1>3, <1>4, <1>5

LEMMA WaiterNext == CoreInv /\ ResetInv /\ [Next]_vars => WaiterInv'
  <1> SUFFICES ASSUME CoreInv, ResetInv, [Next]_vars, NEW t \in Threads
               PROVE  /\ pc'[t] \in Early => waiter'[t].state = "PENDING"
                      /\ pc'[t] \in Late /\ waiter'[t].state = "RESPONDED" =>
                            start'[t] <= waiter'[t].gen
                      /\ result'[t] = "ABORTED" => start'[t] < generation'
    BY DEF WaiterInv
  <1>0. /\ ThreadTypeOK /\ BusTypeOK /\ CallInv /\ LockInv /\ ListInv
        /\ GenInv /\ OrderInv /\ waiter[t] \in Waiters
    BY DEF CoreInv, ResetInv, TypeOK, ThreadTypeOK
  <1>1. /\ pc[t] \in Early => waiter[t].state = "PENDING"
        /\ pc[t] \in Late /\ waiter[t].state = "RESPONDED" => start[t] <= waiter[t].gen
        /\ result[t] = "ABORTED" => start[t] < generation
    BY DEF ResetInv, WaiterInv
  <1>2. t # "nobody"
    OBVIOUS
  <1>3. WaitAgain(t) => waiter'[t].state = "PENDING"
    BY <1>0 DEF WaitAgain, ThreadTypeOK, Waiters
  <1>4. ASSUME pc'[t] \in Early PROVE waiter'[t].state = "PENDING"
    <2>1. CASE Unmoved(t)
      <3>1. pc[t] \in Early
        BY <1>4, <2>1 DEF Unmoved
      <3>2. wmutex[t] = t
        BY <1>0, <3>1 DEF LockInv, Early, Holding
      <3>3. waiter[t].state = "PENDING"
        BY <1>1, <3>1
      <3> QED BY <1>2, <3>2, <3>3, WaiterStep, NewWaiterType
    <2>2. CASE OwnStep(t)
      BY <1>1, <1>4, <2>2, NewWaiterType DEF OwnStep, Moves, Early
    <2> QED BY <2>1, <2>2, ThreadShape
  <1>5. ASSUME pc'[t] \in Late, waiter'[t].state = "RESPONDED" PROVE start'[t] <= waiter'[t].gen
    <2>1. CASE Unmoved(t)
      <3>1. pc[t] \in Late /\ start'[t] = start[t]
        BY <1>5, <2>1 DEF Unmoved
      <3>2. CASE waiter'[t] = waiter[t]
        BY <1>1, <1>5, <3>1, <3>2
      <3>3. CASE /\ Visit /\ disp.frame \in Frames /\ InSeq(t, list)
                 /\ waiter'[t] = Responded(waiter[t], disp.frame)
        <4>1. pc[t] # "verdict" /\ disp.pc # "idle"
          BY <1>0, <3>3 DEF ListInv, Visit
        <4>2. Acked(t)
          BY <3>1, <4>1 DEF Late, Acked
        <4>3. waiter'[t].gen = disp.frame.gen
          BY <1>0, <3>3, RespondedType
        <4> QED BY <1>0, <3>1, <4>1, <4>2, <4>3 DEF OrderInv
      <3>4. ~Begin(t)
        BY <3>1 DEF Begin, Late
      <3> QED BY <1>3, <1>5, <3>2, <3>3, <3>4, WaiterStep
    <2>2. CASE OwnStep(t)
      BY <1>1, <1>3, <1>5, <2>2 DEF OwnStep, Moves, Early, Late
    <2> QED BY <2>1, <2>2, ThreadShape
  <1>6. ASSUME result'[t] = "ABORTED" PROVE start'[t] < generation'
    <2>1. start[t] \in Nat
      BY <1>0 DEF ThreadTypeOK
    <2>2. CASE Unmoved(t)
      <3>1. start'[t] = start[t] /\ start[t] < generation
        BY <1>1, <1>6, <2>2 DEF Unmoved
      <3> QED BY <2>1, <3>1, GenerationStep
    <2>3. CASE OwnStep(t)
      <3>1. /\ Finish(t) /\ pc[t] = "verdict" /\ start'[t] = start[t] /\ Verdict(t) = "ABORTED"
            /\ generation' = generation
        BY <1>0, <1>6, <2>3 DEF OwnStep, Moves, CallInv
      <3>2. waiter[t].state = "RESPONDED" /\ waiter[t].gen # start[t]
        BY <3>1 DEF Verdict
      <3>3. start[t] <= waiter[t].gen /\ waiter[t].gen <= generation /\ waiter[t].gen \in Nat
        BY <1>0, <1>1, <3>1, <3>2, WaiterFacts DEF Late, GenInv
      <3> QED BY <2>1, <3>1, <3>2, <3>3, GenerationStep
    <2> QED BY <2>2, <2>3, ThreadShape
  <1> QED BY <1>4, <1>5, <1>6

LEMMA ResetInit == Init => ResetInv
  <1> SUFFICES ASSUME Init PROVE ResetInv
    OBVIOUS
  <1>1. /\ queue = <<>> /\ device = {} /\ disp.pc = "idle" /\ generation = 0
        /\ \A t \in Threads : /\ pc[t] = "idle" /\ waiter[t] = NewWaiter /\ start[t] = 0
                             /\ result[t] = "none"
    BY DEF Init
  <1>2. Len(queue) = 0
    BY <1>1
  <1>3. 1..Len(queue) = {}
    BY <1>2
  <1>4. AckInv
    BY <1>1 DEF AckInv, Unsent
  <1>5. SentInv
    BY <1>1, <1>3, NewWaiterType DEF SentInv
  <1>6. GenInv
    BY <1>1, <1>3, NewWaiterType DEF GenInv
  <1>7. OrderInv
    BY <1>1, <1>3 DEF OrderInv, Acked
  <1>8. WaiterInv
    BY <1>1 DEF WaiterInv, Early, Late
  <1> QED BY <1>4, <1>5, <1>6, <1>7, <1>8 DEF ResetInv

LEMMA ResetAlways == Spec => []ResetInv
  <1>1. CoreInv /\ ResetInv /\ [Next]_vars => ResetInv'
    BY AckNext, SentNext, GenNext, OrderNext, WaiterNext DEF ResetInv
  <1> QED BY <1>1, ResetInit, CoreAlways, PTL DEF Spec

-----------------------------------------------------------------------------
\* Answers.

\* The entry of a command after a step: that of before, owing no more, or a new one.
LEMMA DeviceShape ==
    ASSUME CoreInv, [Next]_vars
    PROVE  \/ device' = device
           \/ \E t \in Threads : /\ SendCommand(t) /\ queue' = queue /\ ~WasSent(Call(t))
                                 /\ device' = device \cup {[call |-> Call(t), owed |-> Owed]}
           \/ \E d \in device, e \in Events, rest \in SUBSET Owed : Appended(d, e, rest)
  <1>1. ASSUME NEW t \in Threads, Begin(t) \/ ThreadStep(t)
        PROVE  device' = device \/ SendCommand(t)
    BY <1>1 DEF Begin, ThreadStep, Insert, ReadGeneration, CommandDone, CommandFailed,
              Wake, Expire, WaitAgain, Remove, Finish, outside
  <1>2. ASSUME NEW t \in Threads, SendCommand(t)
        PROVE  /\ queue' = queue /\ ~WasSent(Call(t))
               /\ device' = device \cup {[call |-> Call(t), owed |-> Owed]}
    <2>1. calls[t] \in Nat /\ pc[t] = "send"
      BY <1>2 DEF CoreInv, TypeOK, ThreadTypeOK, SendCommand
    <2>2. ~WasSent(Call(t))
      BY <2>1 DEF WasSent, Call, Unsent
    <2> QED BY <1>2, <2>2 DEF SendCommand
  <1>3. CASE DispatcherStep \/ UnbindStep \/ BusReset \/ UNCHANGED vars
    BY <1>3 DEF DispatcherStep, DispatchAck, DispatchResponse, EnterHandler, Visit, LeaveHandler,
              EmitDone, UnbindStep, Release, AbortBegin, Abort, AbortEnd, BusReset, vars, outside
  <1>4. CASE Ack \/ Interim \/ FinalAnswer
    <2>1. queue \in Seq(Events) /\ Len(queue) \in Nat
      BY DEF CoreInv, TypeOK, BusTypeOK
    <2>2. PICK e \in Events : queue' = Append(queue, e)
      BY <1>4, SentTypes DEF CoreInv, TypeOK, Sent
    <2>3. Len(queue') = Len(queue) + 1
      BY <2>1, <2>2, AppendFacts
    <2>4. ~Shifted(0) /\ ~Shifted(1)
      BY <2>1, <2>3 DEF Shifted
    <2> QED BY <2>4, QueueShape
  <1> QED BY <1>1, <1>2, <1>3, <1>4 DEF Next

LEMMA OwedStep ==
    ASSUME CoreInv, [Next]_vars, NEW b \in device'
    PROVE  \/ \E d \in device : d.call = b.call /\ b.owed \subseteq d.owed
           \/ ~WasSent(b.call)
  <1>0. device \subseteq [call: Calls, owed: SUBSET Owed]
    BY DEF CoreInv, TypeOK, BusTypeOK
  <1>1. CASE device' = device
    BY <1>1
  <1>2. ASSUME NEW t \in Threads, device' = device \cup {[call |-> Call(t), owed |-> Owed]},
               ~WasSent(Call(t))
        PROVE  (\E d \in device : d.call = b.call /\ b.owed \subseteq d.owed) \/ ~WasSent(b.call)
    BY <1>2
  <1>3. ASSUME NEW d \in device, NEW e \in Events, NEW rest \in SUBSET Owed, Appended(d, e, rest)
        PROVE  \E a \in device : a.call = b.call /\ b.owed \subseteq a.owed
    <2>1. CASE b \in device
      BY <2>1
    <2>2. CASE b \notin device
      <3>1. b = [d EXCEPT !.owed = rest] /\ rest \subseteq d.owed
        BY <1>3, <2>2 DEF Appended, Sent
      <3>2. b.call = d.call /\ b.owed = rest
        BY <1>0, <3>1
      <3> QED BY <3>1, <3>2
    <2> QED BY <2>1, <2>2
  <1> QED BY <1>1, <1>2, <1>3, DeviceShape

\* No frame comes of a command that has no frame to come.
LEMMA NoMoreNext ==
    ASSUME CoreInv, [Next]_vars, NEW c, WasSent(c), NoMore(c)
    PROVE  NoMore(c)'
  <1>1. ASSUME NEW i \in 1..Len(queue'), queue'[i].type = "fcp" PROVE queue'[i].frame.call # c
    <2>1. ASSUME NEW k \in 1..Len(queue), queue'[i] = queue[k] PROVE queue'[i].frame.call # c
      BY <1>1, <2>1 DEF NoMore, IsFrame
    <2>2. CASE Shifted(0) \/ Shifted(1)
      BY <1>1, <2>1, <2>2 DEF Shifted
    <2>3. ASSUME NEW d \in device, NEW e \in Events, NEW rest \in SUBSET Owed, Appended(d, e, rest)
          PROVE  queue'[i].frame.call # c
      <3>1. CASE queue'[i] = e
        <4>1. e.frame.call = d.call /\ ("INTERIM" \in d.owed \/ "FINAL" \in d.owed)
          BY <1>1, <2>3, <3>1 DEF Appended
        <4> QED BY <3>1, <4>1 DEF NoMore
      <3> QED BY <1>1, <2>1, <2>3, <3>1 DEF Appended
    <2> QED BY <2>2, <2>3, QueueShape
  <1>2. ASSUME NEW b \in device', b.call = c PROVE "INTERIM" \notin b.owed /\ "FINAL" \notin b.owed
    BY <1>2, OwedStep DEF NoMore
  <1> QED BY <1>1, <1>2 DEF NoMore, IsFrame

LEMMA FinalNext == CoreInv /\ ResetInv /\ FinalInv /\ [Next]_vars => FinalInv'
  <1> SUFFICES ASSUME CoreInv, ResetInv, FinalInv, [Next]_vars PROVE FinalInv'
    OBVIOUS
  <1>0. /\ ThreadTypeOK /\ BusTypeOK /\ CallInv /\ SentInv /\ Len(queue) \in Nat
        /\ device \subseteq [call: Calls, owed: SUBSET Owed]
    BY DEF CoreInv, ResetInv, TypeOK, BusTypeOK
  <1>1. ASSUME NEW a \in device', NEW b \in device', a.call = b.call PROVE a = b
    <2>1. CASE device' = device
      BY <1>1, <2>1 DEF FinalInv
    <2>2. ASSUME NEW t \in Threads, device' = device \cup {[call |-> Call(t), owed |-> Owed]},
                 ~WasSent(Call(t))
          PROVE  a = b
      <3>1. \A d \in device : d.call # Call(t)
        BY <1>0, <2>2 DEF SentInv
      <3> QED BY <1>1, <2>2, <3>1 DEF FinalInv
    <2>3. ASSUME NEW d \in device, NEW e \in Events, NEW rest \in SUBSET Owed, Appended(d, e, rest)
          PROVE  a = b
      <3> DEFINE n == [d EXCEPT !.owed = rest]
      <3>1. device' = (device \ {d}) \cup {n}
        BY <2>3 DEF Appended, Sent
      <3>2. n.call = d.call
        BY <1>0
      <3> HIDE DEF n
      <3> QED BY <1>1, <3>1, <3>2 DEF FinalInv
    <2> QED BY <2>1, <2>2, <2>3, DeviceShape
  <1>2. ASSUME NEW i \in 1..Len(queue'), queue'[i].type = "fcp", queue'[i].frame.status = "FINAL"
        PROVE  /\ \A j \in 1..Len(queue') : i < j /\ queue'[j].type = "fcp" =>
                        queue'[j].frame.call # queue'[i].frame.call
               /\ \A b \in device' : b.call = queue'[i].frame.call =>
                        "INTERIM" \notin b.owed /\ "FINAL" \notin b.owed
    <2>1. ASSUME NEW k \in 1..Len(queue), queue'[i] = queue[k], NEW b \in device',
                 b.call = queue'[i].frame.call
          PROVE  "INTERIM" \notin b.owed /\ "FINAL" \notin b.owed
      <3>1. IsFrame(k) /\ queue[k].frame.status = "FINAL" /\ b.call = queue[k].frame.call
        BY <1>2, <2>1 DEF IsFrame
      <3>2. WasSent(b.call)
        BY <1>0, <3>1 DEF SentInv
      <3> QED BY <2>1, <3>1, <3>2, OwedStep DEF FinalInv
    <2>2. ASSUME NEW s \in {0, 1}, Shifted(s)
          PROVE  /\ \A j \in 1..Len(queue') : i < j /\ queue'[j].type = "fcp" =>
                          queue'[j].frame.call # queue'[i].frame.call
                 /\ \A b \in device' : b.call = queue'[i].frame.call =>
                          "INTERIM" \notin b.owed /\ "FINAL" \notin b.owed
      <3>1. PICK k \in 1..Len(queue) : k = i + s /\ queue'[i] = queue[k]
        BY <2>2 DEF Shifted
      <3>2. ASSUME NEW j \in 1..Len(queue'), i < j, queue'[j].type = "fcp"
            PROVE  queue'[j].frame.call # queue'[i].frame.call
        <4>1. PICK l \in 1..Len(queue) : l = j + s /\ queue'[j] = queue[l]
          BY <2>2 DEF Shifted
        <4>2. IsFrame(k) /\ IsFrame(l) /\ k < l
          BY <1>2, <3>1, <3>2, <4>1 DEF IsFrame
        <4> QED BY <1>2, <3>1, <4>1, <4>2 DEF FinalInv
      <3> QED BY <2>1, <3>1, <3>2
    <2>3. ASSUME NEW d \in device, NEW e \in Events, NEW rest \in SUBSET Owed, Appended(d, e, rest)
          PROVE  /\ \A j \in 1..Len(queue') : i < j /\ queue'[j].type = "fcp" =>
                          queue'[j].frame.call # queue'[i].frame.call
                 /\ \A b \in device' : b.call = queue'[i].frame.call =>
                          "INTERIM" \notin b.owed /\ "FINAL" \notin b.owed
      <3>1. CASE i \in 1..Len(queue) /\ queue'[i] = queue[i]
        <4>1. IsFrame(i) /\ queue[i].frame.status = "FINAL"
          BY <1>2, <3>1 DEF IsFrame
        <4>2. ASSUME NEW j \in 1..Len(queue'), i < j, queue'[j].type = "fcp"
              PROVE  queue'[j].frame.call # queue'[i].frame.call
          <5>1. CASE j \in 1..Len(queue) /\ queue'[j] = queue[j]
            BY <3>1, <4>1, <4>2, <5>1 DEF FinalInv, IsFrame
          <5>2. CASE queue'[j] = e
            <6>1. e.frame.call = d.call /\ ("INTERIM" \in d.owed \/ "FINAL" \in d.owed)
              BY <2>3, <4>2, <5>2 DEF Appended
            <6> QED BY <3>1, <4>1, <5>2, <6>1 DEF FinalInv
          <5> QED BY <2>3, <4>2, <5>1, <5>2 DEF Appended
        <4> QED BY <2>1, <3>1, <4>2
      <3>2. CASE i = Len(queue) + 1 /\ queue'[i] = e
        <4>1. e.frame.call = d.call /\ rest = d.owed \ {"INTERIM", "FINAL"}
          BY <1>2, <2>3, <3>2 DEF Appended
        <4>2. \A j \in 1..Len(queue') : ~(i < j)
          BY <1>0, <2>3, <3>2 DEF Appended
        <4>3. ASSUME NEW b \in device', b.call = d.call
              PROVE  "INTERIM" \notin b.owed /\ "FINAL" \notin b.owed
          <5> DEFINE n == [d EXCEPT !.owed = rest]
          <5>1. device' = (device \ {d}) \cup {n}
            BY <2>3 DEF Appended, Sent
          <5>2. n.owed = rest
            BY <1>0
          <5> HIDE DEF n
          <5>3. b = n
            BY <4>3, <5>1 DEF FinalInv
          <5> QED BY <4>1, <5>2, <5>3
        <4> QED BY <3>2, <4>1, <4>2, <4>3
      <3> QED BY <1>2, <2>3, <3>1, <3>2 DEF Appended
    <2> QED BY <2>2, <2>3, QueueShape
  <1>3. ASSUME disp'.pc # "idle", disp'.frame.status = "FINAL", NEW c, c = disp'.frame.call
        PROVE  NoMore(c)'
    <2>1. CASE disp.pc # "idle" /\ disp'.frame = disp.frame
      <3>1. WasSent(c) /\ NoMore(c)
        BY <1>0, <1>3, <2>1 DEF SentInv, FinalInv
      <3> QED BY <3>1, NoMoreNext
    <2>2. CASE /\ queue # <<>> /\ Head(queue).type = "fcp" /\ disp'.frame = Head(queue).frame
               /\ queue' = Tail(queue) /\ device' = device
      <3>1. /\ Head(queue) = queue[1] /\ 1 \in 1..Len(queue)
            /\ \A i \in 1..Len(queue') : i + 1 \in 1..Len(queue) /\ queue'[i] = queue[i + 1]
        BY <1>0, <2>2, TailFacts DEF BusTypeOK
      <3>2. IsFrame(1) /\ queue[1].frame.status = "FINAL" /\ c = queue[1].frame.call
        BY <1>3, <2>2, <3>1 DEF IsFrame
      <3>3. ASSUME NEW i \in 1..Len(queue'), queue'[i].type = "fcp" PROVE queue'[i].frame.call # c
        <4>1. i + 1 \in 1..Len(queue) /\ queue'[i] = queue[i + 1] /\ 1 < i + 1
          BY <3>1
        <4> QED BY <3>1, <3>2, <3>3, <4>1 DEF FinalInv, IsFrame
      <3>4. \A b \in device' : b.call = c => "INTERIM" \notin b.owed /\ "FINAL" \notin b.owed
        BY <2>2, <3>1, <3>2 DEF FinalInv
      <3> QED BY <3>3, <3>4 DEF NoMore, IsFrame
    <2> QED BY <1>3, <2>1, <2>2, EmissionStep
  <1>4. ASSUME NEW t \in Threads, waiter'[t].frame.status = "FINAL", NEW c, c = waiter'[t].frame.call
        PROVE  NoMore(c)'
    <2>1. waiter[t] \in Waiters
      BY <1>0 DEF ThreadTypeOK
    <2>2. CASE waiter'[t].frame = waiter[t].frame
      <3>1. waiter[t].frame # NoFrame
        BY <1>4, <2>2, NoFrameFacts
      <3>2. WasSent(c) /\ NoMore(c)
        BY <1>0, <1>4, <2>2, <3>1 DEF SentInv, FinalInv
      <3> QED BY <3>2, NoMoreNext
    <2>3. CASE Visit /\ disp.frame \in Frames /\ waiter'[t] = Responded(waiter[t], disp.frame)
      <3>1. disp.pc # "idle"
        BY <2>3 DEF Visit
      <3>2. waiter'[t].frame = disp.frame \/ waiter'[t].frame = waiter[t].frame
        BY <2>1, <2>3, RespondedType
      <3>3. CASE waiter'[t].frame = disp.frame
        <4>1. WasSent(c) /\ NoMore(c)
          BY <1>0, <1>4, <3>1, <3>3 DEF SentInv, FinalInv
        <4> QED BY <4>1, NoMoreNext
      <3> QED BY <2>2, <3>2, <3>3
    <2> QED BY <1>4, <2>2, <2>3, WaiterStep, NewWaiterType, NoFrameFacts
  <1> QED BY <1>1, <1>2, <1>3, <1>4 DEF FinalInv, IsFrame, NoMore

LEMMA GaveupGrows == [Next]_vars => gaveup \subseteq gaveup'
  <1> SUFFICES ASSUME [Next]_vars PROVE gaveup \subseteq gaveup'
    OBVIOUS
  <1>1. ASSUME NEW t \in Threads, Begin(t) \/ ThreadStep(t) PROVE gaveup \subseteq gaveup'
    BY <1>1 DEF Begin, ThreadStep, Insert, ReadGeneration, SendCommand, CommandDone, CommandFailed,
              Wake, Expire, WaitAgain, Remove, Finish
  <1>2. CASE DispatcherStep \/ UnbindStep \/ Ack \/ Interim \/ FinalAnswer \/ BusReset \/ UNCHANGED vars
    BY <1>2 DEF DispatcherStep, DispatchAck, DispatchResponse, EnterHandler, Visit, LeaveHandler,
              EmitDone, UnbindStep, Release, AbortBegin, Abort, AbortEnd,
              Ack, Interim, FinalAnswer, BusReset, Sent, vars
  <1> QED BY <1>1, <1>2 DEF Next

\* What a call that returns TRUE has in its buffer.
LEMMA TrueFacts ==
    ASSUME CoreInv, FrameInv, NEW t \in Threads, pc[t] = "verdict", Verdict(t) = "TRUE"
    PROVE  /\ waiter[t].frame.status = "FINAL" /\ waiter[t].frame.gen = start[t]
           /\ Code[waiter[t].frame.call] = Code[Call(t)]
           /\ waiter[t].frame.call[1] = t =>
                 waiter[t].frame.call = Call(t) \/ waiter[t].frame.call \in gaveup
  <1>0. waiter[t] \in Waiters /\ start[t] \in Nat
    BY DEF CoreInv, TypeOK, ThreadTypeOK
  <1>1. /\ waiter[t].state = "RESPONDED" /\ waiter[t].gen = start[t]
        /\ ~(waiter[t].size > Capacity)
    BY DEF Verdict
  <1>2. waiter[t].frame # NoFrame /\ ~Deferred(t)
    BY <1>1 DEF FrameInv
  <1>3. waiter[t].frame \in Frames
    BY <1>0, <1>2, WaiterFacts
  <1>4. waiter[t].frame.status = "FINAL" /\ waiter[t].frame.gen \in Nat
    BY <1>1, <1>2, <1>3, FrameFacts DEF Deferred
  <1>5. start[t] <= waiter[t].frame.gen /\ waiter[t].frame.gen <= waiter[t].gen
    BY <1>2 DEF FrameInv
  <1>6. waiter[t].frame.gen = start[t]
    BY <1>0, <1>1, <1>4, <1>5
  <1> QED BY <1>2, <1>4, <1>6 DEF FrameInv

LEMMA OwnNext == CoreInv /\ ResetInv /\ AnswerInv /\ [Next]_vars => OwnInv'
  <1> DEFINE Over(t, k) == k < calls[t] \/ (k = calls[t] /\ pc[t] = "idle")
  <1> SUFFICES ASSUME CoreInv, ResetInv, AnswerInv, [Next]_vars, NEW t \in Threads, NEW k \in Nat,
                      1 <= k, <<t, k>> \notin gaveup',
                      k < calls'[t] \/ (k = calls'[t] /\ pc'[t] = "idle")
               PROVE  /\ NoMore(<<t, k>>)'
                      /\ disp'.pc # "idle" /\ disp'.frame.call = <<t, k>> => ~Acked(t)'
    BY DEF OwnInv
  <1>0. /\ ThreadTypeOK /\ BusTypeOK /\ CallInv /\ AckInv /\ calls[t] \in Nat
        /\ FinalInv /\ OwnInv /\ FrameInv
    BY DEF CoreInv, TypeOK, ThreadTypeOK, ResetInv, AnswerInv
  <1>1. <<t, k>> \notin gaveup
    BY GaveupGrows
  <1>2. CASE Over(t, k)
    <2>1. NoMore(<<t, k>>)
      BY <1>0, <1>1, <1>2 DEF OwnInv
    <2>2. WasSent(<<t, k>>)
      BY <1>2 DEF WasSent, Unsent
    <2>3. ASSUME disp'.pc # "idle", disp'.frame.call = <<t, k>>, Acked(t)' PROVE FALSE
      <3>1. CASE disp.pc # "idle" /\ disp'.frame = disp.frame
        <4>1. ~Acked(t)
          BY <1>0, <1>1, <1>2, <2>3, <3>1 DEF OwnInv
        <4> QED BY <1>0, <2>3, <3>1, <4>1, AckedStep
      <3>2. CASE queue # <<>> /\ Head(queue).type = "fcp" /\ disp'.frame = Head(queue).frame
        <4>1. Head(queue) = queue[1] /\ 1 \in 1..Len(queue)
          BY <1>0, <3>2 DEF BusTypeOK
        <4> QED BY <2>1, <2>3, <3>2, <4>1 DEF NoMore, IsFrame
      <3> QED BY <2>3, <3>1, <3>2, EmissionStep
    <2>4. NoMore(<<t, k>>)'
      BY <2>1, <2>2, NoMoreNext
    <2> QED BY <2>3, <2>4
  <1>3. CASE ~Over(t, k)
    <2>1. ASSUME Begin(t) PROVE FALSE
      <3>1. pc[t] = "idle" /\ pc'[t] = "insert" /\ calls'[t] = calls[t] + 1
        BY <1>0, <2>1 DEF Begin, ThreadTypeOK
      <3>2. k < calls[t] + 1
        BY <3>1
      <3> QED BY <1>0, <1>3, <3>1, <3>2
    <2>2. /\ calls'[t] = calls[t] /\ k = calls[t] /\ pc[t] # "idle" /\ pc'[t] = "idle"
      BY <1>0, <1>3, <2>1, ThreadShape DEF Unmoved, OwnStep, Moves
    <2>3. <<t, k>> = Call(t)
      BY <2>2 DEF Call
    <2>4. Finish(t) /\ pc[t] = "verdict"
      BY <2>2, <2>3, ThreadShape DEF Unmoved, OwnStep, Moves
    <2>5. Verdict(t) = "TRUE" /\ waiter[t].frame.call = Call(t)
      BY <2>3, <2>4 DEF Finish
    <2>6. waiter[t].frame.status = "FINAL"
      BY <1>0, <2>4, <2>5, TrueFacts
    <2>7. NoMore(<<t, k>>)
      BY <1>0, <2>3, <2>5, <2>6 DEF FinalInv
    <2>8. WasSent(<<t, k>>)
      BY <2>2, <2>4 DEF WasSent, Unsent
    <2>9. NoMore(<<t, k>>)'
      BY <2>7, <2>8, NoMoreNext
    <2>10. ~Acked(t)'
      BY <2>2 DEF Acked
    <2> QED BY <2>9, <2>10
  <1> QED BY <1>2, <1>3

\* The frame a handler stores is one of the call, or of one that gave up.
LEMMA VisitFrame ==
    ASSUME CoreInv, ResetInv, OwnInv, NEW t \in Threads, Visit, disp.frame \in Frames,
           InSeq(t, list), wmutex[t] = "nobody", pc[t] # "idle"
    PROVE  /\ pc[t] = "waiting" /\ start[t] <= disp.frame.gen /\ waiter[t].gen <= disp.frame.gen
           /\ disp.frame.call[1] = t => disp.frame.call = Call(t) \/ disp.frame.call \in gaveup
  <1>0. /\ ThreadTypeOK /\ LockInv /\ ListInv /\ SentInv /\ GenInv /\ OrderInv
        /\ disp.pc # "idle" /\ t # "nobody"
    BY DEF CoreInv, ResetInv, TypeOK, Visit
  <1>1. pc[t] = "waiting"
    BY <1>0 DEF ThreadTypeOK, LockInv, ListInv, Holding
  <1>2. Acked(t)
    BY <1>1 DEF Acked
  <1>3. start[t] <= disp.frame.gen /\ waiter[t].gen <= disp.frame.gen
    BY <1>0, <1>2 DEF OrderInv, GenInv
  <1>4. ASSUME NEW c \in Calls, c = disp.frame.call, c[1] = t
        PROVE  c = Call(t) \/ c \in gaveup
    <2>1. c = <<t, c[2]>> /\ c[2] \in Nat /\ 1 <= c[2]
      BY <1>4, CallFacts
    <2>2. WasSent(c)
      BY <1>0, <1>4 DEF SentInv
    <2>3. CASE c[2] < calls[t]
      BY <1>0, <1>2, <1>4, <2>1, <2>3 DEF OwnInv
    <2>4. CASE c[2] = calls[t]
      BY <2>1, <2>4 DEF Call
    <2> QED BY <1>4, <2>2, <2>3, <2>4 DEF WasSent
  <1>5. disp.frame.call \in Calls
    BY FrameFacts
  <1> QED BY <1>1, <1>3, <1>4, <1>5

LEMMA FrameNext == CoreInv /\ ResetInv /\ AnswerInv /\ [Next]_vars => FrameInv'
  <1> DEFINE Held(w, s, c, g) ==
               /\ w.state # "RESPONDED" => w.frame = NoFrame /\ w.size = Capacity
               /\ w.state = "RESPONDED" /\ w.frame = NoFrame => w.size > Capacity
               /\ w.frame # NoFrame =>
                     /\ Code[w.frame.call] = Code[c]
                     /\ s <= w.frame.gen /\ w.frame.gen <= w.gen
                     /\ w.frame.call[1] = c[1] => w.frame.call = c \/ w.frame.call \in g
  <1> SUFFICES ASSUME CoreInv, ResetInv, AnswerInv, [Next]_vars, NEW t \in Threads, pc'[t] # "idle"
               PROVE  /\ Held(waiter'[t], start'[t], Call(t)', gaveup')
                      /\ pc'[t] = "verdict" => ~Deferred(t)'
    <2>1. \A u : Call(u)'[1] = u
      BY DEF Call
    <2> QED BY <2>1 DEF FrameInv
  <1>0. /\ ThreadTypeOK /\ ListInv /\ waiter[t] \in Waiters /\ OwnInv /\ FrameInv /\ WaiterInv
        /\ Call(t)[1] = t
    BY DEF CoreInv, TypeOK, ThreadTypeOK, ResetInv, AnswerInv, Call
  <1>1. pc[t] # "idle" => Held(waiter[t], start[t], Call(t), gaveup)
    BY <1>0 DEF FrameInv
  <1>2. pc[t] # "idle" => calls'[t] = calls[t] /\ Call(t)' = Call(t)
    BY ThreadShape DEF Unmoved, OwnStep, Moves, Call
  <1>3. pc[t] = "idle" => waiter'[t] = NewWaiter
    BY ThreadShape DEF Unmoved, OwnStep, Moves
  <1>4. ASSUME pc[t] # "idle", waiter'[t] = waiter[t]
        PROVE  Held(waiter'[t], start'[t], Call(t)', gaveup')
    <2>1. start'[t] = start[t] \/ pc[t] = "generation"
      BY <1>4, ThreadShape DEF Unmoved, OwnStep, Moves
    <2>2. pc[t] = "generation" => waiter[t].state = "PENDING" /\ waiter[t].frame = NoFrame
      BY <1>0, <1>1, <1>4 DEF WaiterInv, Early
    <2> QED BY <1>1, <1>2, <1>4, <2>1, <2>2, GaveupGrows
  <1>5. Held(waiter'[t], start'[t], Call(t)', gaveup')
    <2>1. CASE waiter'[t].state = "PENDING" /\ waiter'[t].frame = NoFrame /\ waiter'[t].size = Capacity
      BY <2>1
    <2>2. CASE /\ pc[t] # "idle" /\ Visit /\ disp.frame \in Frames /\ InSeq(t, list)
               /\ wmutex[t] = "nobody" /\ Code[Call(t)] = Code[disp.frame.call]
               /\ waiter'[t] = Responded(waiter[t], disp.frame)
      <3>1. /\ pc[t] = "waiting" /\ start[t] <= disp.frame.gen /\ waiter[t].gen <= disp.frame.gen
            /\ disp.frame.call[1] = t => disp.frame.call = Call(t) \/ disp.frame.call \in gaveup
        BY <1>0, <2>2, VisitFrame
      <3>2. start'[t] = start[t]
        BY <2>2 DEF Visit, thread
      <3>3. /\ waiter'[t].state = "RESPONDED" /\ waiter'[t].gen = disp.frame.gen
            /\ waiter'[t].size = disp.frame.size
            /\ waiter'[t].frame = IF disp.frame.size <= waiter[t].size THEN disp.frame
                                                                      ELSE waiter[t].frame
        BY <1>0, <2>2, RespondedType
      <3>4. /\ disp.frame # NoFrame /\ disp.frame.size \in Nat /\ disp.frame.gen \in Nat
            /\ waiter[t].size \in Nat /\ waiter[t].gen \in Nat
        BY <1>0, <2>2, FrameFacts, WaiterFacts
      <3>5. CASE disp.frame.size <= waiter[t].size
        BY <1>0, <1>2, <2>2, <3>1, <3>2, <3>3, <3>4, <3>5, GaveupGrows
      <3>6. CASE ~(disp.frame.size <= waiter[t].size) /\ waiter[t].frame = NoFrame
        <4>1. waiter[t].size >= Capacity
          BY <1>1, <2>2, <3>4, <3>6
        <4> QED BY <3>3, <3>4, <3>6, <4>1
      <3>7. CASE ~(disp.frame.size <= waiter[t].size) /\ waiter[t].frame # NoFrame
        <4>1. waiter[t].frame.gen \in Nat
          BY <1>0, <3>7, WaiterFacts, FrameFacts
        <4>2. waiter[t].frame.gen <= waiter[t].gen /\ start[t] <= waiter[t].frame.gen
          BY <1>1, <2>2, <3>7
        <4>3. waiter[t].frame.gen <= disp.frame.gen
          BY <3>1, <3>4, <4>1, <4>2
        <4> QED BY <1>1, <1>2, <2>2, <3>2, <3>3, <3>7, <4>2, <4>3, GaveupGrows
      <3> QED BY <3>5, <3>6, <3>7
    <2>3. CASE /\ pc[t] # "idle" /\ waiter[t].state = "PENDING" /\ waiter'[t].state = "ABORTED"
               /\ waiter'[t].frame = waiter[t].frame /\ waiter'[t].size = waiter[t].size
      BY <1>1, <2>3
    <2> QED BY <1>3, <1>4, <2>1, <2>2, <2>3, WaiterStep, NewWaiterType
  <1>6. ASSUME pc'[t] = "verdict" PROVE ~Deferred(t)'
    <2>1. CASE Unmoved(t)
      <3>1. pc[t] = "verdict" /\ start'[t] = start[t] /\ ~InSeq(t, list) /\ ~Deferred(t)
        BY <1>0, <1>6, <2>1 DEF Unmoved, ListInv, FrameInv
      <3>2. ~Begin(t) /\ ~WaitAgain(t)
        BY <3>1 DEF Begin, WaitAgain
      <3>3. waiter'[t] = waiter[t]
        BY <3>1, <3>2, WaiterStep
      <3> QED BY <3>1, <3>3 DEF Deferred
    <2>2. CASE OwnStep(t)
      <3>1. ~Deferred(t) /\ waiter'[t] = waiter[t] /\ start'[t] = start[t]
        BY <1>6, <2>2 DEF OwnStep, Moves
      <3> QED BY <3>1 DEF Deferred
    <2> QED BY <2>1, <2>2, ThreadShape
  <1> QED BY <1>5, <1>6

LEMMA AnswerInit == Init => AnswerInv /\ TrueMeansFinalResponse
  <1> SUFFICES ASSUME Init PROVE AnswerInv /\ TrueMeansFinalResponse
    OBVIOUS
  <1>1. /\ queue = <<>> /\ device = {} /\ disp.pc = "idle"
        /\ \A t \in Threads : /\ pc[t] = "idle" /\ waiter[t] = NewWaiter /\ calls[t] = 0
                             /\ result[t] = "none"
    BY DEF Init
  <1>2. Len(queue) = 0
    BY <1>1
  <1>3. 1..Len(queue) = {}
    BY <1>2
  <1>4. FinalInv
    BY <1>1, <1>3, NewWaiterType, NoFrameFacts DEF FinalInv
  <1>5. OwnInv
    BY <1>1 DEF OwnInv
  <1>6. FrameInv
    BY <1>1 DEF FrameInv
  <1>7. TrueMeansFinalResponse
    BY <1>1 DEF TrueMeansFinalResponse
  <1> QED BY <1>4, <1>5, <1>6, <1>7 DEF AnswerInv

LEMMA TrueNext ==
    CoreInv /\ AnswerInv /\ TrueMeansFinalResponse /\ [Next]_vars => TrueMeansFinalResponse'
  <1> DEFINE Good(w, s, c, g) == /\ w.frame.status = "FINAL" /\ w.frame.gen = s
                                 /\ Code[w.frame.call] = Code[c]
                                 /\ w.frame.call[1] = c[1] => w.frame.call = c \/ w.frame.call \in g
  <1>1. ASSUME CoreInv, AnswerInv, TrueMeansFinalResponse, [Next]_vars, NEW t \in Threads,
               result'[t] = "TRUE"
        PROVE  Good(waiter'[t], start'[t], Call(t)', gaveup')
    <2>0. CallInv /\ ListInv /\ FrameInv /\ Call(t)[1] = t
      BY <1>1 DEF CoreInv, AnswerInv, Call
    <2>1. CASE Unmoved(t)
      <3>1. result[t] = "TRUE" /\ pc[t] = "idle" /\ pc'[t] = "idle" /\ ~InSeq(t, list)
        BY <1>1, <2>0, <2>1 DEF Unmoved, CallInv, ListInv
      <3>2. ~WaitAgain(t) /\ ~Begin(t)
        <4>1. Begin(t) => pc'[t] = "insert"
          BY <1>1 DEF Begin, CoreInv, TypeOK, ThreadTypeOK
        <4> QED BY <3>1, <4>1 DEF WaitAgain
      <3>3. waiter'[t] = waiter[t]
        BY <1>1, <3>1, <3>2, WaiterStep
      <3>4. Good(waiter[t], start[t], Call(t), gaveup)
        BY <1>1, <2>0, <3>1 DEF TrueMeansFinalResponse
      <3>5. start'[t] = start[t] /\ Call(t)' = Call(t)
        BY <2>1 DEF Unmoved, Call
      <3> QED BY <1>1, <3>3, <3>4, <3>5, GaveupGrows
    <2>2. CASE OwnStep(t)
      <3>1. /\ pc[t] = "verdict" /\ Verdict(t) = "TRUE" /\ start'[t] = start[t]
            /\ waiter'[t] = waiter[t] /\ calls'[t] = calls[t]
        BY <1>1, <2>0, <2>2 DEF OwnStep, Moves, CallInv
      <3>2. Good(waiter[t], start[t], Call(t), gaveup)
        BY <1>1, <2>0, <3>1, TrueFacts
      <3>3. Call(t)' = Call(t)
        BY <3>1 DEF Call
      <3> QED BY <1>1, <3>1, <3>2, <3>3, GaveupGrows
    <2> QED BY <1>1, <2>1, <2>2, ThreadShape
  <1>2. \A u : Call(u)'[1] = u
    BY DEF Call
  <1> QED BY <1>1, <1>2 DEF TrueMeansFinalResponse

LEMMA AnswerAlways == Spec => []AnswerInv
  <1>1. CoreInv /\ ResetInv /\ AnswerInv /\ [Next]_vars => AnswerInv'
    BY FinalNext, OwnNext, FrameNext DEF AnswerInv
  <1> QED BY <1>1, AnswerInit, CoreAlways, ResetAlways, PTL DEF Spec

-----------------------------------------------------------------------------
\* Theorems.

\* Every variable keeps its type, whatever threads, dispatcher, unbind and bus do
\* in between: the waiters (struct waiter, fw_fcp.c:308) and their list included.
THEOREM TypeCorrect == Spec => []TypeOK
  <1>1. CoreInv => TypeOK
    BY DEF CoreInv
  <1> QED BY <1>1, CoreAlways, PTL

\* While no command fails and nobody unbinds, no list traversal meets a waiter whose
\* call has returned (fw_fcp.c:328, 445, 713), for any number of threads and calls.
\* Both hypotheses are needed: fw_fcp.c:423 returns without unlinking the waiter.
THEOREM WaitersSafe ==
    ASSUME ~CommandFails, ~Unbinds
    PROVE  Spec => []WaitersLive
  <1>1. CoreInv => WaitersLive
    <2> SUFFICES ASSUME CoreInv, NEW t \in Threads,
                        InSeq(t, list) \/ InSeq(t, disp.rest) \/ InSeq(t, unbind.rest)
                 PROVE  pc[t] \in {"generation", "send", "command", "waiting", "woken"}
      BY DEF WaitersLive
    <2>1. InSeq(t, list) /\ result[t] # "COMMAND_FAILED"
      BY DEF CoreInv, ListInv, CommandsSucceed
    <2>2. pc[t] \notin {"insert", "verdict", "idle"}
      BY <2>1 DEF CoreInv, ListInv
    <2> QED BY <2>2 DEF CoreInv, TypeOK, ThreadTypeOK
  <1> QED BY <1>1, CoreAlways, PTL

\* ABORTED is reported only after a bus reset since the call read the generation
\* (fw_fcp.c:454), for any number of threads, calls and resets, commands that fail
\* and unbind included.
THEOREM AbortedSafe == Spec => []AbortedOnlyByReset
  <1>1. CoreInv /\ ResetInv => AbortedOnlyByReset
    <2> SUFFICES ASSUME CoreInv, ResetInv, NEW t \in Threads, result[t] = "ABORTED"
                 PROVE  generation > start[t]
      BY DEF AbortedOnlyByReset
    <2>1. start[t] < generation /\ start[t] \in Nat /\ generation \in Nat
      BY DEF CoreInv, ResetInv, WaiterInv, TypeOK, ThreadTypeOK, BusTypeOK
    <2> QED BY <2>1
  <1> QED BY <1>1, CoreAlways, ResetAlways, PTL

\* A call that returns TRUE hands over a final response of its own generation
\* (fw_fcp.c:434, 452) to a command with its two bytes (fw_fcp.c:331), and one of its
\* own thread only if it is its own or that of a call which returned without it: for
\* any number of threads, calls, resets and sizes, failures and unbind included.
THEOREM TrueSafe == Spec => []TrueMeansFinalResponse
  <1> QED BY AnswerInit, TrueNext, CoreAlways, AnswerAlways, PTL DEF Spec
===============================================================================
