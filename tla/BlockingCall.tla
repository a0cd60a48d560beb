----------------------------- MODULE BlockingCall -----------------------------
(***************************************************************************)
(* What a blocking call promises to the thread that makes it: abstract, no *)
(* registry, no dispatcher, no lock.  A call is in progress until it       *)
(* returns; a transaction receives at most one answer, the answer to its   *)
(* own request, and only while it is in progress; it returns TRUE if that  *)
(* answer was COMPLETE, and FALSE otherwise, without an answer (refused,   *)
(* not sent, timed out) too.  FwTransaction is shown to implement it.      *)
(***************************************************************************)
EXTENDS Naturals

CONSTANTS
    Threads,        \* the threads that make calls
    Rcodes          \* the codes an answer may have

VARIABLES
    phase,          \* phase[t]: "idle", or the kind of the call in progress
    calls,          \* calls[t]: the calls t has begun
    answer,         \* answer[t]: the answer to the current or last transaction
    ret             \* ret[t]: what the last call returned

vars == <<phase, calls, answer, ret>>

NoAnswer == [call |-> <<>>, rcode |-> "none"]

\* No call has been made.
Init ==
    /\ phase = [t \in Threads |-> "idle"]
    /\ calls = [t \in Threads |-> 0]
    /\ answer = [t \in Threads |-> NoAnswer]
    /\ ret = [t \in Threads |-> "none"]

\* A call begins.  A transaction forgets the answer of the one before.
Begin(t, k) ==
    /\ phase[t] = "idle"
    /\ phase' = [phase EXCEPT ![t] = k]
    /\ calls' = [calls EXCEPT ![t] = @ + 1]
    /\ answer' = [answer EXCEPT ![t] = IF k = "transaction" THEN NoAnswer ELSE @]
    /\ ret' = [ret EXCEPT ![t] = "none"]

\* The answer to the request of this very call is delivered, once.
Deliver(t, rc) ==
    /\ phase[t] = "transaction"
    /\ answer[t] = NoAnswer
    /\ answer' = [answer EXCEPT ![t] = [call |-> <<t, calls[t]>>, rcode |-> rc]]
    /\ UNCHANGED <<phase, calls, ret>>

\* What a call of kind k may return, with answer a.
Results(k, a) ==
    IF k = "transaction" THEN {IF a.rcode = "COMPLETE" THEN "TRUE" ELSE "FALSE"}
                         ELSE {"TRUE", "FALSE"}

Return(t) ==
    /\ phase[t] # "idle"
    /\ \E v \in Results(phase[t], answer[t]) : ret' = [ret EXCEPT ![t] = v]
    /\ phase' = [phase EXCEPT ![t] = "idle"]
    /\ UNCHANGED <<calls, answer>>

Next ==
    \E t \in Threads :
        \/ \E k \in {"transaction", "request"} : Begin(t, k)
        \/ \E rc \in Rcodes : Deliver(t, rc)
        \/ Return(t)

Spec == Init /\ [][Next]_vars
=============================================================================
