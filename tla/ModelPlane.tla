----------------------------- MODULE ModelPlane -----------------------------
(***************************************************************************)
(* AdmissionGate and the requests that pass through it: who waits for the  *)
(* engine, who is served next, who gives up.  A caller is one call of      *)
(* ModelPlaneClient.chat or stream.  It queues inside asyncio.wait_for, is *)
(* woken by the caller that releases a slot, posts to the engine with      *)
(* retries inside the slot, and releases it.                               *)
(*                                                                         *)
(* Everything between two awaits is one step.  What a deadline or a        *)
(* cancellation does to a caller that was woken but has not run again      *)
(* depends on asyncio.wait_for: before Python 3.12 the result of the       *)
(* future wins (KeepsResult), from 3.12 on, the version of the image, the  *)
(* cancellation does.                                                      *)
(***************************************************************************)
EXTENDS Naturals, FiniteSets

CONSTANTS
    Callers,      \* chat and stream calls, each made at most once
    Interactive,  \* those with somebody waiting; the others are background
    Streamed,    \* calls of stream, which are never retried
    Limit,        \* AdmissionGate.limit
    MaxAttempts,  \* _MAX_ATTEMPTS of the client
    KeepsResult   \* asyncio.wait_for of Python 3.11 (TRUE) or 3.12 (FALSE)

ASSUME ModelPlaneAssumption ==
    /\ IsFiniteSet(Callers)
    /\ Interactive \subseteq Callers /\ Streamed \subseteq Callers
    /\ Limit \in Nat \ {0} /\ MaxAttempts \in Nat \ {0}
    /\ KeepsResult \in BOOLEAN

VARIABLES
    active,   \* AdmissionGate._active
    waiters,  \* the callers in AdmissionGate._waiters
    ticket,   \* ticket[r]: _Waiter.sequence
    counter,  \* the next one
    fut,      \* fut[r]: the future of r's waiter
    mark,     \* what will be raised in r when it runs again
    callerPC,       \* callerPC[r]: where the call is
    tries     \* tries[r]: attempts _post has made

gateVars == <<active, waiters, ticket, counter, fut, mark, callerPC, tries>>

GatePCs == {"idle", "queued", "posting", "backing_off",
        "answered", "failed", "refused", "abandoned"}

GateTypeOK ==
    /\ active \in 0..Limit
    /\ waiters \subseteq Callers
    /\ ticket \in [Callers -> Nat] /\ counter \in Nat
    /\ fut \in [Callers -> {"pending", "set", "cancelled"}]
    /\ mark \in [Callers -> {"none", "timeout", "cancel"}]
    /\ callerPC \in [Callers -> GatePCs]
    /\ tries \in [Callers -> 0..MaxAttempts]

GateInit ==
    /\ active = 0 /\ waiters = {}
    /\ ticket = [r \in Callers |-> 0] /\ counter = 0
    /\ fut = [r \in Callers |-> "pending"]
    /\ mark = [r \in Callers |-> "none"]
    /\ callerPC = [r \in Callers |-> "idle"]
    /\ tries = [r \in Callers |-> 0]

-----------------------------------------------------------------------------
(* variant: everybody in order of arrival *)
BeforeByTicket(v, w) == ticket[v] < ticket[w]

(* _Waiter.__lt__ *)
Before(v, w) ==
    \/ v \in Interactive /\ w \notin Interactive
    \/ (v \in Interactive <=> w \in Interactive) /\ ticket[v] < ticket[w]

Live == {w \in waiters : fut[w] = "pending"}

GateGoto(r, label) == callerPC' = [callerPC EXCEPT ![r] = label]

FreeNow == active < Limit /\ waiters = {}

(* _acquire, up to its await: straight in, or into the queue *)
Arrive(r) ==
    /\ callerPC[r] = "idle"
    /\ IF FreeNow
       THEN /\ active' = active + 1
            /\ GateGoto(r, "posting")
            /\ tries' = [tries EXCEPT ![r] = 1]
            /\ UNCHANGED <<waiters, ticket, counter>>
       ELSE /\ waiters' = waiters \cup {r}
            /\ ticket' = [ticket EXCEPT ![r] = counter]
            /\ counter' = counter + 1
            /\ GateGoto(r, "queued")
            /\ UNCHANGED <<active, tries>>
    /\ UNCHANGED <<fut, mark>>

(* The deadline of wait_for passes, or the caller's task is cancelled *)
Marked(r, why) ==
    /\ callerPC[r] = "queued"
    /\ mark' = [mark EXCEPT ![r] = why]
    /\ fut' = IF fut[r] = "pending" /\ ~KeepsResult
              THEN [fut EXCEPT ![r] = "cancelled"] ELSE fut
    /\ UNCHANGED <<active, waiters, ticket, counter, callerPC, tries>>

(* variant: only interactive callers have a deadline *)
DeadlineInteractive(r) == r \in Interactive /\ mark[r] = "none" /\ Marked(r, "timeout")

Deadline(r) == mark[r] = "none" /\ Marked(r, "timeout")
Cancel(r)   == mark[r] # "cancel" /\ Marked(r, "cancel")

(* The caller runs again: the future's result or what was raised in it     *)
ResumeAdmitted(r) ==
    /\ callerPC[r] = "queued" /\ fut[r] = "set"
    /\ mark[r] = "none" \/ KeepsResult
    /\ GateGoto(r, "posting")
    /\ tries' = [tries EXCEPT ![r] = 1]
    /\ UNCHANGED <<active, waiters, ticket, counter, fut, mark>>

Raised(r) ==
    /\ callerPC[r] = "queued" /\ mark[r] # "none"
    /\ fut[r] # "set" \/ ~KeepsResult

ResumeRefused(r) ==
    /\ Raised(r) /\ mark[r] = "timeout"
    /\ waiters' = waiters \ {r}
    /\ fut' = IF fut[r] = "pending" THEN [fut EXCEPT ![r] = "cancelled"] ELSE fut
    /\ GateGoto(r, "refused")
    /\ UNCHANGED <<active, ticket, counter, mark, tries>>

(* Only TimeoutError is caught: the waiter stays, its future cancelled     *)
ResumeAbandoned(r) ==
    /\ Raised(r) /\ mark[r] = "cancel"
    /\ fut' = IF fut[r] = "pending" THEN [fut EXCEPT ![r] = "cancelled"] ELSE fut
    /\ GateGoto(r, "abandoned")
    /\ UNCHANGED <<active, waiters, ticket, counter, mark, tries>>

-----------------------------------------------------------------------------
First(w, S) == \A v \in S \ {w} : Before(w, v)

(* variant: a dead waiter at the head takes the wake-up *)
ReleaseToHead ==
    IF waiters = {}
    THEN active' = active - 1 /\ UNCHANGED <<waiters, fut>>
    ELSE \E w \in waiters :
            /\ First(w, waiters)
            /\ waiters' = waiters \ {w}
            /\ IF w \in Live THEN fut' = [fut EXCEPT ![w] = "set"] /\ active' = active
                             ELSE fut' = fut /\ active' = active - 1
(* variant: the newest is woken first *)
ReleaseNewest ==
    IF Live = {}
    THEN active' = active - 1 /\ waiters' = {} /\ fut' = fut
    ELSE \E w \in Live :
            /\ \A v \in Live \ {w} : ticket[v] < ticket[w]
            /\ waiters' = waiters \ {w}
            /\ fut' = [fut EXCEPT ![w] = "set"]
            /\ active' = active
(* variant: the slot is handed on and counted free as well *)
ReleaseTwice ==
    /\ active' = active - 1
    /\ IF Live = {}
       THEN waiters' = {} /\ fut' = fut
       ELSE \E w \in Live : /\ First(w, Live)
                            /\ waiters' = {v \in waiters : Before(w, v)}
                            /\ fut' = [fut EXCEPT ![w] = "set"]

(* _release: pop the queue up to the first waiter that is still waiting.   *)
(* active is below Limit there, so the loop ends at it or at the empty queue *)
Release ==
    IF Live = {}
    THEN active' = active - 1 /\ waiters' = {} /\ fut' = fut
    ELSE \E w \in Live :
            /\ First(w, Live)
            /\ waiters' = {v \in waiters : Before(w, v)}
            /\ fut' = [fut EXCEPT ![w] = "set"]
            /\ active' = active

Leave(r, label) ==
    /\ GateGoto(r, label)
    /\ Release
    /\ UNCHANGED <<ticket, counter, mark, tries>>

(* _post and _stream_post, inside the slot *)
Answered(r) == callerPC[r] = "posting" /\ Leave(r, "answered")

MayRetry(r) == r \notin Streamed /\ tries[r] < MaxAttempts

FailsForGood(r) == callerPC[r] = "posting" /\ Leave(r, "failed")

FailsRetryably(r) ==
    /\ callerPC[r] = "posting" /\ MayRetry(r)
    /\ GateGoto(r, "backing_off")
    /\ UNCHANGED <<active, waiters, ticket, counter, fut, mark, tries>>

Retry(r) ==
    /\ callerPC[r] = "backing_off"
    /\ GateGoto(r, "posting")
    /\ tries' = [tries EXCEPT ![r] = @ + 1]
    /\ UNCHANGED <<active, waiters, ticket, counter, fut, mark>>

(* The client disconnects, or the scheduler is stopped, during the request *)
CancelInSlot(r) == callerPC[r] \in {"posting", "backing_off"} /\ Leave(r, "abandoned")

Step(r) ==
    \/ Arrive(r) \/ Deadline(r) \/ Cancel(r)
    \/ ResumeAdmitted(r) \/ ResumeRefused(r) \/ ResumeAbandoned(r)
    \/ Answered(r) \/ FailsForGood(r) \/ FailsRetryably(r) \/ Retry(r)
    \/ CancelInSlot(r)

GateNext == \E r \in Callers : Step(r)

(* The loop's timers fire and its ready callbacks run; nothing is assumed  *)
(* of the engine, of new callers or of clients                             *)
GateFairness ==
    \A r \in Callers :
        /\ WF_gateVars(Deadline(r)) /\ WF_gateVars(ResumeAdmitted(r))
        /\ WF_gateVars(ResumeRefused(r)) /\ WF_gateVars(ResumeAbandoned(r))

GateSpec == GateInit /\ [][GateNext]_gateVars /\ GateFairness

-----------------------------------------------------------------------------
(* Properties *)

Woken   == {r \in Callers : callerPC[r] = "queued" /\ fut[r] = "set"}
InSlot  == {r \in Callers : callerPC[r] \in {"posting", "backing_off"}}
Holders == Woken \cup InSlot

(* The gate never has more requests at the engine, or on their way there,  *)
(* than slots it counts, and never counts more slots than it has.          *)
EngineWithinLimit == Cardinality(Holders) <= active /\ active <= Limit

(* Nobody waits while a slot is free (_acquire queues only behind a full   *)
(* gate, _release wakes before it frees), whatever callers died waiting.   *)
WorkConserving == waiters # {} => active = Limit

(* A slot goes to the waiter that sorts first: no interactive request      *)
(* waits while a background one is woken, and equals go in arrival order.  *)
ServedInOrder ==
    [][\A r \in Callers :
          (r \in Holders' \ Holders) =>
             \A w \in Live' : callerPC[r] = "idle" \/ Before(r, w)]_gateVars

(* A request that queues is never left hanging: it is served, refused or   *)
(* gone, even if the engine never answers anybody.                         *)
NoneHangs == \A r \in Callers : callerPC[r] = "queued" ~> callerPC[r] # "queued"

(* A refused or abandoned request does not cost a slot.                    *)
SlotsAccounted == active = Cardinality(Holders)

(* The order of the heap, among those still waiting.                       *)
InLine == {p \in Live \X Live : Before(p[1], p[2])}

Slots == INSTANCE PrioritySlots
         WITH using <- Holders, waiting <- Live, ahead <- InLine,
              free <- Limit - active, Leaky <- ~KeepsResult

(* For its callers the gate is a set of slots with a priority queue: its   *)
(* counter, its sequence numbers, dead waiters in its heap, marks and      *)
(* futures that are set before they are seen show in no other way than     *)
(* slots taken, handed on in order, given up and, from 3.12 on, lost.      *)
ImplementsSlots == Slots!Spec

-----------------------------------------------------------------------------
(* The inductive invariant behind the theorems of ModelPlaneProofs: who is *)
(* in the list was not woken and has a number below the next, only a       *)
(* queued caller can be in it, and one that has not arrived left no trace. *)
WaiterInv ==
    \A r \in Callers :
        /\ r \in waiters => /\ fut[r] # "set" /\ callerPC[r] \in {"queued", "abandoned"}
                            /\ ticket[r] < counter
        /\ r \in waiters /\ fut[r] = "pending" => callerPC[r] = "queued"
        /\ callerPC[r] = "idle" => fut[r] = "pending"
        /\ callerPC[r] \in {"posting", "backing_off"} => tries[r] \in 1..MaxAttempts
        /\ callerPC[r] = "backing_off" => tries[r] < MaxAttempts

SlotInv ==
    /\ WaiterInv
    /\ EngineWithinLimit
    /\ WorkConserving
    /\ KeepsResult => SlotsAccounted
=============================================================================
