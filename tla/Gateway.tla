------------------------------ MODULE Gateway ------------------------------
(***************************************************************************)
(* McpGateway.call, the one door between agents and connectors: policy,    *)
(* rate limit, circuit breaker, governance, the connector, the read-back   *)
(* of a write (ActionVerifier), and the audit record of every exit.  Calls *)
(* run concurrently on one event loop and share the limiter and breaker.   *)
(*                                                                         *)
(* A call suspends only where it awaits: on governance, on the connector,  *)
(* on its read-back and on the audit sink; pc names the await.  A read-back*)
(* is a call of its own, made by the write it checks.  One connector and   *)
(* one principal are modelled: the breaker is kept per connector and the   *)
(* limiter per (principal, tool), and no step reads across those keys.     *)
(* What policy and governance decide is a choice; time is a counter.       *)
(***************************************************************************)
EXTENDS Integers

CONSTANTS
    Never,       \* no time
    Reads, Writes, Readbacks, \* calls, each made at most once
    ReadbackOf,  \* the read-back each write would be checked by
    Threshold,   \* CircuitBreaker.failure_threshold
    Cooldown,    \* CircuitBreaker.cooldown_s
    Capacity,    \* RateLimiter.capacity, in what refills in one unit of time
    Cost,        \* one token, in the same unit
    MaxTime      \* bound on the clock

Calls == Reads \cup Writes
Frames == Calls \cup Readbacks

ASSUME GatewayAssumption ==
    /\ Never \notin Nat
    /\ Reads \cap Writes = {} /\ Calls \cap Readbacks = {}
    /\ ReadbackOf \in [Writes -> Readbacks]
    /\ \A v, w \in Writes : ReadbackOf[v] = ReadbackOf[w] => v = w
    /\ Threshold \in Nat \ {0} /\ Cooldown \in Nat \ {0}
    /\ Cost \in Nat \ {0} /\ Capacity \in Nat /\ Capacity >= Cost
    /\ MaxTime \in Nat

VARIABLES
    now,
    pc,
    outcome,   \* the outcome the call is about to record
    verdict,   \* what verification made of a write
    standing,  \* writes whose record, in the system behind, is now as asked
    found,     \* what the read-back of a write saw of that record
    log,       \* the outcome on the call's audit record, if it has one
    failures, opened,      \* CircuitBreaker, for the connector
    streak, lastFailure,   \* ServerState, for the connector
    tokens, stamp,         \* RateLimiter, for the read tool and the write tool
    (* history, written and never read *)
    reached,   \* calls the connector was asked to make
    landed,    \* writes that took effect
    meddled,   \* writes whose record somebody else has changed meanwhile
    passed     \* calls the limiter let through, per tool

vars == <<now, pc, outcome, verdict, standing, found, log, failures, opened,
          streak, lastFailure, tokens, stamp, reached, landed, meddled, passed>>

breaker == <<failures, opened>>
health  == <<streak, lastFailure>>
limiter == <<tokens, stamp, passed>>
records == <<standing, found, landed, meddled>>
world   == <<reached, records>>

(* A tool that is not in the catalogue counts among the denied *)
Refusals == {"denied", "rate_limited", "circuit_open", "held_for_approval"}
Outcomes == Refusals \cup {"allowed", "failed", "unconfirmed"}
Verdicts == {"none", "confirmed", "contradicted", "unverifiable", "unavailable"}
Sights == {"nothing", "asked", "other"}
PCs == {"idle", "called", "governing", "executing", "verifying", "auditing", "done", "cancelled"}
Tools == {"read", "write"}
Tool(f) == IF f \in Writes THEN "write" ELSE "read"
Times == 0..MaxTime

TypeOK ==
    /\ now \in Times
    /\ pc \in [Frames -> PCs]
    /\ outcome \in [Frames -> Outcomes \cup {"none"}]
    /\ verdict \in [Writes -> Verdicts] /\ found \in [Writes -> Sights]
    /\ log \in [Frames -> Outcomes \cup {"none"}]
    /\ failures \in Nat /\ opened \in Times \cup {Never}
    /\ streak \in Nat /\ lastFailure \in Times \cup {Never}
    /\ tokens \in [Tools -> 0..Capacity] /\ stamp \in [Tools -> Times]
    /\ reached \subseteq Frames
    /\ standing \subseteq Writes /\ landed \subseteq Writes /\ meddled \subseteq Writes
    /\ passed \in [Tools -> Nat]

Init ==
    /\ now = 0
    /\ pc = [f \in Frames |-> IF f \in Calls THEN "called" ELSE "idle"]
    /\ outcome = [f \in Frames |-> "none"]
    /\ verdict = [w \in Writes |-> "none"]
    /\ standing = {} /\ found = [w \in Writes |-> "nothing"]
    /\ log = [f \in Frames |-> "none"]
    /\ failures = 0 /\ opened = Never
    /\ streak = 0 /\ lastFailure = Never
    /\ tokens = [t \in Tools |-> Capacity] /\ stamp = [t \in Tools |-> 0]
    /\ reached = {} /\ landed = {} /\ meddled = {}
    /\ passed = [t \in Tools |-> 0]

Goto(f, label) == pc' = [pc EXCEPT ![f] = label]

(* The branch of call that is taken ends by recording o *)
Recording(f, o) ==
    /\ Goto(f, "auditing")
    /\ outcome' = [outcome EXCEPT ![f] = o]

-----------------------------------------------------------------------------
(* RateLimiter.check: the bucket refills, and is stamped, whatever it says *)
Level(t) == IF tokens[t] + (now - stamp[t]) > Capacity
            THEN Capacity ELSE tokens[t] + (now - stamp[t])

(* variant: the bucket may be overdrawn by a part of a token *)
LimitedAtZero(f) == Level(Tool(f)) < 1

Limited(f) == Level(Tool(f)) < Cost

(* variant: the stamp moves only when a token is spent *)
RefusesUnstamped(t) ==
    /\ tokens' = [tokens EXCEPT ![t] = Level(t)]
    /\ UNCHANGED <<stamp, passed>>

Refuses(t) ==
    /\ tokens' = [tokens EXCEPT ![t] = Level(t)]
    /\ stamp' = [stamp EXCEPT ![t] = now]
    /\ UNCHANGED passed

Spends(t) ==
    /\ tokens' = [tokens EXCEPT ![t] = Level(t) - Cost]
    /\ stamp' = [stamp EXCEPT ![t] = now]
    /\ passed' = [passed EXCEPT ![t] = @ + 1]

(* CircuitBreaker.is_open, which closes a circuit that has cooled down but *)
(* leaves it one failure short of opening again                            *)
StillOpen == opened # Never /\ now - opened < Cooldown

(* variant: a cooled circuit starts from nothing *)
IsOpenAskedAfresh ==
    IF opened # Never /\ ~StillOpen
    THEN opened' = Never /\ failures' = 0
    ELSE UNCHANGED breaker

IsOpenAsked ==
    IF opened # Never /\ ~StillOpen
    THEN opened' = Never /\ failures' = Threshold - 1
    ELSE UNCHANGED breaker

(* From the top of call to its first await *)
RefusedByPolicy(f) ==
    /\ pc[f] = "called"
    /\ Recording(f, "denied")
    /\ UNCHANGED <<now, verdict, log, breaker, health, limiter, world>>

RefusedByLimiter(f) ==
    /\ pc[f] = "called" /\ Limited(f)
    /\ Refuses(Tool(f))
    /\ Recording(f, "rate_limited")
    /\ UNCHANGED <<now, verdict, log, breaker, health, world>>

RefusedByBreaker(f) ==
    /\ pc[f] = "called" /\ ~Limited(f) /\ StillOpen
    /\ Spends(Tool(f))
    /\ IsOpenAsked
    /\ Recording(f, "circuit_open")
    /\ UNCHANGED <<now, verdict, log, health, world>>

Admitted(f) ==
    /\ pc[f] = "called" /\ ~Limited(f) /\ ~StillOpen
    /\ Spends(Tool(f))
    /\ IsOpenAsked
    /\ Goto(f, "governing")
    /\ UNCHANGED <<now, outcome, verdict, log, health, world>>

Authorized(f) ==
    /\ pc[f] = "governing"
    /\ Goto(f, "executing")
    /\ reached' = reached \cup {f}
    /\ UNCHANGED <<now, outcome, verdict, log, breaker, health, limiter, records>>

Held(w) ==
    /\ w \in Writes /\ pc[w] = "governing"
    /\ Recording(w, "held_for_approval")
    /\ UNCHANGED <<now, verdict, log, breaker, health, limiter, world>>

-----------------------------------------------------------------------------
(* The connector answers.  A write may have landed whatever it says, and   *)
(* has left the record as it asked if it has.                              *)
MayLand(f) ==
    /\ \E landing \in {{}, {f} \cap Writes} :
          landed' = landed \cup landing /\ standing' = standing \cup landing
    /\ UNCHANGED <<found, meddled>>

(* A read-back sees the record as it is when the connector reads it, which *)
(* need not be what the write it checks has made of it                     *)
Sight(w) == IF w \in standing THEN "asked" ELSE "other"

Looks(f) ==
    /\ found' = [w \in Writes |-> IF ReadbackOf[w] = f THEN Sight(w) ELSE found[w]]
    /\ UNCHANGED <<standing, landed, meddled>>

RecordSuccess ==
    /\ failures' = 0 /\ opened' = Never
    /\ streak' = 0 /\ UNCHANGED lastFailure

RecordFailure ==
    /\ failures' = failures + 1
    /\ opened' = IF failures + 1 >= Threshold THEN now ELSE opened
    /\ streak' = streak + 1 /\ lastFailure' = now

(* variant: the branch of an exception returns without its record *)
ReportsFailureUnaudited(f) ==
    /\ pc[f] = "executing"
    /\ MayLand(f) /\ RecordFailure
    /\ Goto(f, "done")
    /\ UNCHANGED <<now, outcome, verdict, log, limiter, reached>>

(* It raises, or returns a result that is not ok *)
ReportsFailure(f) ==
    /\ pc[f] = "executing"
    /\ MayLand(f) /\ RecordFailure
    /\ Recording(f, "failed")
    /\ UNCHANGED <<now, verdict, log, limiter, reached>>

Reports(f) ==
    /\ pc[f] = "executing" /\ f \notin Writes
    /\ Looks(f) /\ RecordSuccess
    /\ Recording(f, "allowed")
    /\ UNCHANGED <<now, verdict, log, limiter, reached>>

(* A write nobody can plan a read-back for is unverifiable, and one whose  *)
(* plan could not be made unavailable                                      *)
ReportsUnread(w) ==
    /\ w \in Writes /\ pc[w] = "executing"
    /\ MayLand(w) /\ RecordSuccess
    /\ \E v \in {"unverifiable", "unavailable"} : verdict' = [verdict EXCEPT ![w] = v]
    /\ Recording(w, "allowed")
    /\ UNCHANGED <<now, log, limiter, reached>>

ReportsAndReadsBack(w) ==
    /\ w \in Writes /\ pc[w] = "executing"
    /\ MayLand(w) /\ RecordSuccess
    /\ pc' = [pc EXCEPT ![w] = "verifying", ![ReadbackOf[w]] = "called"]
    /\ UNCHANGED <<now, outcome, verdict, log, limiter, reached>>

(* ActionVerifier.verify once the read-back has answered: the predicate    *)
(* compares what was read with what was asked, or cannot settle it         *)
Shown(w) == IF found[w] = "asked" THEN "confirmed" ELSE "contradicted"

(* variant: a read-back that failed is judged all the same *)
VerdictsOfAny(w) == {Shown(w), "unavailable"}

VerdictsOf(w) ==
    IF log[ReadbackOf[w]] = "allowed" THEN {Shown(w), "unavailable"} ELSE {"unavailable"}

Judged(w, v) ==
    /\ verdict' = [verdict EXCEPT ![w] = v]
    /\ outcome' = [outcome EXCEPT ![w] = IF v = "contradicted" THEN "unconfirmed" ELSE "allowed"]

Verified(w) ==
    /\ pc[w] = "verifying" /\ pc[ReadbackOf[w]] = "done"
    /\ \E v \in VerdictsOf(w) : Judged(w, v)
    /\ Goto(w, "auditing")
    /\ UNCHANGED <<now, log, breaker, health, limiter, world>>

(* variant: the read-back is awaited for as long as it takes *)
NoTimeout(w) == FALSE /\ UNCHANGED vars

(* variant: the read-back goes on behind the back of the write *)
TimeoutShielded(w) ==
    /\ pc[w] = "verifying" /\ pc[ReadbackOf[w]] # "done"
    /\ Goto(w, "auditing")
    /\ Judged(w, "unavailable")
    /\ UNCHANGED <<now, log, breaker, health, limiter, world>>

(* asyncio.timeout cancels the read-back wherever it is suspended *)
VerifyTimeout(w) ==
    /\ pc[w] = "verifying" /\ pc[ReadbackOf[w]] # "done"
    /\ pc' = [pc EXCEPT ![w] = "auditing", ![ReadbackOf[w]] = "cancelled"]
    /\ Judged(w, "unavailable")
    /\ UNCHANGED <<now, log, breaker, health, limiter, world>>

Audit(f) ==
    /\ pc[f] = "auditing"
    /\ log' = [log EXCEPT ![f] = outcome[f]]
    /\ Goto(f, "done")
    /\ UNCHANGED <<now, outcome, verdict, breaker, health, limiter, world>>

-----------------------------------------------------------------------------
(* Somebody else changes the record a write is about, by the system's own  *)
(* screens say: it is as the write asks although the write has not landed, *)
(* or no longer although it has.  What changes once it is read is left out.*)
Elsewhere(w) ==
    /\ pc[w] \in {"executing", "verifying"} /\ found[w] = "nothing"
    /\ standing' = IF w \in standing THEN standing \ {w} ELSE standing \cup {w}
    /\ meddled' = meddled \cup {w}
    /\ UNCHANGED <<now, pc, outcome, verdict, found, log, breaker, health, limiter, reached, landed>>

(* The request this call belongs to is cancelled, and what it awaits too   *)
Cancel(f) ==
    /\ f \in Calls /\ pc[f] \in {"governing", "executing", "verifying", "auditing"}
    /\ pc' = [g \in Frames |->
                IF g = f \/ (pc[f] = "verifying" /\ g = ReadbackOf[f] /\ pc[g] # "done")
                THEN "cancelled" ELSE pc[g]]
    /\ UNCHANGED <<now, outcome, verdict, log, breaker, health, limiter, world>>

(* server_health asks the breaker too, on behalf of whoever looks *)
HealthPoll ==
    /\ IsOpenAsked
    /\ UNCHANGED <<now, pc, outcome, verdict, log, health, limiter, world>>

Tick ==
    /\ now < MaxTime
    /\ now' = now + 1
    /\ UNCHANGED <<pc, outcome, verdict, log, breaker, health, limiter, world>>

FirstAwait(f) == RefusedByPolicy(f) \/ RefusedByLimiter(f) \/ RefusedByBreaker(f) \/ Admitted(f)
Answered(f) ==
    \/ ReportsFailure(f) \/ Reports(f)
    \/ ReportsUnread(f) \/ ReportsAndReadsBack(f)

Next ==
    \/ \E f \in Frames : FirstAwait(f) \/ Authorized(f) \/ Held(f) \/ Answered(f) \/ Audit(f) \/ Cancel(f)
    \/ \E w \in Writes : Verified(w) \/ VerifyTimeout(w) \/ Elsewhere(w)
    \/ HealthPoll \/ Tick

(* The loop runs a verification on, and its timer fires.  Nothing is asked *)
(* of the connector.                                                       *)
Fairness == \A w \in Writes : WF_vars(Verified(w)) /\ WF_vars(VerifyTimeout(w)) /\ WF_vars(Audit(w))

Spec == Init /\ [][Next]_vars /\ Fairness

-----------------------------------------------------------------------------
(* Properties *)

(* The breaker and the health surface are two counters fed by the same     *)
(* answers: when health has seen Threshold failures in a row and the last  *)
(* is younger than the cooldown, the circuit is open, through every half-  *)
(* open, poll and late success.                                            *)
OutageTripsBreaker ==
    streak >= Threshold /\ now - lastFailure < Cooldown => opened # Never

(* A call that returned has its record, and the record says whether the    *)
(* connector was reached (no exit path of call skips the audit).           *)
EveryReturnAudited ==
    \A f \in Frames : pc[f] = "done" =>
        /\ log[f] # "none"
        /\ log[f] \in Refusals <=> f \notin reached

(* Confirmed and contradicted rest on a read-back that was itself allowed, *)
(* read and audited; one refused by the limiter or an open circuit, or     *)
(* timed out, is neither.  A read-back sees the record and not the write:  *)
(* the verdict is wrong about the write only where somebody else changed   *)
(* the record between the asking and the reading.                          *)
VerdictsAreEarned ==
    \A w \in Writes :
        /\ verdict[w] \in {"confirmed", "contradicted"} => log[ReadbackOf[w]] = "allowed"
        /\ verdict[w] = "confirmed" => w \in landed \cup meddled
        /\ log[w] = "unconfirmed" => w \in reached /\ w \notin landed \ meddled

(* A tool is never let through more often than a full bucket and what the  *)
(* clock has refilled, however refusals and calls interleave.              *)
RateBound == \A t \in Tools : Cost * passed[t] + tokens[t] <= Capacity + stamp[t]

(* A write returns although its read-back hangs (verification never blocks *)
(* the write).                                                             *)
WriteReturns == \A w \in Writes : pc[w] = "verifying" ~> pc[w] \in {"done", "cancelled"}

(* What the connector was asked for has its record once nothing is left of *)
(* the call (audit.py:4, "a call that reaches a connector without an audit *)
(* record is a defect ... no code path can skip it").                      *)
EveryReachRecorded ==
    \A f \in reached : pc[f] \in {"done", "cancelled"} => log[f] # "none"

CallStage(f) ==
    CASE pc[f] = "idle" -> "asleep"
      [] pc[f] = "done" -> "returned"
      [] pc[f] = "cancelled" -> "gone"
      [] OTHER -> "open"

Door == INSTANCE CheckedCalls
        WITH Checks <- Readbacks, CheckOf <- ReadbackOf,
             stage <- [f \in Frames |-> CallStage(f)], asked <- reached, record <- log

(* For whoever calls it the gateway is a door through which each call goes *)
(* once or not at all and comes back with one record, and in which a write *)
(* is read back by a call that never outlives it and judged by what that   *)
(* saw: policy, limiter, breaker and governance show in no other way, and  *)
(* time-outs and cancellation in the records that are lost.                *)
ImplementsCheckedCalls == Door!Spec

-----------------------------------------------------------------------------
(* The inductive invariants behind the theorems of GatewayProofs *)

(* No bucket was stamped in the future *)
LimiterInv == RateBound /\ \A t \in Tools : stamp[t] <= now

(* Breaker and health count the same failures until a circuit has cooled   *)
(* down; it is open since the last of them, or has been asked too late     *)
BreakerInv ==
    /\ streak = failures \/ (failures <= streak /\ failures >= Threshold - 1)
    /\ streak > 0 => lastFailure \in 0..now
    /\ opened # Never => failures >= Threshold /\ opened = lastFailure
    /\ opened = Never => failures < Threshold
    /\ opened = Never /\ streak >= Threshold => now - lastFailure >= Cooldown

Before == {"idle", "called", "governing"}
Within == {"executing", "verifying"}
Agrees(f, o) == o # "none" /\ (o \in Refusals <=> f \notin reached)

(* What the place of a call says of its record *)
Accounted(f) ==
    /\ pc[f] \in Before => f \notin reached
    /\ pc[f] \in Within => f \in reached
    /\ pc[f] = "verifying" => f \in Writes
    /\ pc[f] \in {"auditing", "done"} => Agrees(f, outcome[f])
    /\ pc[f] = "done" <=> log[f] # "none"
    /\ log[f] # "none" => log[f] = outcome[f]

(* A read-back sleeps until its write asks for it, and vouches for what    *)
(* the write is then said to have done                                     *)
Vouched(w) ==
    /\ pc[w] # "idle"
    /\ pc[w] \in {"called", "governing", "executing"} => pc[ReadbackOf[w]] = "idle"
    /\ outcome[w] = "unconfirmed" =>
           /\ pc[w] \notin Before \cup Within /\ w \in reached
           /\ verdict[w] = "contradicted"
    /\ verdict[w] \in {"confirmed", "contradicted"} => log[ReadbackOf[w]] = "allowed"

FrameInv == (\A f \in Frames : Accounted(f)) /\ (\A w \in Writes : Vouched(w))

(* The record of a write nobody else has touched is as the write left it,  *)
(* and its read-back, once allowed, has seen it so                         *)
Told(w) ==
    /\ pc[ReadbackOf[w]] \in Before \cup {"executing"} => found[w] = "nothing"
    /\ outcome[ReadbackOf[w]] = "allowed" => found[w] # "nothing"
    /\ w \notin meddled => (w \in standing <=> w \in landed)
    /\ w \notin meddled /\ found[w] # "nothing" => found[w] = Sight(w)
    /\ verdict[w] = "confirmed" => w \in landed \cup meddled
    /\ verdict[w] = "contradicted" => w \notin landed \ meddled

RecordInv == \A w \in Writes : Told(w)

(* A read-back is under way exactly while its write verifies, and a write  *)
(* is judged once, on leaving that; what it is about to record says what   *)
(* the judgement was.                                                      *)
Asleep == {"idle", "done", "cancelled"}

Nested(w) ==
    /\ pc[w] = "verifying" => pc[ReadbackOf[w]] \notin {"idle", "cancelled"}
    /\ pc[w] # "verifying" => pc[ReadbackOf[w]] \in Asleep
    /\ pc[w] \in Before \cup Within => verdict[w] = "none"
    /\ pc[w] = "auditing" => (outcome[w] = "unconfirmed" <=> verdict[w] = "contradicted")

NestedInv ==
    /\ \A w \in Writes : Nested(w)
    /\ \A f \in Frames \ Writes : outcome[f] # "unconfirmed"
=============================================================================
