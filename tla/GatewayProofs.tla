--------------------------- MODULE GatewayProofs ---------------------------
(* Theorems about Gateway, for any calls, threshold, cooldown and bucket.  *)
EXTENDS Gateway, TLAPS

IInv == TypeOK /\ LimiterInv /\ BreakerInv /\ FrameInv /\ RecordInv

BreakerTypes ==
  failures \in Nat /\ opened \in Times \cup {Never}
  /\ streak \in Nat /\ lastFailure \in Times \cup {Never}
LimiterTypes ==
  tokens \in [Tools -> 0..Capacity] /\ stamp \in [Tools -> Times] /\ passed \in [Tools -> Nat]

-----------------------------------------------------------------------------
(* The limiter *)

(* A refilled bucket is no fuller than its capacity, nor than what it held *)
(* and what the clock has added since its stamp.                           *)
LEMMA LevelBounds ==
  ASSUME TypeOK, LimiterInv, NEW t \in Tools
  PROVE  Level(t) \in 0..Capacity /\ Level(t) <= tokens[t] + (now - stamp[t])
<1>1. tokens[t] \in 0..Capacity /\ stamp[t] \in Nat /\ now \in Nat /\ stamp[t] <= now
  BY GatewayAssumption DEF TypeOK, LimiterInv, Times
<1> QED
  BY <1>1, GatewayAssumption DEF Level

(* Refilling without spending keeps the bound. *)
LEMMA RefuseKeeps ==
  ASSUME TypeOK, LimiterInv, NEW t \in Tools, Refuses(t), now' = now
  PROVE  LimiterTypes' /\ LimiterInv'
<1> USE GatewayAssumption
<1>1. Level(t) \in 0..Capacity /\ Level(t) <= tokens[t] + (now - stamp[t])
  BY LevelBounds
<1>2. LimiterTypes'
  BY <1>1 DEF TypeOK, Refuses, LimiterTypes
<1>3. ASSUME NEW u \in Tools
      PROVE  Cost * passed'[u] + tokens'[u] <= Capacity + stamp'[u] /\ stamp'[u] <= now'
  <2>1. /\ Cost * passed[u] \in Int /\ tokens[u] \in Int /\ stamp[u] \in Int /\ now \in Int
        /\ Cost * passed[u] + tokens[u] <= Capacity + stamp[u] /\ stamp[u] <= now
    BY DEF TypeOK, LimiterInv, RateBound, Times
  <2>2. CASE u # t
    BY <2>1, <2>2 DEF Refuses, TypeOK
  <2>3. CASE u = t
    <3>1. tokens'[u] = Level(t) /\ stamp'[u] = now /\ passed'[u] = passed[u]
      BY <2>3 DEF Refuses, TypeOK
    <3> QED
      BY <1>1, <2>1, <2>3, <3>1
  <2> QED
    BY <2>2, <2>3
<1> QED
  BY <1>2, <1>3 DEF LimiterInv, RateBound

(* A call let through pays for itself. *)
LEMMA SpendKeeps ==
  ASSUME TypeOK, LimiterInv, NEW t \in Tools, Level(t) >= Cost, Spends(t), now' = now
  PROVE  LimiterTypes' /\ LimiterInv'
<1> USE GatewayAssumption
<1>1. Level(t) \in 0..Capacity /\ Level(t) <= tokens[t] + (now - stamp[t])
  BY LevelBounds
<1>2. LimiterTypes'
  BY <1>1 DEF TypeOK, Spends, LimiterTypes
<1>3. ASSUME NEW u \in Tools
      PROVE  Cost * passed'[u] + tokens'[u] <= Capacity + stamp'[u] /\ stamp'[u] <= now'
  <2>1. /\ Cost * passed[u] \in Int /\ tokens[u] \in Int /\ stamp[u] \in Int /\ now \in Int
        /\ Cost * passed[u] + tokens[u] <= Capacity + stamp[u] /\ stamp[u] <= now
    BY DEF TypeOK, LimiterInv, RateBound, Times
  <2>2. CASE u # t
    BY <2>1, <2>2 DEF Spends, TypeOK
  <2>3. CASE u = t
    <3>1. tokens'[u] = Level(t) - Cost /\ stamp'[u] = now /\ passed'[u] = passed[u] + 1
      BY <2>3 DEF Spends, TypeOK
    <3>2. Cost * (passed[u] + 1) = Cost * passed[u] + Cost
      BY DEF TypeOK
    <3> QED
      BY <1>1, <2>1, <2>3, <3>1, <3>2
  <2> QED
    BY <2>2, <2>3
<1> QED
  BY <1>2, <1>3 DEF LimiterInv, RateBound

(* Every step keeps the limiter: three handlers touch it, and the clock    *)
(* only moves on.                                                          *)
LEMMA LimiterKept ==
  ASSUME TypeOK, LimiterInv, [Next]_vars
  PROVE  LimiterTypes' /\ LimiterInv'
<1> USE GatewayAssumption
<1>1. ASSUME UNCHANGED limiter, now' \in {now, now + 1} PROVE LimiterTypes' /\ LimiterInv'
  <2>1. tokens' = tokens /\ stamp' = stamp /\ passed' = passed
    BY <1>1 DEF limiter
  <2>2. \A t \in Tools : stamp[t] <= now'
    BY <1>1 DEF TypeOK, LimiterInv, Times
  <2> QED
    BY <2>1, <2>2 DEF TypeOK, LimiterTypes, LimiterInv, RateBound
<1>2. ASSUME NEW f \in Frames, FirstAwait(f) PROVE LimiterTypes' /\ LimiterInv'
  <2>1. Tool(f) \in Tools
    BY DEF Tool, Tools
  <2>2. CASE RefusedByPolicy(f)
    BY <1>1, <2>2 DEF RefusedByPolicy
  <2>3. CASE RefusedByLimiter(f)
    BY <2>1, <2>3, RefuseKeeps DEF RefusedByLimiter
  <2>4. ~Limited(f) => Level(Tool(f)) >= Cost
    BY <2>1, LevelBounds DEF Limited
  <2>5. CASE RefusedByBreaker(f) \/ Admitted(f)
    BY <2>1, <2>4, <2>5, SpendKeeps DEF RefusedByBreaker, Admitted
  <2> QED
    BY <1>2, <2>2, <2>3, <2>5 DEF FirstAwait
<1>3. ASSUME NEW f \in Frames,
             Authorized(f) \/ Held(f) \/ Answered(f) \/ Audit(f) \/ Cancel(f)
      PROVE  LimiterTypes' /\ LimiterInv'
  <2>1. UNCHANGED limiter /\ now' = now
    BY <1>3 DEF Authorized, Held, Answered, ReportsFailure, Reports, ReportsUnread,
                ReportsAndReadsBack, Audit, Cancel
  <2> QED
    BY <1>1, <2>1
<1>4. ASSUME NEW w \in Writes, Verified(w) \/ VerifyTimeout(w) PROVE LimiterTypes' /\ LimiterInv'
  BY <1>1, <1>4 DEF Verified, VerifyTimeout
<1>5. CASE HealthPoll \/ Tick \/ \E w \in Writes : Elsewhere(w)
  BY <1>1, <1>5 DEF HealthPoll, Tick, Elsewhere
<1>6. CASE UNCHANGED vars
  BY <1>1, <1>6 DEF vars, limiter
<1> QED
  BY <1>2, <1>3, <1>4, <1>5, <1>6 DEF Next

-----------------------------------------------------------------------------
(* The breaker *)

(* Asking whether the circuit is open keeps the account of both counters.  *)
LEMMA AskKeeps ==
  ASSUME TypeOK, BreakerInv, IsOpenAsked, UNCHANGED <<now, health>>
  PROVE  BreakerTypes' /\ BreakerInv'
<1> USE GatewayAssumption
<1>1. now' = now /\ streak' = streak /\ lastFailure' = lastFailure
  BY DEF health
<1>2. CASE opened # Never /\ ~StillOpen
  <2>1. opened' = Never /\ failures' = Threshold - 1
    BY <1>2 DEF IsOpenAsked
  <2>2. opened \in Nat /\ now \in Nat /\ opened = lastFailure /\ now - lastFailure >= Cooldown
    BY <1>2 DEF TypeOK, BreakerInv, StillOpen, Times
  <2>3. streak >= Threshold
    BY <1>2 DEF TypeOK, BreakerInv
  <2> QED
    BY <1>1, <2>1, <2>2, <2>3 DEF TypeOK, BreakerTypes, BreakerInv
<1>3. CASE ~(opened # Never /\ ~StillOpen)
  <2>1. opened' = opened /\ failures' = failures
    BY <1>3 DEF IsOpenAsked, breaker
  <2> QED
    BY <1>1, <2>1 DEF TypeOK, BreakerTypes, BreakerInv
<1> QED
  BY <1>2, <1>3

(* A success wipes both counters. *)
LEMMA SuccessKeeps ==
  ASSUME TypeOK, BreakerInv, RecordSuccess, now' = now
  PROVE  BreakerTypes' /\ BreakerInv'
BY GatewayAssumption DEF RecordSuccess, TypeOK, BreakerTypes, BreakerInv

(* A failure is counted by both, and opens the circuit at the threshold.   *)
LEMMA FailureKeeps ==
  ASSUME TypeOK, BreakerInv, RecordFailure, now' = now
  PROVE  BreakerTypes' /\ BreakerInv'
<1> USE GatewayAssumption
<1>1. now \in Times /\ now \in Nat /\ now # Never
  BY DEF TypeOK, Times
<1>2. failures' = failures + 1 /\ streak' = streak + 1 /\ lastFailure' = now
  BY DEF RecordFailure
<1>3. CASE failures + 1 >= Threshold
  <2>1. opened' = now
    BY <1>3 DEF RecordFailure
  <2> QED
    BY <1>1, <1>2, <1>3, <2>1 DEF TypeOK, BreakerTypes, BreakerInv
<1>4. CASE failures + 1 < Threshold
  <2>1. opened' = Never
    BY <1>4 DEF RecordFailure, TypeOK, BreakerInv
  <2>2. streak = failures
    BY <1>4 DEF TypeOK, BreakerInv
  <2> QED
    BY <1>1, <1>2, <1>4, <2>1, <2>2 DEF TypeOK, BreakerTypes, BreakerInv
<1> QED
  BY <1>3, <1>4 DEF TypeOK

(* Every step keeps the breaker's account. *)
LEMMA BreakerKept ==
  ASSUME TypeOK, BreakerInv, [Next]_vars
  PROVE  BreakerTypes' /\ BreakerInv'
<1> USE GatewayAssumption
<1>1. ASSUME UNCHANGED <<breaker, health>>, now' \in {now, now + 1}
      PROVE  BreakerTypes' /\ BreakerInv'
  <2>1. failures' = failures /\ opened' = opened /\ streak' = streak /\ lastFailure' = lastFailure
    BY <1>1 DEF breaker, health
  <2>2. now \in Nat /\ now' >= now /\ now' \in Nat
    BY <1>1 DEF TypeOK, Times
  <2>3. BreakerTypes'
    BY <2>1 DEF TypeOK, BreakerTypes
  <2>4. streak > 0 => lastFailure \in 0..now /\ lastFailure \in 0..now'
    BY <2>2 DEF BreakerInv
  <2>5. opened = Never /\ streak >= Threshold =>
          now - lastFailure >= Cooldown /\ now' - lastFailure >= Cooldown
    <3>1. streak >= Threshold => streak > 0
      BY DEF TypeOK
    <3>2. opened = Never /\ streak >= Threshold => now - lastFailure >= Cooldown
      BY DEF BreakerInv
    <3> QED
      BY <2>2, <2>4, <3>1, <3>2
  <2> QED
    BY <2>1, <2>3, <2>4, <2>5 DEF BreakerInv
<1>2. ASSUME NEW f \in Frames, FirstAwait(f) PROVE BreakerTypes' /\ BreakerInv'
  <2>1. CASE RefusedByPolicy(f) \/ RefusedByLimiter(f)
    BY <1>1, <2>1 DEF RefusedByPolicy, RefusedByLimiter
  <2>2. CASE RefusedByBreaker(f) \/ Admitted(f)
    BY <2>2, AskKeeps DEF RefusedByBreaker, Admitted
  <2> QED
    BY <1>2, <2>1, <2>2 DEF FirstAwait
<1>3. ASSUME NEW f \in Frames, Answered(f) PROVE BreakerTypes' /\ BreakerInv'
  BY <1>3, SuccessKeeps, FailureKeeps
     DEF Answered, ReportsFailure, Reports, ReportsUnread, ReportsAndReadsBack
<1>4. ASSUME NEW f \in Frames, Authorized(f) \/ Held(f) \/ Audit(f) \/ Cancel(f)
      PROVE  BreakerTypes' /\ BreakerInv'
  BY <1>1, <1>4 DEF Authorized, Held, Audit, Cancel
<1>5. ASSUME NEW w \in Writes, Verified(w) \/ VerifyTimeout(w) PROVE BreakerTypes' /\ BreakerInv'
  BY <1>1, <1>5 DEF Verified, VerifyTimeout
<1>6. CASE HealthPoll
  BY <1>6, AskKeeps DEF HealthPoll
<1>7. CASE Tick \/ \E w \in Writes : Elsewhere(w)
  BY <1>1, <1>7 DEF Tick, Elsewhere
<1>8. CASE UNCHANGED vars
  BY <1>1, <1>8 DEF vars, breaker, health
<1> QED
  BY <1>2, <1>3, <1>4, <1>5, <1>6, <1>7, <1>8 DEF Next

-----------------------------------------------------------------------------
(* The frames *)

(* A read-back is no call and no write, and serves one write. *)
LEMMA Apart ==
  ASSUME NEW w \in Writes
  PROVE  /\ w \in Frames /\ w \in Calls
         /\ ReadbackOf[w] \in Frames /\ ReadbackOf[w] \in Readbacks
         /\ ReadbackOf[w] \notin Calls /\ ReadbackOf[w] \notin Writes
         /\ \A v \in Writes : ReadbackOf[w] # v /\ (ReadbackOf[v] = ReadbackOf[w] => v = w)
BY GatewayAssumption DEF Frames, Calls

FrameTypes ==
  /\ pc \in [Frames -> PCs] /\ outcome \in [Frames -> Outcomes \cup {"none"}]
  /\ verdict \in [Writes -> Verdicts] /\ log \in [Frames -> Outcomes \cup {"none"}]
  /\ reached \subseteq Frames
RecordTypes ==
  /\ standing \subseteq Writes /\ landed \subseteq Writes /\ meddled \subseteq Writes
  /\ found \in [Writes -> Sights]

(* A call that goes to its audit with an outcome that fits keeps the       *)
(* account of all calls.                                                   *)
LEMMA RecordingKeeps ==
  ASSUME TypeOK, FrameInv, NEW f \in Frames, NEW o \in Outcomes \ {"unconfirmed"},
         Recording(f, o), Agrees(f, o), pc[f] \in {"called", "governing", "executing"},
         reached' = reached, log' = log,
         verdict' = verdict \/ (f \in Writes /\ \E v \in {"unverifiable", "unavailable"} :
                                    verdict' = [verdict EXCEPT ![f] = v])
  PROVE  FrameTypes' /\ FrameInv'
<1> USE GatewayAssumption, Apart
<1>1. /\ pc' = [pc EXCEPT ![f] = "auditing"] /\ outcome' = [outcome EXCEPT ![f] = o]
      /\ pc'[f] = "auditing" /\ outcome'[f] = o
      /\ \A g \in Frames : g # f => pc'[g] = pc[g] /\ outcome'[g] = outcome[g]
  BY DEF Recording, Goto, TypeOK
<1>3. FrameTypes'
  BY <1>1 DEF TypeOK, FrameTypes, PCs, Verdicts
<1>4. ASSUME NEW g \in Frames PROVE Accounted(g)'
  BY <1>1 DEF FrameInv, Accounted, Before, Within, Agrees
<1>5. ASSUME NEW w \in Writes PROVE Vouched(w)'
  <2>1. verdict'[w] \in {"confirmed", "contradicted"} => verdict'[w] = verdict[w]
    BY DEF TypeOK
  <2>2. CASE w = f
    <3>1. outcome'[w] # "unconfirmed" /\ pc'[w] = "auditing"
      BY <1>1, <2>2
    <3> QED
      BY <2>1, <3>1 DEF FrameInv, Vouched
  <2>3. CASE w # f
    <3>1. verdict'[w] = verdict[w] /\ pc'[w] = pc[w] /\ outcome'[w] = outcome[w]
      BY <1>1, <2>3 DEF TypeOK
    <3>2. pc[w] \in {"called", "governing", "executing"} => pc'[ReadbackOf[w]] = "idle"
      BY <1>1 DEF FrameInv, Vouched
    <3> QED
      BY <3>1, <3>2 DEF FrameInv, Vouched
  <2> QED
    BY <2>2, <2>3
<1> QED
  BY <1>3, <1>4, <1>5 DEF FrameInv

(* A call on its way to the connector. *)
LEMMA AdmittedKeeps ==
  ASSUME TypeOK, FrameInv, NEW f \in Frames, Admitted(f) \/ Authorized(f)
  PROVE  FrameTypes' /\ FrameInv'
<1> USE GatewayAssumption, Apart
<1>1. \/ pc[f] = "called" /\ pc' = [pc EXCEPT ![f] = "governing"] /\ reached' = reached
      \/ pc[f] = "governing" /\ pc' = [pc EXCEPT ![f] = "executing"] /\ reached' = reached \cup {f}
  BY DEF Admitted, Authorized, Goto, world
<1>2. UNCHANGED <<outcome, verdict, log>>
  BY DEF Admitted, Authorized, world
<1>3. \A g \in Frames : g # f => pc'[g] = pc[g]
  BY <1>1 DEF TypeOK
<1>4. FrameTypes'
  BY <1>1, <1>2 DEF TypeOK, FrameTypes, PCs
<1>5. ASSUME NEW g \in Frames PROVE Accounted(g)'
  BY <1>1, <1>2, <1>3 DEF TypeOK, FrameInv, Accounted, Before, Within, Agrees
<1>6. ASSUME NEW w \in Writes PROVE Vouched(w)'
  BY <1>1, <1>2, <1>3 DEF TypeOK, FrameInv, Vouched, Before, Within
<1> QED
  BY <1>4, <1>5, <1>6 DEF FrameInv

(* A write starts its read-back. *)
LEMMA ReadBackKeeps ==
  ASSUME TypeOK, FrameInv, NEW w \in Writes, ReportsAndReadsBack(w)
  PROVE  FrameTypes' /\ FrameInv'
<1> USE GatewayAssumption, Apart
<1>1. /\ pc[w] = "executing" /\ pc[ReadbackOf[w]] = "idle"
      /\ pc' = [pc EXCEPT ![w] = "verifying", ![ReadbackOf[w]] = "called"]
      /\ UNCHANGED <<outcome, verdict, log, reached>>
  BY DEF ReportsAndReadsBack, FrameInv, Vouched
<1>2. /\ pc'[w] = "verifying" /\ pc'[ReadbackOf[w]] = "called"
      /\ \A g \in Frames \ {w, ReadbackOf[w]} : pc'[g] = pc[g]
  BY <1>1 DEF TypeOK
<1>4. FrameTypes'
  BY <1>1 DEF TypeOK, FrameTypes, PCs
<1>5. ASSUME NEW g \in Frames PROVE Accounted(g)'
  <2>1. Accounted(g)
    BY DEF FrameInv
  <2>2. CASE g \in {w, ReadbackOf[w]}
    BY <1>1, <1>2, <2>1, <2>2 DEF Accounted, Before, Within, Agrees
  <2>3. CASE g \notin {w, ReadbackOf[w]}
    <3>1. pc'[g] = pc[g]
      BY <1>2, <2>3
    <3> QED
      BY <1>1, <2>1, <3>1 DEF Accounted, Before, Within, Agrees
  <2> QED
    BY <2>2, <2>3
<1>6. ASSUME NEW v \in Writes PROVE Vouched(v)'
  <2>1. CASE v = w
    BY <1>1, <1>2, <2>1 DEF FrameInv, Vouched, Before, Within
  <2>2. CASE v # w
    <3>1. pc'[v] = pc[v] /\ pc'[ReadbackOf[v]] = pc[ReadbackOf[v]]
      BY <1>2, <2>2
    <3> QED
      BY <1>1, <2>2, <3>1 DEF FrameInv, Vouched
  <2> QED
    BY <2>1, <2>2
<1> QED
  BY <1>4, <1>5, <1>6 DEF FrameInv

(* The verdict on a write, from a read-back that answered or from none.    *)
LEMMA JudgeKeeps ==
  ASSUME TypeOK, FrameInv, NEW w \in Writes, Verified(w) \/ VerifyTimeout(w)
  PROVE  FrameTypes' /\ FrameInv'
<1> USE GatewayAssumption, Apart
<1>1. PICK v \in Verdicts \ {"none"} :
        /\ Judged(w, v)
        /\ v \in {"confirmed", "contradicted"} => log[ReadbackOf[w]] = "allowed"
  BY DEF Verified, VerifyTimeout, VerdictsOf, Shown, Verdicts
<1>2. /\ pc[w] = "verifying" /\ UNCHANGED <<log, reached>>
      /\ w \in reached
  BY DEF Verified, VerifyTimeout, world, FrameInv, Accounted, Within
<1>3. /\ pc' \in [Frames -> PCs] /\ pc'[w] = "auditing"
      /\ \/ pc'[ReadbackOf[w]] = pc[ReadbackOf[w]]
         \/ pc'[ReadbackOf[w]] = "cancelled" /\ pc[ReadbackOf[w]] # "done"
      /\ \A g \in Frames \ {w, ReadbackOf[w]} : pc'[g] = pc[g]
  BY DEF Verified, VerifyTimeout, Goto, TypeOK, PCs
<1>4. /\ verdict' \in [Writes -> Verdicts] /\ verdict'[w] = v
      /\ \A u \in Writes \ {w} : verdict'[u] = verdict[u]
  BY <1>1 DEF Judged, TypeOK
<1>5. /\ outcome' \in [Frames -> Outcomes \cup {"none"}]
      /\ outcome'[w] = IF v = "contradicted" THEN "unconfirmed" ELSE "allowed"
      /\ \A g \in Frames \ {w} : outcome'[g] = outcome[g]
  BY <1>1 DEF Judged, TypeOK, Outcomes
<1>6. FrameTypes'
  BY <1>2, <1>3, <1>4, <1>5 DEF TypeOK, FrameTypes
<1>7. ASSUME NEW g \in Frames PROVE Accounted(g)'
  BY <1>2, <1>3, <1>5 DEF FrameInv, Accounted, Before, Within, Agrees, Refusals
<1>8. ASSUME NEW u \in Writes PROVE Vouched(u)'
  BY <1>1, <1>2, <1>3, <1>4, <1>5 DEF FrameInv, Vouched, Before, Within
<1> QED
  BY <1>6, <1>7, <1>8 DEF FrameInv

(* The record of a call. *)
LEMMA AuditKeeps ==
  ASSUME TypeOK, FrameInv, NEW f \in Frames, Audit(f)
  PROVE  FrameTypes' /\ FrameInv'
<1> USE GatewayAssumption, Apart
<1>1. /\ pc[f] = "auditing" /\ pc' = [pc EXCEPT ![f] = "done"]
      /\ log' = [log EXCEPT ![f] = outcome[f]] /\ log[f] = "none"
      /\ UNCHANGED <<outcome, verdict, reached>>
  BY DEF Audit, Goto, world, FrameInv, Accounted
<1>2. /\ pc'[f] = "done" /\ log'[f] = outcome[f]
      /\ \A g \in Frames : g # f => pc'[g] = pc[g] /\ log'[g] = log[g]
  BY <1>1 DEF TypeOK
<1>3. FrameTypes'
  BY <1>1 DEF TypeOK, FrameTypes, PCs
<1>4. ASSUME NEW g \in Frames PROVE Accounted(g)'
  BY <1>1, <1>2 DEF FrameInv, Accounted, Before, Within, Agrees
<1>5. ASSUME NEW w \in Writes PROVE Vouched(w)'
  BY <1>1, <1>2 DEF FrameInv, Vouched, Before, Within
<1> QED
  BY <1>3, <1>4, <1>5 DEF FrameInv

(* A cancelled call takes the read-back it awaits with it. *)
LEMMA CancelKeeps ==
  ASSUME TypeOK, FrameInv, NEW f \in Frames, Cancel(f)
  PROVE  FrameTypes' /\ FrameInv'
<1> USE GatewayAssumption, Apart
<1>1. UNCHANGED <<outcome, verdict, log, reached>>
  BY DEF Cancel, world
<1>2. /\ pc' \in [Frames -> PCs]
      /\ \A g \in Frames :
           \/ pc'[g] = pc[g]
           \/ pc'[g] = "cancelled" /\ pc[g] # "done"
              /\ (g = f \/ (f \in Writes /\ pc[f] = "verifying" /\ g = ReadbackOf[f]))
  BY DEF Cancel, TypeOK, PCs, FrameInv, Accounted
<1>3. FrameTypes'
  BY <1>1, <1>2 DEF TypeOK, FrameTypes
<1>4. ASSUME NEW g \in Frames PROVE Accounted(g)'
  BY <1>1, <1>2 DEF FrameInv, Accounted, Before, Within, Agrees
<1>5. ASSUME NEW w \in Writes PROVE Vouched(w)'
  <2>1. f # ReadbackOf[w]
    BY DEF Cancel
  <2>2. \/ pc'[w] = pc[w] /\ (pc'[ReadbackOf[w]] = pc[ReadbackOf[w]] \/ pc[w] = "verifying")
        \/ pc'[w] = "cancelled"
    BY <1>2, <2>1
  <2> QED
    BY <1>1, <2>2 DEF FrameInv, Vouched, Before, Within
<1> QED
  BY <1>3, <1>4, <1>5 DEF FrameInv

(* Every step keeps the account of all calls. *)
LEMMA FramesKept ==
  ASSUME TypeOK, FrameInv, [Next]_vars
  PROVE  FrameTypes' /\ FrameInv'
<1>1. ASSUME UNCHANGED <<pc, outcome, verdict, log, reached>>
      PROVE  FrameTypes' /\ FrameInv'
  BY <1>1 DEF TypeOK, FrameTypes, FrameInv, Accounted, Vouched, Agrees
<1>2. ASSUME NEW f \in Frames, FirstAwait(f) PROVE FrameTypes' /\ FrameInv'
  <2>1. pc[f] = "called" /\ f \notin reached
    BY <1>2 DEF FirstAwait, RefusedByPolicy, RefusedByLimiter, RefusedByBreaker, Admitted,
                FrameInv, Accounted, Before
  <2>2. ASSUME NEW o \in Refusals, Recording(f, o), UNCHANGED <<verdict, log, world>>
        PROVE  FrameTypes' /\ FrameInv'
    BY <2>1, <2>2, RecordingKeeps DEF Agrees, Refusals, Outcomes, world
  <2>3. CASE RefusedByPolicy(f)
    BY <2>2, <2>3 DEF RefusedByPolicy, Refusals
  <2>4. CASE RefusedByLimiter(f) \/ RefusedByBreaker(f)
    BY <2>2, <2>4 DEF RefusedByLimiter, RefusedByBreaker, Refusals
  <2> QED
    BY <1>2, <2>3, <2>4, AdmittedKeeps DEF FirstAwait
<1>3. ASSUME NEW f \in Frames, Held(f) PROVE FrameTypes' /\ FrameInv'
  <2>1. pc[f] = "governing" /\ f \notin reached
    BY <1>3 DEF Held, FrameInv, Accounted, Before
  <2> QED
    BY <1>3, <2>1, RecordingKeeps DEF Held, Agrees, Refusals, Outcomes, world
<1>4. ASSUME NEW f \in Frames, Answered(f) PROVE FrameTypes' /\ FrameInv'
  <2>1. pc[f] = "executing" /\ f \in reached
    BY <1>4 DEF Answered, ReportsFailure, Reports, ReportsUnread, ReportsAndReadsBack,
                FrameInv, Accounted, Within
  <2>2. Agrees(f, "failed") /\ Agrees(f, "allowed")
    BY <2>1 DEF Agrees, Refusals
  <2>3. CASE ReportsFailure(f)
    BY <2>1, <2>2, <2>3, RecordingKeeps DEF ReportsFailure, Outcomes
  <2>4. CASE Reports(f)
    BY <2>1, <2>2, <2>4, RecordingKeeps DEF Reports, Outcomes, world
  <2>5. CASE ReportsUnread(f)
    BY <2>1, <2>2, <2>5, RecordingKeeps DEF ReportsUnread, Outcomes
  <2>6. CASE ReportsAndReadsBack(f)
    BY <2>6, ReadBackKeeps DEF ReportsAndReadsBack
  <2> QED
    BY <1>4, <2>3, <2>4, <2>5, <2>6 DEF Answered
<1>5. CASE HealthPoll \/ Tick \/ \E w \in Writes : Elsewhere(w)
  BY <1>1, <1>5 DEF HealthPoll, Tick, Elsewhere, world
<1>6. CASE UNCHANGED vars
  BY <1>1, <1>6 DEF vars
<1> QED
  BY <1>2, <1>3, <1>4, <1>5, <1>6, AdmittedKeeps, JudgeKeeps, AuditKeeps, CancelKeeps DEF Next

-----------------------------------------------------------------------------
(* The records in the system behind *)

(* A step that leaves the records alone, gives no new verdict and lets no  *)
(* read-back start or be allowed, keeps what is told of a write.           *)
LEMMA QuietKeepsTold ==
  ASSUME RecordInv, UNCHANGED records, NEW w \in Writes,
         verdict'[w] \in {"confirmed", "contradicted"} => verdict'[w] = verdict[w],
         outcome'[ReadbackOf[w]] = "allowed" => outcome[ReadbackOf[w]] = "allowed",
         pc'[ReadbackOf[w]] \in Before \cup {"executing"} =>
             pc[ReadbackOf[w]] \in Before \cup {"executing"}
  PROVE  Told(w)'
BY DEF RecordInv, Told, Sight, records

(* A write that is answered may land; nobody has read its record yet.      *)
LEMMA LandingKeeps ==
  ASSUME TypeOK, FrameInv, RecordInv, NEW f \in Frames, pc[f] = "executing", MayLand(f),
         \A w \in Writes :
            /\ verdict'[w] \in {"confirmed", "contradicted"} => verdict'[w] = verdict[w]
            /\ outcome'[ReadbackOf[w]] = "allowed" => outcome[ReadbackOf[w]] = "allowed"
            /\ pc'[ReadbackOf[w]] \in Before \cup {"executing"} =>
                   pc[ReadbackOf[w]] \in Before \cup {"executing"}
  PROVE  RecordTypes' /\ RecordInv'
<1> USE GatewayAssumption, Apart
<1>1. PICK landing \in {{}, {f} \cap Writes} :
        landed' = landed \cup landing /\ standing' = standing \cup landing
  BY DEF MayLand
<1>2. found' = found /\ meddled' = meddled
  BY DEF MayLand
<1>3. RecordTypes'
  BY <1>1, <1>2 DEF TypeOK, RecordTypes
<1>4. ASSUME NEW w \in Writes PROVE Told(w)'
  <2>1. CASE w # f
    BY <1>1, <1>2, <2>1 DEF RecordInv, Told, Sight
  <2>2. CASE w = f
    <3>1. pc[ReadbackOf[w]] = "idle" /\ log[ReadbackOf[w]] = "none"
      BY <2>2 DEF FrameInv, Vouched, Accounted
    <3>2. found[w] = "nothing" /\ verdict[w] \notin {"confirmed", "contradicted"}
      BY <3>1 DEF FrameInv, Vouched, RecordInv, Told, Before
    <3> QED
      BY <1>1, <1>2, <2>2, <3>2 DEF RecordInv, Told
  <2> QED
    BY <2>1, <2>2
<1> QED
  BY <1>3, <1>4 DEF RecordInv

(* A read-back that is answered has seen the record as it stands. *)
LEMMA LookingKeeps ==
  ASSUME TypeOK, FrameInv, RecordInv, NEW f \in Frames, Reports(f)
  PROVE  RecordTypes' /\ RecordInv'
<1> USE GatewayAssumption, Apart
<1>1. /\ pc[f] = "executing" /\ UNCHANGED <<verdict, standing, landed, meddled>>
      /\ found' = [w \in Writes |-> IF ReadbackOf[w] = f THEN Sight(w) ELSE found[w]]
      /\ pc'[f] = "auditing" /\ \A g \in Frames : g # f => pc'[g] = pc[g] /\ outcome'[g] = outcome[g]
  BY DEF Reports, Looks, Recording, Goto, TypeOK
<1>2. RecordTypes'
  BY <1>1 DEF TypeOK, RecordTypes, Sight, Sights
<1>3. ASSUME NEW w \in Writes PROVE Told(w)'
  <2>1. CASE ReadbackOf[w] = f
    BY <1>1, <2>1 DEF RecordInv, Told, Sight, Before
  <2>2. CASE ReadbackOf[w] # f
    BY <1>1, <2>2 DEF RecordInv, Told, Sight
  <2> QED
    BY <2>1, <2>2
<1> QED
  BY <1>2, <1>3 DEF RecordInv

(* A verdict is what an allowed read-back saw. *)
LEMMA JudgingKeeps ==
  ASSUME TypeOK, FrameInv, RecordInv, NEW w \in Writes, Verified(w) \/ VerifyTimeout(w)
  PROVE  RecordTypes' /\ RecordInv'
<1> USE GatewayAssumption, Apart
<1>1. PICK v \in Verdicts \ {"none"} :
        /\ Judged(w, v)
        /\ v \in {"confirmed", "contradicted"} => log[ReadbackOf[w]] = "allowed" /\ v = Shown(w)
  BY DEF Verified, VerifyTimeout, VerdictsOf, Shown, Verdicts
<1>2. UNCHANGED records
  BY DEF Verified, VerifyTimeout, world
<1>3. \A u \in Writes : /\ outcome'[ReadbackOf[u]] = outcome[ReadbackOf[u]]
                        /\ u # w => verdict'[u] = verdict[u]
                        /\ pc'[ReadbackOf[u]] \in {pc[ReadbackOf[u]], "cancelled"}
  BY <1>1 DEF Judged, Verified, VerifyTimeout, Goto, TypeOK
<1>4. ASSUME NEW u \in Writes PROVE Told(u)'
  <2>1. "cancelled" \notin Before \cup {"executing"}
    BY DEF Before
  <2>2. CASE u # w
    BY <1>2, <1>3, <2>1, <2>2, QuietKeepsTold
  <2>3. CASE u = w
    <3>1. verdict'[w] = v
      BY <1>1 DEF Judged, TypeOK
    <3>2. v \in {"confirmed", "contradicted"} => outcome[ReadbackOf[w]] = "allowed"
      BY <1>1 DEF FrameInv, Accounted
    <3>3. v \in {"confirmed", "contradicted"} => found[w] # "nothing" /\ v = Shown(w)
      BY <1>1, <3>2 DEF RecordInv, Told
    <3>4. /\ v = "confirmed" => w \in landed \cup meddled
          /\ v = "contradicted" => w \notin landed \ meddled
      BY <3>3 DEF RecordInv, Told, Shown, Sight
    <3> QED
      BY <1>2, <1>3, <2>1, <2>3, <3>1, <3>4 DEF RecordInv, Told, Sight, records
  <2> QED
    BY <2>2, <2>3
<1> QED
  BY <1>2, <1>4 DEF RecordInv, RecordTypes, TypeOK, records

(* Every step keeps what is told of the writes. *)
LEMMA RecordsKept ==
  ASSUME TypeOK, FrameInv, RecordInv, [Next]_vars
  PROVE  RecordTypes' /\ RecordInv'
<1> USE GatewayAssumption, Apart
<1>1. ASSUME UNCHANGED records,
             \A w \in Writes :
                /\ verdict'[w] \in {"confirmed", "contradicted"} => verdict'[w] = verdict[w]
                /\ outcome'[ReadbackOf[w]] = "allowed" => outcome[ReadbackOf[w]] = "allowed"
                /\ pc'[ReadbackOf[w]] \in Before \cup {"executing"} =>
                       pc[ReadbackOf[w]] \in Before \cup {"executing"}
      PROVE  RecordTypes' /\ RecordInv'
  BY <1>1, QuietKeepsTold DEF RecordInv, RecordTypes, TypeOK, records
<1>2. ASSUME NEW f \in Frames, NEW o \in Refusals, pc[f] \in Before, Recording(f, o),
             UNCHANGED <<verdict, records>>
      PROVE  RecordTypes' /\ RecordInv'
  BY <1>1, <1>2 DEF Recording, Goto, TypeOK, Refusals, Before
<1>3. ASSUME NEW f \in Frames, FirstAwait(f) \/ Held(f) \/ Authorized(f)
      PROVE  RecordTypes' /\ RecordInv'
  <2>1. CASE RefusedByPolicy(f) \/ RefusedByLimiter(f) \/ RefusedByBreaker(f) \/ Held(f)
    BY <1>2, <2>1 DEF RefusedByPolicy, RefusedByLimiter, RefusedByBreaker, Held, Before, Refusals, world
  <2>2. CASE Admitted(f) \/ Authorized(f)
    BY <1>1, <2>2 DEF Admitted, Authorized, Goto, TypeOK, Before, world
  <2> QED
    BY <1>3, <2>1, <2>2 DEF FirstAwait
<1>4. ASSUME NEW f \in Frames, ReportsFailure(f) \/ ReportsUnread(f) \/ ReportsAndReadsBack(f)
      PROVE  RecordTypes' /\ RecordInv'
  <2>1. pc[f] = "executing" /\ MayLand(f)
    BY <1>4 DEF ReportsFailure, ReportsUnread, ReportsAndReadsBack
  <2>2. ASSUME NEW w \in Writes
        PROVE  verdict'[w] \in {"confirmed", "contradicted"} => verdict'[w] = verdict[w]
    BY <1>4 DEF ReportsFailure, ReportsUnread, ReportsAndReadsBack, TypeOK
  <2>3. ASSUME NEW w \in Writes
        PROVE  outcome'[ReadbackOf[w]] = "allowed" => outcome[ReadbackOf[w]] = "allowed"
    BY <1>4 DEF ReportsFailure, ReportsUnread, ReportsAndReadsBack, Recording, TypeOK
  <2>4. ASSUME NEW w \in Writes, pc'[ReadbackOf[w]] \in Before \cup {"executing"}
        PROVE  pc[ReadbackOf[w]] \in Before \cup {"executing"}
    <3>1. CASE ReportsFailure(f) \/ ReportsUnread(f)
      BY <2>4, <3>1 DEF ReportsFailure, ReportsUnread, Recording, Goto, TypeOK, Before
    <3>2. CASE ReportsAndReadsBack(f)
      <4>1. f \in Writes /\ pc[ReadbackOf[f]] = "idle"
        BY <3>2 DEF ReportsAndReadsBack, FrameInv, Vouched
      <4>2. w # f => pc'[ReadbackOf[w]] = pc[ReadbackOf[w]]
        BY <3>2, <4>1 DEF ReportsAndReadsBack, TypeOK
      <4> QED
        BY <2>4, <4>1, <4>2 DEF Before
    <3> QED
      BY <1>4, <3>1, <3>2
  <2> QED
    BY <2>1, <2>2, <2>3, <2>4, LandingKeeps
<1>5. ASSUME NEW f \in Frames, Audit(f) \/ Cancel(f) PROVE RecordTypes' /\ RecordInv'
  <2>1. UNCHANGED <<records, verdict, outcome>>
    BY <1>5 DEF Audit, Cancel, world
  <2>2. \A g \in Frames : pc'[g] \in {pc[g], "done", "cancelled"}
    BY <1>5 DEF Audit, Cancel, Goto, TypeOK
  <2> QED
    BY <1>1, <2>1, <2>2 DEF Before
<1>6. ASSUME NEW w \in Writes, Elsewhere(w) PROVE RecordTypes' /\ RecordInv'
  <2>1. /\ UNCHANGED <<pc, outcome, verdict, found, landed>> /\ found[w] = "nothing"
        /\ meddled' = meddled \cup {w} /\ standing' \in {standing \ {w}, standing \cup {w}}
    BY <1>6 DEF Elsewhere
  <2>2. ASSUME NEW u \in Writes PROVE Told(u)'
    BY <2>1 DEF RecordInv, Told, Sight
  <2> QED
    BY <2>1, <2>2 DEF RecordInv, RecordTypes, TypeOK
<1>7. CASE HealthPoll \/ Tick \/ UNCHANGED vars
  BY <1>1, <1>7 DEF HealthPoll, Tick, vars, world, records
<1> QED
  BY <1>3, <1>4, <1>5, <1>6, <1>7, LookingKeeps, JudgingKeeps DEF Next, Answered

-----------------------------------------------------------------------------
(* The limiter, the breaker and the record of each call are accounted for  *)
(* together in every reachable state of McpGateway.                        *)
THEOREM GatewayCorrect == Spec => []IInv
<1>1. Init => IInv
  <2> SUFFICES ASSUME Init PROVE IInv
    OBVIOUS
  <2> USE GatewayAssumption
  <2>1. TypeOK
    BY DEF Init, TypeOK, Times, PCs, Verdicts, Outcomes, Sights, Tools
  <2>2. LimiterInv
    BY DEF Init, LimiterInv, RateBound
  <2>3. BreakerInv
    BY DEF Init, BreakerInv
  <2>4. FrameInv
    BY Apart DEF Init, FrameInv, Accounted, Vouched, Agrees, Before, Within
  <2>5. RecordInv
    BY Apart DEF Init, RecordInv, Told
  <2> QED
    BY <2>1, <2>2, <2>3, <2>4, <2>5 DEF IInv
<1>2. IInv /\ [Next]_vars => IInv'
  <2> SUFFICES ASSUME IInv, [Next]_vars PROVE IInv'
    OBVIOUS
  <2>1. now' \in Times
    <3>1. now' = now \/ (now < MaxTime /\ now' = now + 1)
      BY DEF Next, vars, FirstAwait, RefusedByPolicy, RefusedByLimiter, RefusedByBreaker, Admitted,
             Authorized, Held, Answered, ReportsFailure, Reports, ReportsUnread,
             ReportsAndReadsBack, Audit, Cancel, Verified, VerifyTimeout, Elsewhere, HealthPoll, Tick
    <3> QED
      BY <3>1, GatewayAssumption DEF IInv, TypeOK, Times
  <2>2. TypeOK'
    BY <2>1, LimiterKept, BreakerKept, FramesKept, RecordsKept
       DEF IInv, TypeOK, LimiterTypes, BreakerTypes, FrameTypes, RecordTypes
  <2> QED
    BY <2>2, LimiterKept, BreakerKept, FramesKept, RecordsKept DEF IInv
<1> QED
  BY <1>1, <1>2, PTL DEF Spec

(* Every variable keeps its type: the bucket never goes below empty, the   *)
(* counters never below zero.                                              *)
COROLLARY GatewayTypes == Spec => []TypeOK
<1>1. IInv => TypeOK
  BY DEF IInv
<1> QED
  BY <1>1, GatewayCorrect, PTL

(* RateLimiter.check lets a tool through no more often than a full bucket  *)
(* and the clock allow, however refusals and calls interleave.             *)
COROLLARY NeverOverRate == Spec => []RateBound
<1>1. IInv => RateBound
  BY DEF IInv, LimiterInv
<1> QED
  BY <1>1, GatewayCorrect, PTL

(* CircuitBreaker is open whenever the health surface has seen a full      *)
(* streak of failures and is still within the cooldown of the last.        *)
COROLLARY OutageIsTripped == Spec => []OutageTripsBreaker
<1>1. IInv => OutageTripsBreaker
  <2> SUFFICES ASSUME IInv, streak >= Threshold, now - lastFailure < Cooldown, opened = Never
               PROVE  FALSE
    BY DEF OutageTripsBreaker
  <2>1. lastFailure \in 0..now /\ now \in Nat /\ now - lastFailure >= Cooldown
    BY GatewayAssumption DEF IInv, TypeOK, BreakerInv, Times
  <2> QED
    BY <2>1, GatewayAssumption
<1> QED
  BY <1>1, GatewayCorrect, PTL

(* No exit of McpGateway.call skips the audit, and the record says whether *)
(* the connector was reached.                                              *)
COROLLARY AuditIsTotal == Spec => []EveryReturnAudited
<1>1. IInv => EveryReturnAudited
  BY DEF IInv, EveryReturnAudited, FrameInv, Accounted, Agrees
<1> QED
  BY <1>1, GatewayCorrect, PTL

(* ActionVerifier confirms or contradicts a write only from a read-back    *)
(* that was allowed, and is wrong about the write only where somebody else *)
(* changed the record before it was read.                                  *)
COROLLARY VerdictsStand == Spec => []VerdictsAreEarned
<1>1. IInv => VerdictsAreEarned
  BY Apart DEF IInv, VerdictsAreEarned, FrameInv, Accounted, Vouched, RecordInv, Told
<1> QED
  BY <1>1, GatewayCorrect, PTL

-----------------------------------------------------------------------------
(* The door *)

(* A step that moves one call, and no write into or out of verifying,      *)
(* keeps the read-backs where they belong.                                 *)
LEMMA MoveKeepsNested ==
  ASSUME TypeOK, FrameInv, NestedInv, NEW f \in Frames, NEW to \in PCs \ {"verifying", "idle", "called"},
         pc' = [pc EXCEPT ![f] = to], pc[f] \notin {"verifying", "idle", "done", "cancelled"},
         to \in {"governing", "executing"} => pc[f] \in Before \cup Within /\ verdict' = verdict,
         \A g \in Frames : g # f => outcome'[g] = outcome[g],
         \A w \in Writes : w # f => verdict'[w] = verdict[w],
         f \notin Writes => outcome'[f] # "unconfirmed",
         to = "cancelled" => f \in Calls,
         f \in Writes /\ to = "auditing" =>
             (outcome'[f] = "unconfirmed" <=> verdict'[f] = "contradicted")
  PROVE  NestedInv'
<1> USE GatewayAssumption, Apart
<1>1. pc'[f] = to /\ \A g \in Frames : g # f => pc'[g] = pc[g]
  BY DEF TypeOK
<1>2. ASSUME NEW w \in Writes PROVE Nested(w)'
  <2>1. Nested(w) /\ Vouched(w)
    BY DEF NestedInv, FrameInv
  <2>2. CASE f = w
    BY <1>1, <2>1, <2>2 DEF Nested, Asleep, Before, Within
  <2>3. CASE f = ReadbackOf[w]
    BY <1>1, <2>1, <2>3 DEF Nested, Asleep, Before, Within
  <2>4. CASE f # w /\ f # ReadbackOf[w]
    BY <1>1, <2>1, <2>4 DEF Nested
  <2> QED
    BY <2>2, <2>3, <2>4
<1>3. \A g \in Frames \ Writes : outcome'[g] # "unconfirmed"
  BY DEF NestedInv
<1> QED
  BY <1>2, <1>3 DEF NestedInv

(* Every step keeps the read-backs inside the writes they check. *)
LEMMA NestedKept ==
  ASSUME TypeOK, FrameInv, NestedInv, [Next]_vars
  PROVE  NestedInv'
<1> USE GatewayAssumption, Apart
<1>1. ASSUME UNCHANGED <<pc, outcome, verdict>> PROVE NestedInv'
  BY <1>1 DEF NestedInv, Nested
<1>2. ASSUME NEW f \in Frames, NEW o \in Outcomes \ {"unconfirmed"}, Recording(f, o),
             pc[f] \in {"called", "governing", "executing"},
             verdict' = verdict \/ (f \in Writes /\ \E v \in {"unverifiable", "unavailable"} :
                                        verdict' = [verdict EXCEPT ![f] = v])
      PROVE  NestedInv'
  <2>1. pc' = [pc EXCEPT ![f] = "auditing"] /\ outcome'[f] = o
        /\ \A g \in Frames : g # f => outcome'[g] = outcome[g]
    BY <1>2 DEF Recording, Goto, TypeOK
  <2>2. \A w \in Writes : w # f => verdict'[w] = verdict[w]
    BY <1>2 DEF TypeOK
  <2>3. f \in Writes => verdict[f] = "none"
    BY <1>2 DEF NestedInv, Nested, Before, Within
  <2>4. f \in Writes => verdict'[f] # "contradicted"
    BY <1>2, <2>3 DEF TypeOK
  <2>5. "auditing" \in PCs \ {"verifying", "idle", "called"} /\ o # "unconfirmed"
    BY DEF PCs
  <2>6. /\ pc[f] \notin {"verifying", "idle", "done", "cancelled"}
        /\ f \notin Writes => outcome'[f] # "unconfirmed"
        /\ f \in Writes => (outcome'[f] = "unconfirmed" <=> verdict'[f] = "contradicted")
    BY <1>2, <2>1, <2>4, <2>5
  <2> HIDE Apart
  <2> QED
    BY <2>1, <2>2, <2>5, <2>6, MoveKeepsNested
<1>3. ASSUME NEW f \in Frames, FirstAwait(f) \/ Held(f) PROVE NestedInv'
  <2>1. CASE RefusedByPolicy(f) \/ RefusedByLimiter(f) \/ RefusedByBreaker(f) \/ Held(f)
    BY <1>2, <2>1 DEF RefusedByPolicy, RefusedByLimiter, RefusedByBreaker, Held, Refusals, Outcomes
  <2>2. CASE Admitted(f)
    BY <2>2, MoveKeepsNested DEF Admitted, Goto, PCs, Before, NestedInv
  <2> QED
    BY <1>3, <2>1, <2>2 DEF FirstAwait
<1>4. ASSUME NEW f \in Frames, Authorized(f) PROVE NestedInv'
  BY <1>4, MoveKeepsNested DEF Authorized, Goto, PCs, Before, NestedInv
<1>5. ASSUME NEW f \in Frames, ReportsFailure(f) \/ Reports(f) \/ ReportsUnread(f) PROVE NestedInv'
  BY <1>2, <1>5 DEF ReportsFailure, Reports, ReportsUnread, Outcomes, world
<1>6. ASSUME NEW w \in Writes, ReportsAndReadsBack(w) PROVE NestedInv'
  <2>1. /\ pc[w] = "executing" /\ UNCHANGED <<outcome, verdict>>
        /\ pc' = [pc EXCEPT ![w] = "verifying", ![ReadbackOf[w]] = "called"]
    BY <1>6 DEF ReportsAndReadsBack
  <2>2. pc'[w] = "verifying" /\ pc'[ReadbackOf[w]] = "called"
        /\ \A g \in Frames : g # w /\ g # ReadbackOf[w] => pc'[g] = pc[g]
    BY <2>1 DEF TypeOK
  <2>3. ASSUME NEW x \in Writes PROVE Nested(x)'
    <3>1. Nested(x)
      BY DEF NestedInv
    <3>2. CASE x = w
      BY <2>1, <2>2, <3>1, <3>2 DEF Nested, Before, Within
    <3>3. CASE x # w
      BY <2>1, <2>2, <3>1, <3>3 DEF Nested
    <3> QED
      BY <3>2, <3>3
  <2> QED
    BY <2>1, <2>3 DEF NestedInv
<1>7. ASSUME NEW w \in Writes, Verified(w) \/ VerifyTimeout(w) PROVE NestedInv'
  <2>1. PICK v \in Verdicts : Judged(w, v)
    BY <1>7 DEF Verified, VerifyTimeout, VerdictsOf, Shown, Verdicts
  <2>2. /\ outcome'[w] = "unconfirmed" <=> verdict'[w] = "contradicted"
        /\ \A g \in Frames : g # w => outcome'[g] = outcome[g]
        /\ \A x \in Writes : x # w => verdict'[x] = verdict[x]
    BY <2>1 DEF Judged, TypeOK
  <2>3. /\ pc[w] = "verifying" /\ pc'[w] = "auditing" /\ pc'[ReadbackOf[w]] \in {"done", "cancelled"}
        /\ \A g \in Frames : g # w /\ g # ReadbackOf[w] => pc'[g] = pc[g]
    BY <1>7 DEF Verified, VerifyTimeout, Goto, TypeOK
  <2>4. ASSUME NEW x \in Writes PROVE Nested(x)'
    <3>1. CASE x = w
      BY <2>2, <2>3, <3>1 DEF Nested, Asleep, Before, Within
    <3>2. CASE x # w
      BY <2>2, <2>3, <3>2 DEF NestedInv, Nested
    <3> QED
      BY <3>1, <3>2
  <2> QED
    BY <2>2, <2>4 DEF NestedInv
<1>8. ASSUME NEW f \in Frames, Audit(f) PROVE NestedInv'
  BY <1>8, MoveKeepsNested DEF Audit, Goto, PCs, NestedInv
<1>9. ASSUME NEW f \in Frames, Cancel(f) PROVE NestedInv'
  <2>1. UNCHANGED <<outcome, verdict>> /\ f \in Calls
        /\ \A g \in Frames :
             pc'[g] = IF g = f \/ (pc[f] = "verifying" /\ g = ReadbackOf[f] /\ pc[g] # "done")
                      THEN "cancelled" ELSE pc[g]
    BY <1>9 DEF Cancel
  <2>2. pc[f] = "verifying" => f \in Writes
    BY DEF FrameInv, Accounted
  <2>3. ASSUME NEW w \in Writes PROVE Nested(w)'
    <3>1. f # ReadbackOf[w] /\ Nested(w)
      BY <2>1 DEF NestedInv
    <3>2. CASE f = w
      BY <2>1, <3>1, <3>2 DEF Nested, Asleep, Before, Within
    <3>3. CASE f # w
      <4>1. pc'[w] = pc[w] /\ pc'[ReadbackOf[w]] = pc[ReadbackOf[w]]
        BY <2>1, <2>2, <3>1, <3>3
      <4> QED
        BY <2>1, <3>1, <4>1 DEF Nested
    <3> QED
      BY <3>2, <3>3
  <2> QED
    BY <2>1, <2>3 DEF NestedInv
<1>10. CASE HealthPoll \/ Tick \/ UNCHANGED vars \/ \E w \in Writes : Elsewhere(w)
  BY <1>1, <1>10 DEF HealthPoll, Tick, vars, Elsewhere
<1>11. \A f \in Frames : ReportsAndReadsBack(f) => f \in Writes
  BY DEF ReportsAndReadsBack
<1> QED
  BY <1>3, <1>4, <1>5, <1>6, <1>7, <1>8, <1>9, <1>10, <1>11 DEF Next, Answered

(* A call that goes from one await to another is where it was to those     *)
(* outside.                                                                *)
LEMMA InsideTheDoor ==
  ASSUME TypeOK, NEW f \in Frames, NEW to \in PCs \ Asleep, pc[f] \notin Asleep,
         pc' = [pc EXCEPT ![f] = to]
  PROVE  \A g \in Frames : CallStage(g)' = CallStage(g)
<1>1. pc'[f] = to /\ \A g \in Frames : g # f => pc'[g] = pc[g]
  BY DEF TypeOK
<1> QED
  BY <1>1 DEF CallStage, Asleep

(* McpGateway.call implements CheckedCalls: each call is asked of the      *)
(* connector once or not at all and returns with one record that fits, the *)
(* read-back of a write is a call inside the write that never outlives it, *)
(* and the verdict is on what it saw, for any calls and any order of       *)
(* answers, changes by others, time-outs and cancellation.  A call that    *)
(* was asked ends without its record when it is cancelled or is a read-back*)
(* that takes too long, and in no other way.                               *)
THEOREM GatewayImplementsCheckedCalls == Spec => ImplementsCheckedCalls
<1> USE GatewayAssumption, Apart
<1> DEFINE Kept == UNCHANGED Door!callVars
<1>1. Init => Door!Init /\ NestedInv
  <2> SUFFICES ASSUME Init PROVE Door!Init /\ NestedInv
    OBVIOUS
  <2>1. Door!Init
    BY DEF Init, Door!Init, CallStage, Frames, Calls
  <2>2. NestedInv
    BY DEF Init, NestedInv, Nested, Before, Within, Asleep
  <2> QED
    BY <2>1, <2>2
<1>2. TypeOK /\ FrameInv /\ RecordInv /\ NestedInv /\ [Next]_vars => [Door!Next]_(Door!callVars)
  <2> SUFFICES ASSUME TypeOK, FrameInv, RecordInv, NestedInv, [Next]_vars PROVE Door!Next \/ Kept
    OBVIOUS
  <2>1. ASSUME \A g \in Frames : CallStage(g)' = CallStage(g),
               UNCHANGED <<reached, standing, found, verdict, log>>
        PROVE  Kept
    BY <2>1 DEF Door!callVars
  <2>2. ASSUME NEW f \in Frames, NEW o \in Outcomes, Recording(f, o),
               pc[f] \in {"called", "governing", "executing"}
        PROVE  \A g \in Frames : CallStage(g)' = CallStage(g)
    BY <2>2, InsideTheDoor DEF Recording, Goto, PCs, Asleep
  <2>3. ASSUME NEW f \in Frames, FirstAwait(f) \/ Held(f) PROVE Kept
    <3>1. CASE RefusedByPolicy(f) \/ RefusedByLimiter(f) \/ RefusedByBreaker(f) \/ Held(f)
      BY <2>1, <2>2, <3>1 DEF RefusedByPolicy, RefusedByLimiter, RefusedByBreaker, Held,
                              Refusals, Outcomes, world, records
    <3>2. CASE Admitted(f)
      BY <2>1, <3>2, InsideTheDoor DEF Admitted, Goto, PCs, Asleep, world, records
    <3> QED
      BY <2>3, <3>1, <3>2 DEF FirstAwait
  <2>4. ASSUME NEW f \in Frames, Authorized(f) PROVE Door!Next
    <3>1. \A g \in Frames : CallStage(g)' = CallStage(g)
      BY <2>4, InsideTheDoor DEF Authorized, Goto, PCs, Asleep
    <3>2. f \notin reached /\ CallStage(f) = "open"
      BY <2>4 DEF Authorized, FrameInv, Accounted, Before, CallStage
    <3>3. Door!Ask(f)
      BY <2>4, <3>1, <3>2 DEF Authorized, Door!Ask, records
    <3> QED
      BY <3>3 DEF Door!Next, Frames
  <2>5. ASSUME NEW w \in Writes, pc[w] = "executing"
        PROVE  Door!Unchecked(w)
    BY <2>5 DEF Door!Unchecked, CallStage, FrameInv, Accounted, Vouched, NestedInv, Nested,
                Within, Asleep
  <2>6. ASSUME NEW f \in Frames, ReportsFailure(f) \/ Reports(f) \/ ReportsUnread(f)
        PROVE  Door!Next \/ Kept
    <3>1. pc[f] = "executing" /\ UNCHANGED <<reached, log>> /\ \E o \in Outcomes : Recording(f, o)
      BY <2>6 DEF ReportsFailure, Reports, ReportsUnread, world, Outcomes
    <3>2. \A g \in Frames : CallStage(g)' = CallStage(g)
      BY <2>2, <3>1
    <3>3. CASE Reports(f)
      <4>1. /\ UNCHANGED <<standing, verdict>> /\ f \notin Writes
            /\ found' = [w \in Writes |-> IF ReadbackOf[w] = f THEN Sight(w) ELSE found[w]]
        BY <3>3 DEF Reports, Looks
      <4>2. ASSUME NEW w \in Writes, ReadbackOf[w] = f PROVE Door!Next
        <5>1. found' = [found EXCEPT ![w] = Sight(w)]
          BY <4>1, <4>2 DEF TypeOK
        <5>2. found[w] = "nothing" /\ CallStage(f) = "open" /\ f \in reached
          BY <3>1, <4>2 DEF RecordInv, Told, CallStage, FrameInv, Accounted, Within
        <5>3. UNCHANGED [g \in Frames |-> CallStage(g)]
          BY <3>2
        <5>4. [g \in Frames |-> CallStage(g)][ReadbackOf[w]] = "open" /\ ReadbackOf[w] \in reached
          BY <4>2, <5>2
        <5>5. Door!Look(w)
          BY <3>1, <4>1, <5>1, <5>2, <5>3, <5>4 DEF Door!Look, Sight
        <5> QED
          BY <5>5 DEF Door!Next
      <4>3. CASE \A w \in Writes : ReadbackOf[w] # f
        <5>1. found' = found
          BY <4>1, <4>3 DEF TypeOK
        <5> QED
          BY <2>1, <3>1, <3>2, <4>1, <5>1
      <4> QED
        BY <4>2, <4>3
    <3>4. CASE ~Reports(f) /\ f \notin Writes
      <4>1. UNCHANGED <<standing, found, verdict>>
        BY <2>6, <3>4 DEF ReportsFailure, ReportsUnread, MayLand
      <4> QED
        BY <2>1, <3>1, <3>2, <4>1
    <3>5. CASE ~Reports(f) /\ f \in Writes
      <4>1. standing' \in {standing, standing \cup {f}} /\ found' = found
            /\ (verdict' = verdict \/ \E v \in {"unverifiable", "unavailable"} :
                                         verdict' = [verdict EXCEPT ![f] = v])
        BY <2>6, <3>5 DEF ReportsFailure, ReportsUnread, MayLand
      <4>2. Door!Answer(f)
        BY <2>5, <3>1, <3>2, <3>5, <4>1 DEF Door!Answer
      <4> QED
        BY <3>5, <4>2 DEF Door!Next
    <3> QED
      BY <3>3, <3>4, <3>5
  <2>7. ASSUME NEW w \in Writes, ReportsAndReadsBack(w) PROVE Door!Next
    <3>1. /\ pc[w] = "executing" /\ UNCHANGED <<verdict, log, reached, found>>
          /\ standing' \in {standing, standing \cup {w}}
          /\ pc' = [pc EXCEPT ![w] = "verifying", ![ReadbackOf[w]] = "called"]
      BY <2>7 DEF ReportsAndReadsBack, MayLand
    <3>2. pc'[w] = "verifying" /\ pc'[ReadbackOf[w]] = "called"
          /\ \A g \in Frames : g # w /\ g # ReadbackOf[w] => pc'[g] = pc[g]
      BY <3>1 DEF TypeOK
    <3>3. \A g \in Frames : CallStage(g)' = IF g = ReadbackOf[w] THEN "open" ELSE CallStage(g)
      BY <3>1, <3>2 DEF CallStage
    <3>4. Door!Answer(w)
      BY <2>5, <3>1, <3>3 DEF Door!Answer
    <3> QED
      BY <3>4 DEF Door!Next
  <2>8. ASSUME NEW w \in Writes, Verified(w) PROVE Door!Next
    <3>1. /\ pc[w] = "verifying" /\ pc[ReadbackOf[w]] = "done"
          /\ pc' = [pc EXCEPT ![w] = "auditing"] /\ UNCHANGED <<log, reached, standing, found>>
      BY <2>8 DEF Verified, Goto, world, records
    <3>2. PICK v \in VerdictsOf(w) : Judged(w, v)
      BY <2>8 DEF Verified
    <3>3. \A g \in Frames : CallStage(g)' = CallStage(g)
      BY <3>1, InsideTheDoor DEF PCs, Asleep
    <3>4. CallStage(w) = "open" /\ CallStage(ReadbackOf[w]) = "returned" /\ verdict[w] = "none"
      BY <3>1 DEF CallStage, NestedInv, Nested, Within
    <3>5. /\ v \in {"confirmed", "contradicted", "unavailable"} /\ verdict' = [verdict EXCEPT ![w] = v]
          /\ v # "unavailable" => log[ReadbackOf[w]] = "allowed" /\ v = Shown(w)
      BY <3>2 DEF VerdictsOf, Shown, Judged
    <3>7. log[ReadbackOf[w]] = "allowed" => found[w] \in {"asked", "other"}
      BY DEF FrameInv, Accounted, RecordInv, Told, TypeOK, Sights
    <3>6. Door!Judge(w)
      BY <3>1, <3>3, <3>4, <3>5, <3>7 DEF Door!Judge, Shown
    <3> QED
      BY <3>6 DEF Door!Next
  <2>9. ASSUME NEW w \in Writes, VerifyTimeout(w) PROVE Door!Next
    <3>1. /\ pc[w] = "verifying" /\ pc[ReadbackOf[w]] # "done"
          /\ UNCHANGED <<log, reached, standing, found>>
          /\ pc' = [pc EXCEPT ![w] = "auditing", ![ReadbackOf[w]] = "cancelled"]
          /\ verdict' = [verdict EXCEPT ![w] = "unavailable"]
      BY <2>9 DEF VerifyTimeout, Judged, world, records
    <3>2. pc'[w] = "auditing" /\ pc'[ReadbackOf[w]] = "cancelled"
          /\ \A g \in Frames : g # w /\ g # ReadbackOf[w] => pc'[g] = pc[g]
      BY <3>1 DEF TypeOK
    <3>3. \A g \in Frames : CallStage(g)' = IF g = ReadbackOf[w] THEN "gone" ELSE CallStage(g)
      BY <3>1, <3>2 DEF CallStage
    <3>4. CallStage(w) = "open" /\ CallStage(ReadbackOf[w]) = "open" /\ verdict[w] = "none"
      BY <3>1 DEF CallStage, NestedInv, Nested, Within
    <3>5. Door!LetGo(w)
      BY <3>1, <3>3, <3>4 DEF Door!LetGo
    <3> QED
      BY <3>5 DEF Door!Next
  <2>10. ASSUME NEW f \in Frames, Audit(f) PROVE Door!Next
    <3>1. /\ pc[f] = "auditing" /\ pc' = [pc EXCEPT ![f] = "done"]
          /\ log' = [log EXCEPT ![f] = outcome[f]] /\ UNCHANGED <<verdict, reached, standing, found>>
      BY <2>10 DEF Audit, Goto, world, records
    <3>2. \A g \in Frames : CallStage(g)' = IF g = f THEN "returned" ELSE CallStage(g)
      BY <3>1 DEF TypeOK, CallStage
    <3>3. outcome[f] \in Outcomes /\ (outcome[f] \in Refusals <=> f \notin reached)
      BY <3>1 DEF TypeOK, FrameInv, Accounted, Agrees
    <3>4. outcome[f] = "unconfirmed" <=> f \in Writes /\ verdict[f] = "contradicted"
      BY <3>1 DEF NestedInv, Nested
    <3>5. f \in Writes => CallStage(ReadbackOf[f]) # "open"
      BY <3>1 DEF NestedInv, Nested, Asleep, CallStage
    <3>6. CallStage(f) = "open"
      BY <3>1 DEF CallStage
    <3>7. Door!Return(f)
      BY <3>1, <3>2, <3>3, <3>4, <3>5, <3>6 DEF Door!Return
    <3> QED
      BY <3>7 DEF Door!Next, Frames
  <2>11. ASSUME NEW f \in Frames, Cancel(f) PROVE Door!Next
    <3>1. /\ f \in Calls /\ pc[f] \in {"governing", "executing", "verifying", "auditing"}
          /\ UNCHANGED <<verdict, log, reached, standing, found>>
          /\ \A g \in Frames :
               pc'[g] = IF g = f \/ (pc[f] = "verifying" /\ g = ReadbackOf[f] /\ pc[g] # "done")
                        THEN "cancelled" ELSE pc[g]
      BY <2>11 DEF Cancel, world, records
    <3>2. /\ pc[f] = "verifying" => f \in Writes /\ pc[ReadbackOf[f]] \notin {"idle", "cancelled"}
          /\ f \in Writes /\ pc[f] # "verifying" => pc[ReadbackOf[f]] \in Asleep
      BY DEF FrameInv, Accounted, NestedInv, Nested
    <3>3. ASSUME NEW g \in Frames
          PROVE  CallStage(g)' = IF g = f \/ (f \in Writes /\ g = ReadbackOf[f] /\ CallStage(g) = "open")
                                 THEN "gone" ELSE CallStage(g)
      BY <3>1, <3>2 DEF CallStage, Asleep
    <3>4. CallStage(f) = "open"
      BY <3>1 DEF CallStage
    <3>5. CASE f \in reached
      <4>1. Door!Lose(f)
        BY <3>1, <3>3, <3>4, <3>5 DEF Door!Lose, Frames
      <4> QED
        BY <3>1, <4>1 DEF Door!Next
    <3>6. CASE f \notin reached
      <4>1. pc[f] # "verifying"
        BY <3>6 DEF FrameInv, Accounted, Within
      <4>2. CallStage(f)' = "gone" /\ \A g \in Frames : g # f => CallStage(g)' = CallStage(g)
        BY <3>1, <4>1 DEF CallStage
      <4>3. Door!GiveUp(f)
        <5>1. [g \in Frames |-> CallStage(g)]' = [[g \in Frames |-> CallStage(g)] EXCEPT ![f] = "gone"]
          BY <4>2
        <5> QED
          BY <3>1, <3>4, <3>6, <5>1 DEF Door!GiveUp
      <4> QED
        BY <3>1, <4>3 DEF Door!Next
    <3> QED
      BY <3>5, <3>6
  <2>12. CASE HealthPoll \/ Tick \/ UNCHANGED vars
    BY <2>1, <2>12 DEF HealthPoll, Tick, vars, world, records, CallStage
  <2>13. \A f \in Frames : ReportsAndReadsBack(f) => f \in Writes
    BY DEF ReportsAndReadsBack
  <2>14. ASSUME NEW w \in Writes, Elsewhere(w) PROVE Door!Next
    <3>1. CallStage(w) = "open" /\ w \in reached
      BY <2>14 DEF Elsewhere, CallStage, FrameInv, Accounted, Within
    <3>2. \A g \in Frames : CallStage(g)' = CallStage(g)
      BY <2>14 DEF Elsewhere, CallStage
    <3>3. Door!Change(w)
      BY <2>14, <3>1, <3>2 DEF Elsewhere, Door!Change
    <3> QED
      BY <3>3 DEF Door!Next
  <2> QED
    BY <2>3, <2>4, <2>6, <2>7, <2>8, <2>9, <2>10, <2>11, <2>12, <2>13, <2>14 DEF Next, Answered
<1>3. TypeOK /\ FrameInv /\ NestedInv /\ [Next]_vars => NestedInv'
  BY NestedKept
<1>4. IInv => TypeOK /\ FrameInv /\ RecordInv
  BY DEF IInv
<1> QED
  BY <1>1, <1>2, <1>3, <1>4, GatewayCorrect, PTL DEF Spec, ImplementsCheckedCalls, Door!Spec
=============================================================================
