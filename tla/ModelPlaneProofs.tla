-------------------------- MODULE ModelPlaneProofs --------------------------
(* Theorems about ModelPlane, for any number of callers, any limit and     *)
(* both behaviours of asyncio.wait_for.                                    *)
EXTENDS ModelPlane, FiniteSetTheorems, TLAPS

LEMMA HoldersFinite ==
  Holders \subseteq Callers /\ IsFiniteSet(Holders) /\ Cardinality(Holders) \in Nat
<1>1. Holders \subseteq Callers
  BY DEF Holders, Woken, InSlot
<1> QED
  BY <1>1, ModelPlaneAssumption, FS_Subset, FS_CardinalityType

(* A caller that gives its slot back leaves the gate consistent: either    *)
(* the slot is free and nobody waits, or it is the first live waiter's.    *)
LEMMA LeaveKeeps ==
  ASSUME GateTypeOK, SlotInv, NEW r \in Callers, r \in InSlot,
         NEW label \in {"answered", "failed", "abandoned"}, Leave(r, label)
  PROVE  GateTypeOK' /\ SlotInv'
<1> USE ModelPlaneAssumption
<1>1. r \in Holders /\ IsFiniteSet(Holders) /\ Cardinality(Holders) \in Nat
  BY HoldersFinite DEF Holders
<1>2. Cardinality(Holders \ {r}) = Cardinality(Holders) - 1 /\ IsFiniteSet(Holders \ {r})
      /\ Cardinality(Holders) \in Nat \ {0}
  BY <1>1, FS_RemoveElement, FS_CardinalityType, FS_EmptySet
<1>3. active \in 1..Limit
  BY <1>2 DEF GateTypeOK, SlotInv, EngineWithinLimit
<1>4. callerPC' = [callerPC EXCEPT ![r] = label] /\ UNCHANGED <<ticket, counter, mark, tries>>
  BY DEF Leave, GateGoto
<1>5. r \notin waiters /\ callerPC[r] \in {"posting", "backing_off"}
  BY DEF SlotInv, WaiterInv, InSlot
<1>6. CASE Live = {}
  <2>1. active' = active - 1 /\ waiters' = {} /\ fut' = fut
    BY <1>6 DEF Leave, Release
  <2>2. Holders' = Holders \ {r}
    BY <1>4, <1>5, <2>1 DEF Holders, Woken, InSlot, GateTypeOK
  <2>3. GateTypeOK'
    BY <1>3, <1>4, <2>1 DEF GateTypeOK, GatePCs
  <2>4. WaiterInv'
    BY <1>4, <2>1 DEF GateTypeOK, SlotInv, WaiterInv
  <2>5. EngineWithinLimit' /\ WorkConserving' /\ (KeepsResult => SlotsAccounted')
    BY <1>2, <1>3, <2>1, <2>2 DEF SlotInv, EngineWithinLimit, WorkConserving, SlotsAccounted
  <2> QED
    BY <2>3, <2>4, <2>5 DEF SlotInv
<1>7. CASE Live # {}
  <2>1. PICK w \in Live : /\ waiters' = {v \in waiters : Before(w, v)}
                          /\ fut' = [fut EXCEPT ![w] = "set"]
                          /\ active' = active
    BY <1>7 DEF Leave, Release
  <2>2. w \in Callers /\ w \in waiters /\ fut[w] = "pending" /\ callerPC[w] = "queued" /\ w # r
    BY <1>5 DEF Live, GateTypeOK, SlotInv, WaiterInv
  <2>3. w \notin waiters'
    BY <2>1, <2>2 DEF Before, GateTypeOK
  <2>4. w \notin Holders
    BY <2>2 DEF Holders, Woken, InSlot
  <2>5. Holders' = (Holders \ {r}) \cup {w}
    BY <1>4, <1>5, <2>1, <2>2 DEF Holders, Woken, InSlot, GateTypeOK
  <2>6. Cardinality(Holders') = Cardinality(Holders)
    <3>1. w \notin Holders \ {r}
      BY <2>4
    <3>2. Cardinality((Holders \ {r}) \cup {w}) = Cardinality(Holders \ {r}) + 1
      BY <1>2, <3>1, FS_AddElement
    <3> QED
      BY <1>2, <2>5, <3>2
  <2>7. GateTypeOK'
    BY <1>3, <1>4, <2>1, <2>2 DEF GateTypeOK, GatePCs
  <2>8. WaiterInv'
    <3>1. \A v \in waiters' : v \in waiters /\ v # w /\ v # r
      BY <1>5, <2>1, <2>3
    <3>2. \A v \in Callers : /\ v # w => fut'[v] = fut[v]
                             /\ v # r => callerPC'[v] = callerPC[v]
                             /\ tries'[v] = tries[v]
      BY <1>4, <2>1 DEF GateTypeOK
    <3>3. callerPC'[r] = label /\ callerPC'[w] = "queued"
      BY <1>4, <2>2 DEF GateTypeOK
    <3>4. ticket' = ticket /\ counter' = counter
      BY <1>4
    <3> QED
      BY <3>1, <3>2, <3>3, <3>4 DEF SlotInv, WaiterInv
  <2>9. EngineWithinLimit' /\ (KeepsResult => SlotsAccounted')
    BY <2>1, <2>6 DEF SlotInv, EngineWithinLimit, SlotsAccounted
  <2>10. WorkConserving'
    BY <2>1, <2>2 DEF SlotInv, WorkConserving
  <2> QED
    BY <2>7, <2>8, <2>9, <2>10 DEF SlotInv
<1> QED
  BY <1>6, <1>7

(* Every step of a caller keeps the types and the accounts of the gate.    *)
LEMMA StepKeeps ==
  ASSUME GateTypeOK, SlotInv, NEW r \in Callers, Step(r)
  PROVE  GateTypeOK' /\ SlotInv'
<1> USE ModelPlaneAssumption
<1>1. CASE Arrive(r) /\ FreeNow
  <2>1. /\ active < Limit /\ waiters = {} /\ active' = active + 1
        /\ callerPC' = [callerPC EXCEPT ![r] = "posting"] /\ tries' = [tries EXCEPT ![r] = 1]
        /\ UNCHANGED <<waiters, ticket, counter, fut, mark>>
    BY <1>1 DEF Arrive, FreeNow, GateGoto
  <2>2. r \notin Holders /\ Holders' = Holders \cup {r}
    BY <1>1, <2>1 DEF Arrive, Holders, Woken, InSlot, GateTypeOK
  <2>3. Cardinality(Holders') = Cardinality(Holders) + 1
    BY <2>2, HoldersFinite, FS_AddElement
  <2>4. GateTypeOK'
    BY <2>1 DEF GateTypeOK, GatePCs
  <2>5. WaiterInv'
    BY <2>1 DEF GateTypeOK, SlotInv, WaiterInv
  <2>6. EngineWithinLimit' /\ WorkConserving' /\ (KeepsResult => SlotsAccounted')
    BY <2>1, <2>3, HoldersFinite
       DEF GateTypeOK, SlotInv, EngineWithinLimit, WorkConserving, SlotsAccounted
  <2> QED
    BY <2>4, <2>5, <2>6 DEF SlotInv
<1>2. CASE Arrive(r) /\ ~FreeNow
  <2>1. /\ callerPC[r] = "idle" /\ waiters' = waiters \cup {r}
        /\ ticket' = [ticket EXCEPT ![r] = counter] /\ counter' = counter + 1
        /\ callerPC' = [callerPC EXCEPT ![r] = "queued"]
        /\ UNCHANGED <<active, tries, fut, mark>>
    BY <1>2 DEF Arrive, GateGoto
  <2>2. active = Limit
    BY <1>2 DEF FreeNow, GateTypeOK, SlotInv, WorkConserving
  <2>3. Holders' = Holders
    BY <2>1 DEF Holders, Woken, InSlot, GateTypeOK, SlotInv, WaiterInv
  <2>4. GateTypeOK'
    BY <2>1 DEF GateTypeOK, GatePCs
  <2>5. WaiterInv'
    BY <2>1 DEF GateTypeOK, SlotInv, WaiterInv
  <2> QED
    BY <2>1, <2>2, <2>3, <2>4, <2>5
       DEF SlotInv, EngineWithinLimit, WorkConserving, SlotsAccounted
<1>3. ASSUME NEW why \in {"timeout", "cancel"}, Marked(r, why) PROVE GateTypeOK' /\ SlotInv'
  <2>1. /\ callerPC[r] = "queued" /\ mark' = [mark EXCEPT ![r] = why]
        /\ UNCHANGED <<active, waiters, ticket, counter, callerPC, tries>>
    BY <1>3 DEF Marked
  <2>2. fut' = fut \/ (fut[r] = "pending" /\ fut' = [fut EXCEPT ![r] = "cancelled"])
    BY <1>3 DEF Marked
  <2>3. Holders' = Holders
    BY <2>1, <2>2 DEF Holders, Woken, InSlot, GateTypeOK
  <2>4. GateTypeOK'
    BY <2>1, <2>2 DEF GateTypeOK
  <2>5. WaiterInv'
    BY <2>1, <2>2 DEF GateTypeOK, SlotInv, WaiterInv
  <2> QED
    BY <2>1, <2>3, <2>4, <2>5
       DEF SlotInv, EngineWithinLimit, WorkConserving, SlotsAccounted
<1>4. CASE ResumeAdmitted(r)
  <2>1. /\ callerPC[r] = "queued" /\ fut[r] = "set"
        /\ callerPC' = [callerPC EXCEPT ![r] = "posting"] /\ tries' = [tries EXCEPT ![r] = 1]
        /\ UNCHANGED <<active, waiters, ticket, counter, fut, mark>>
    BY <1>4 DEF ResumeAdmitted, GateGoto
  <2>2. Holders' = Holders
    BY <2>1 DEF Holders, Woken, InSlot, GateTypeOK
  <2>3. GateTypeOK'
    BY <2>1 DEF GateTypeOK, GatePCs
  <2>4. WaiterInv'
    BY <2>1 DEF GateTypeOK, SlotInv, WaiterInv
  <2> QED
    BY <2>1, <2>2, <2>3, <2>4
       DEF SlotInv, EngineWithinLimit, WorkConserving, SlotsAccounted
<1>5. ASSUME Raised(r), NEW label \in {"refused", "abandoned"}, GateGoto(r, label),
             fut' = (IF fut[r] = "pending" THEN [fut EXCEPT ![r] = "cancelled"] ELSE fut),
             waiters' = IF label = "refused" THEN waiters \ {r} ELSE waiters,
             UNCHANGED <<active, ticket, counter, mark, tries>>
      PROVE  GateTypeOK' /\ SlotInv'
  <2>1. callerPC[r] = "queued" /\ callerPC' = [callerPC EXCEPT ![r] = label]
        /\ waiters' \subseteq waiters /\ (label = "refused" => r \notin waiters')
    BY <1>5 DEF Raised, GateGoto
  <2>2. (fut[r] # "pending" /\ fut' = fut)
        \/ (fut[r] = "pending" /\ fut' = [fut EXCEPT ![r] = "cancelled"])
    BY <1>5
  <2>3. fut[r] = "set" => ~KeepsResult
    BY <1>5 DEF Raised
  <2>4. Holders' = Holders \ {r}
    BY <2>1, <2>2 DEF Holders, Woken, InSlot, GateTypeOK
  <2>5. KeepsResult => r \notin Holders
    BY <2>1, <2>3 DEF Holders, Woken, InSlot
  <2>6. Cardinality(Holders') <= Cardinality(Holders) /\ Cardinality(Holders') \in Nat
        /\ (KeepsResult => Cardinality(Holders') = Cardinality(Holders))
    <3>1. CASE r \in Holders
      <4>1. Cardinality(Holders \ {r}) = Cardinality(Holders) - 1
        BY <3>1, HoldersFinite, FS_RemoveElement
      <4>2. Cardinality(Holders') = Cardinality(Holders) - 1 /\ Cardinality(Holders') \in Nat
        BY <2>4, <4>1, HoldersFinite, FS_RemoveElement, FS_CardinalityType
      <4> QED
        BY <2>5, <3>1, <4>2, HoldersFinite
    <3>2. CASE r \notin Holders
      <4>1. Holders' = Holders
        BY <2>4, <3>2
      <4> QED
        BY <4>1, HoldersFinite
    <3> QED
      BY <3>1, <3>2
  <2>7. GateTypeOK'
    BY <1>5, <2>1, <2>2 DEF GateTypeOK, GatePCs
  <2>8. WaiterInv'
    BY <1>5, <2>1, <2>2 DEF GateTypeOK, SlotInv, WaiterInv
  <2>9. EngineWithinLimit' /\ (KeepsResult => SlotsAccounted')
    BY <1>5, <2>6, HoldersFinite DEF GateTypeOK, SlotInv, EngineWithinLimit, SlotsAccounted
  <2>10. WorkConserving'
    BY <1>5, <2>1 DEF SlotInv, WorkConserving
  <2> QED
    BY <2>7, <2>8, <2>9, <2>10 DEF SlotInv
<1>6. CASE ResumeRefused(r)
  BY <1>5, <1>6 DEF ResumeRefused
<1>7. CASE ResumeAbandoned(r)
  BY <1>5, <1>7 DEF ResumeAbandoned
<1>8. CASE FailsRetryably(r)
  <2>1. /\ callerPC[r] = "posting" /\ tries[r] < MaxAttempts
        /\ callerPC' = [callerPC EXCEPT ![r] = "backing_off"]
        /\ UNCHANGED <<active, waiters, ticket, counter, fut, mark, tries>>
    BY <1>8 DEF FailsRetryably, MayRetry, GateGoto
  <2>2. Holders' = Holders
    BY <2>1 DEF Holders, Woken, InSlot, GateTypeOK
  <2>3. GateTypeOK'
    BY <2>1 DEF GateTypeOK, GatePCs
  <2>4. WaiterInv'
    BY <2>1 DEF GateTypeOK, SlotInv, WaiterInv
  <2> QED
    BY <2>1, <2>2, <2>3, <2>4
       DEF SlotInv, EngineWithinLimit, WorkConserving, SlotsAccounted
<1>9. CASE Retry(r)
  <2>1. /\ callerPC[r] = "backing_off" /\ tries' = [tries EXCEPT ![r] = @ + 1]
        /\ callerPC' = [callerPC EXCEPT ![r] = "posting"]
        /\ UNCHANGED <<active, waiters, ticket, counter, fut, mark>>
    BY <1>9 DEF Retry, GateGoto
  <2>2. Holders' = Holders
    BY <2>1 DEF Holders, Woken, InSlot, GateTypeOK
  <2>3. tries[r] \in 1..MaxAttempts /\ tries[r] < MaxAttempts
    BY <2>1 DEF SlotInv, WaiterInv
  <2>4. GateTypeOK'
    BY <2>1, <2>3 DEF GateTypeOK, GatePCs
  <2>5. WaiterInv'
    BY <2>1, <2>3 DEF GateTypeOK, SlotInv, WaiterInv
  <2> QED
    BY <2>1, <2>2, <2>4, <2>5
       DEF SlotInv, EngineWithinLimit, WorkConserving, SlotsAccounted
<1>10. CASE Answered(r) \/ FailsForGood(r) \/ CancelInSlot(r)
  BY <1>10, LeaveKeeps DEF Answered, FailsForGood, CancelInSlot, InSlot
<1> QED
  BY <1>1, <1>2, <1>3, <1>4, <1>6, <1>7, <1>8, <1>9, <1>10 DEF Step, Deadline, Cancel

THEOREM SlotsCorrect == GateSpec => [](GateTypeOK /\ SlotInv)
<1>1. GateInit => GateTypeOK /\ SlotInv
  <2> SUFFICES ASSUME GateInit PROVE GateTypeOK /\ SlotInv
    OBVIOUS
  <2>1. Holders = {} /\ Cardinality(Holders) = 0
    <3>1. Holders = {}
      BY DEF GateInit, Holders, Woken, InSlot
    <3> QED
      BY <3>1, FS_EmptySet
  <2>2. GateTypeOK
    BY ModelPlaneAssumption DEF GateInit, GateTypeOK, GatePCs
  <2>3. SlotInv
    BY <2>1, ModelPlaneAssumption
       DEF GateInit, SlotInv, WaiterInv, EngineWithinLimit, WorkConserving, SlotsAccounted
  <2> QED
    BY <2>2, <2>3
<1>2. GateTypeOK /\ SlotInv /\ [GateNext]_gateVars => GateTypeOK' /\ SlotInv'
  <2> SUFFICES ASSUME GateTypeOK, SlotInv, [GateNext]_gateVars PROVE GateTypeOK' /\ SlotInv'
    OBVIOUS
  <2>1. CASE GateNext
    BY <2>1, StepKeeps DEF GateNext
  <2>2. CASE UNCHANGED gateVars
    BY <2>2 DEF gateVars, GateTypeOK, SlotInv, WaiterInv, EngineWithinLimit, WorkConserving,
       SlotsAccounted, Holders, Woken, InSlot
  <2> QED
    BY <2>1, <2>2
<1> QED
  BY <1>1, <1>2, PTL DEF GateSpec

(* The types of the gate and of its callers.                               *)
COROLLARY GateTypes == GateSpec => []GateTypeOK
BY SlotsCorrect, PTL

(* However callers come, time out, are cancelled and retry, the requests   *)
(* at the engine fit the slots the gate counts, and those fit the limit.   *)
THEOREM NeverOverLimit == GateSpec => []EngineWithinLimit
<1>1. SlotInv => EngineWithinLimit
  BY DEF SlotInv
<1> QED
  BY <1>1, SlotsCorrect, PTL

(* Nobody is left waiting beside a free slot.                              *)
THEOREM NoIdleSlot == GateSpec => []WorkConserving
<1>1. SlotInv => WorkConserving
  BY DEF SlotInv
<1> QED
  BY <1>1, SlotsCorrect, PTL

(* Where wait_for keeps the result of a future that is done, no slot is    *)
(* ever lost: every slot counted has a caller in it or on the way to it.   *)
THEOREM NoSlotLost == KeepsResult => (GateSpec => []SlotsAccounted)
<1> SUFFICES ASSUME KeepsResult PROVE GateSpec => []SlotsAccounted
  OBVIOUS
<1>1. SlotInv => SlotsAccounted
  BY DEF SlotInv
<1> QED
  BY <1>1, SlotsCorrect, PTL

(* Slots are handed on by priority, then by arrival.                       *)
THEOREM PriorityOrder == GateSpec => ServedInOrder
<1> DEFINE Fair == \A r \in Callers :
                      (r \in Holders' \ Holders) =>
                         \A w \in Live' : callerPC[r] = "idle" \/ Before(r, w)
<1>1. GateTypeOK /\ SlotInv /\ [GateNext]_gateVars => [Fair]_gateVars
  <2> SUFFICES ASSUME GateTypeOK, SlotInv, NEW q \in Callers, Step(q),
                      NEW r \in Callers, r \in Holders' \ Holders, callerPC[r] # "idle",
                      NEW w \in Live'
               PROVE  Before(r, w)
    BY DEF GateNext
  <2>1. CASE Leave(q, "answered") \/ Leave(q, "failed") \/ Leave(q, "abandoned")
    <3>1. \E l \in {"answered", "failed", "abandoned"} :
             callerPC' = [callerPC EXCEPT ![q] = l] /\ Release
      BY <2>1 DEF Leave, GateGoto
    <3>2. CASE Live = {}
      <4>1. fut' = fut
        BY <3>1, <3>2 DEF Release
      <4> QED
        BY <3>1, <4>1 DEF Holders, Woken, InSlot, GateTypeOK
    <3>3. CASE Live # {}
      <4>1. PICK x \in Live : /\ waiters' = {v \in waiters : Before(x, v)}
                              /\ fut' = [fut EXCEPT ![x] = "set"]
        BY <3>1, <3>3 DEF Release
      <4>2. r = x
        BY <3>1, <4>1 DEF Holders, Woken, InSlot, GateTypeOK
      <4> QED
        BY <4>1, <4>2 DEF Live
    <3> QED
      BY <3>2, <3>3
  <2>2. CASE Arrive(q)
    BY <2>2 DEF Arrive, GateGoto, Holders, Woken, InSlot, GateTypeOK
  <2>3. CASE Deadline(q) \/ Cancel(q)
    BY <2>3 DEF Deadline, Cancel, Marked, Holders, Woken, InSlot, GateTypeOK
  <2>4. CASE ResumeAdmitted(q) \/ ResumeRefused(q) \/ ResumeAbandoned(q)
    BY <2>4 DEF ResumeAdmitted, ResumeRefused, ResumeAbandoned, GateGoto, Holders, Woken,
       InSlot, GateTypeOK
  <2>5. CASE FailsRetryably(q) \/ Retry(q)
    BY <2>5 DEF FailsRetryably, Retry, GateGoto, Holders, Woken, InSlot, GateTypeOK
  <2> QED
    BY <2>1, <2>2, <2>3, <2>4, <2>5 DEF Step, Answered, FailsForGood, CancelInSlot
<1> QED
  BY <1>1, SlotsCorrect, PTL DEF GateSpec, ServedInOrder

-----------------------------------------------------------------------------
(* The gate as a set of slots with a priority queue.                       *)

(* A caller in the heap that is no longer waiting is out of the line.      *)
LEMMA LineShrinks ==
  ASSUME GateTypeOK, GateTypeOK', NEW w \in Callers, ticket' = ticket, Live' = Live \ {w}
  PROVE  InLine' = {p \in InLine : w \notin {p[1], p[2]}}
<1>1. \A u, v : Before(u, v)' <=> Before(u, v)
  BY DEF Before
<1> QED
  BY <1>1 DEF InLine

(* A caller that is removed from those waiting, and nothing else.          *)
LEMMA GivenUp ==
  ASSUME GateTypeOK, GateTypeOK', NEW r \in Live, ticket' = ticket, active' = active,
         Live' = Live \ {r}, Holders' = Holders
  PROVE  Slots!GiveUp(r)
<1>1. r \in Callers
  BY DEF Live, GateTypeOK
<1>2. InLine' = {p \in InLine : r \notin {p[1], p[2]}}
  BY <1>1, LineShrinks
<1> QED
  BY <1>2 DEF Slots!GiveUp, Slots!NoLongerWaits

(* A slot given back is free, or goes to the waiter nobody is ahead of.    *)
LEMMA LeaveHandsOn ==
  ASSUME GateTypeOK, SlotInv, GateTypeOK', SlotInv', NEW r \in Callers, r \in InSlot,
         NEW label \in {"answered", "failed", "abandoned"}, Leave(r, label)
  PROVE  Slots!Next
<1> USE ModelPlaneAssumption
<1>1. r \in Holders
  BY DEF Holders
<1>3. active \in Nat
  BY DEF GateTypeOK
<1>4. callerPC' = [callerPC EXCEPT ![r] = label] /\ UNCHANGED <<ticket, counter, mark, tries>>
  BY DEF Leave, GateGoto
<1>5. r \notin waiters /\ callerPC[r] \in {"posting", "backing_off"}
  BY DEF SlotInv, WaiterInv, InSlot
<1>6. CASE Live = {}
  <2>1. active' = active - 1 /\ waiters' = {} /\ fut' = fut
    BY <1>6 DEF Leave, Release
  <2>2. Holders' = Holders \ {r}
    BY <1>4, <1>5, <2>1 DEF Holders, Woken, InSlot, GateTypeOK
  <2>3. Live' = {} /\ InLine = {} /\ InLine' = {}
    BY <1>6, <2>1 DEF Live, InLine
  <2>4. Limit - active' = (Limit - active) + 1
    BY <1>3, <2>1
  <2>5. Slots!Free(r)
    BY <1>1, <1>6, <2>2, <2>3, <2>4 DEF Slots!Free
  <2> QED
    BY <2>5 DEF Slots!Next
<1>7. CASE Live # {}
  <2>1. PICK w \in Live : /\ First(w, Live)
                          /\ waiters' = {v \in waiters : Before(w, v)}
                          /\ fut' = [fut EXCEPT ![w] = "set"]
                          /\ active' = active
    BY <1>7 DEF Leave, Release
  <2>2. w \in Callers /\ w \in waiters /\ fut[w] = "pending" /\ callerPC[w] = "queued" /\ w # r
    BY <1>5 DEF Live, GateTypeOK, SlotInv, WaiterInv
  <2>3. \A v \in Live : ~Before(v, w)
    BY <2>1, <2>2 DEF First, Before, Live, GateTypeOK
  <2>4. Live' = Live \ {w}
    <3>1. \A v \in Live \ {w} : v \in waiters' /\ fut'[v] = "pending"
      BY <2>1 DEF First, Live, GateTypeOK
    <3>2. \A v \in Live' : v \in Live /\ v # w
      BY <2>1, <2>2 DEF Live, GateTypeOK
    <3> QED
      BY <3>1, <3>2 DEF Live
  <2>5. w \notin Holders
    BY <2>2 DEF Holders, Woken, InSlot
  <2>6. Holders' = (Holders \ {r}) \cup {w}
    BY <1>4, <1>5, <2>1, <2>2 DEF Holders, Woken, InSlot, GateTypeOK
  <2>8. \A v \in Live : <<v, w>> \notin InLine
    BY <2>3 DEF InLine
  <2>9. InLine' = {p \in InLine : w \notin {p[1], p[2]}}
    BY <1>4, <2>2, <2>4, LineShrinks
  <2>10. Slots!HandOn(r, w)
    BY <1>1, <2>1, <2>4, <2>6, <2>8, <2>9 DEF Slots!HandOn, Slots!NoLongerWaits
  <2> QED
    BY <2>2, <2>10 DEF Slots!Next
<1> QED
  BY <1>6, <1>7

(* A caller that arrives takes a free slot, or joins the line: behind all  *)
(* but the background callers if it is interactive, behind all otherwise.  *)
LEMMA ArrivesInOrder ==
  ASSUME GateTypeOK, SlotInv, GateTypeOK', SlotInv', NEW r \in Callers, Arrive(r)
  PROVE  Slots!Enter(r) \/ Slots!Join(r)
<1> USE ModelPlaneAssumption
<1>1. callerPC[r] = "idle" /\ UNCHANGED <<fut, mark>> /\ fut[r] = "pending"
  BY DEF Arrive, SlotInv, WaiterInv
<1>2. r \notin waiters /\ r \notin Live /\ r \notin Holders
  BY <1>1 DEF SlotInv, WaiterInv, Live, Holders, Woken, InSlot
<1>3. Slots!Comes(r)
  BY <1>2 DEF Slots!Comes
<1>4. CASE FreeNow
  <2>1. /\ active < Limit /\ waiters = {} /\ active' = active + 1
        /\ callerPC' = [callerPC EXCEPT ![r] = "posting"] /\ UNCHANGED <<waiters, ticket, counter>>
    BY <1>4 DEF Arrive, FreeNow, GateGoto
  <2>2. Holders' = Holders \cup {r}
    BY <1>1, <2>1 DEF Holders, Woken, InSlot, GateTypeOK
  <2>3. Limit - active > 0 /\ Limit - active' = (Limit - active) - 1
    BY <2>1 DEF GateTypeOK
  <2>5. Live' = Live /\ InLine' = InLine
    BY <1>1, <2>1 DEF Live, InLine, Before
  <2> QED
    BY <1>3, <2>2, <2>3, <2>5 DEF Slots!Enter
<1>5. CASE ~FreeNow
  <2>1. /\ waiters' = waiters \cup {r} /\ ticket' = [ticket EXCEPT ![r] = counter]
        /\ callerPC' = [callerPC EXCEPT ![r] = "queued"] /\ UNCHANGED <<active, tries>>
    BY <1>5 DEF Arrive, GateGoto
  <2>2. active = Limit
    BY <1>5 DEF FreeNow, GateTypeOK, SlotInv, WorkConserving
  <2>3. Limit - active = 0
    BY <2>2
  <2>4. Holders' = Holders
    BY <1>1, <2>1 DEF Holders, Woken, InSlot, GateTypeOK
  <2>5. Live' = Live \cup {r}
    BY <1>1, <2>1 DEF Live
  <2>6. \A v \in Live : v # r /\ v \in Callers /\ ticket'[v] = ticket[v] /\ ticket[v] < counter
    BY <1>2, <2>1 DEF Live, GateTypeOK, SlotInv, WaiterInv
  <2>7. ticket'[r] = counter /\ r \in Callers /\ counter \in Nat /\ \A v \in Live : ticket[v] \in Nat
    BY <2>1, <2>6 DEF GateTypeOK
  <2>8. \A u, v \in Live : Before(u, v)' <=> Before(u, v)
    BY <2>6 DEF Before
  <2>9. InLine' = InLine \cup {<<v, r>> : v \in {x \in Live : ~Slots!GivesWay(x, r)}}
                         \cup {<<r, v>> : v \in {x \in Live : Slots!GivesWay(x, r)}}
    <3> DEFINE Earlier == {<<v, r>> : v \in {x \in Live : ~Slots!GivesWay(x, r)}}
               Later    == {<<r, v>> : v \in {x \in Live : Slots!GivesWay(x, r)}}
               Joined   == InLine \cup Earlier \cup Later
    <3>1. InLine' = {p \in Live' \X Live' : Before(p[1], p[2])'}
      BY DEF InLine
    <3>2. ASSUME NEW u \in Live', NEW v \in Live'
          PROVE  <<u, v>> \in Joined <=> Before(u, v)'
      <4>1. <<u, v>> \in InLine <=> u \in Live /\ v \in Live /\ Before(u, v)
        BY DEF InLine
      <4>2. <<u, v>> \in Earlier <=> u \in Live /\ ~Slots!GivesWay(u, r) /\ v = r
        OBVIOUS
      <4>3. <<u, v>> \in Later <=> v \in Live /\ Slots!GivesWay(v, r) /\ u = r
        OBVIOUS
      <4> HIDE DEF Earlier, Later
      <4>4. CASE u \in Live /\ v \in Live
        BY <2>6, <2>8, <4>1, <4>2, <4>3, <4>4
      <4>5. Before(u, v)' <=> \/ u \in Interactive /\ v \notin Interactive
                             \/ /\ u \in Interactive <=> v \in Interactive
                                /\ ticket'[u] < ticket'[v]
        BY DEF Before
      <4>6. CASE u \in Live /\ v = r
        <5>1. Before(u, v)' <=> ~Slots!GivesWay(u, r)
          BY <2>6, <2>7, <4>5, <4>6 DEF Slots!GivesWay
        <5> QED
          BY <1>2, <4>1, <4>2, <4>3, <4>6, <5>1
      <4>7. CASE u = r /\ v \in Live
        <5>1. Before(u, v)' <=> Slots!GivesWay(v, r)
          BY <2>6, <2>7, <4>5, <4>7 DEF Slots!GivesWay
        <5> QED
          BY <1>2, <4>1, <4>2, <4>3, <4>7, <5>1
      <4>8. CASE u = r /\ v = r
        <5>1. ~Before(u, v)'
          BY <2>7, <4>5, <4>8
        <5> QED
          BY <1>2, <4>1, <4>2, <4>3, <4>8, <5>1
      <4> QED
        BY <2>5, <4>4, <4>6, <4>7, <4>8
    <3>3. Joined \subseteq Live' \X Live'
      BY <2>5 DEF InLine
    <3> HIDE DEF Joined
    <3>4. Joined = InLine'
      BY <3>1, <3>2, <3>3
    <3> QED
      BY <3>4 DEF Joined
  <2> QED
    BY <1>3, <2>1, <2>3, <2>4, <2>5, <2>9 DEF Slots!Join
<1> QED
  BY <1>4, <1>5

(* A caller whose wait is over for good: it gives up its place if it was   *)
(* still waiting, loses the slot it had been given, or was out already.    *)
LEMMA RaisedGivesUp ==
  ASSUME GateTypeOK, SlotInv, GateTypeOK', SlotInv', NEW r \in Callers, Raised(r),
         NEW label \in {"refused", "abandoned"}, GateGoto(r, label),
         fut' = (IF fut[r] = "pending" THEN [fut EXCEPT ![r] = "cancelled"] ELSE fut),
         waiters' = waiters \/ waiters' = waiters \ {r},
         UNCHANGED <<active, ticket, counter, mark, tries>>
  PROVE  Slots!GiveUp(r) \/ Slots!Lose(r) \/ UNCHANGED Slots!slotVars
<1> USE ModelPlaneAssumption
<1>1. callerPC[r] = "queued" /\ callerPC' = [callerPC EXCEPT ![r] = label]
  BY DEF Raised, GateGoto
<1>2. Holders' = Holders \ {r}
  BY <1>1 DEF Holders, Woken, InSlot, GateTypeOK
<1>3. Live' = Live \ {r}
  BY DEF Live, GateTypeOK
<1>4. CASE r \in Live
  <2>1. r \notin Holders
    BY <1>1, <1>4 DEF Live, Holders, Woken, InSlot
  <2>2. Slots!GiveUp(r)
    BY <1>2, <1>3, <1>4, <2>1, GivenUp
  <2> QED
    BY <2>2
<1>5. CASE r \notin Live
  <2>1. Live' = Live /\ InLine' = InLine
    BY <1>3, <1>5 DEF InLine, Before
  <2>2. CASE r \in Holders
    <3>1. fut[r] = "set" /\ ~KeepsResult
      BY <1>1, <2>2 DEF Holders, Woken, InSlot, Raised
    <3>2. Slots!Lose(r)
      BY <1>2, <2>1, <2>2, <3>1 DEF Slots!Lose
    <3> QED
      BY <3>2
  <2>3. CASE r \notin Holders
    <3>1. Holders' = Holders
      BY <1>2, <2>3
    <3> QED
      BY <2>1, <3>1 DEF Slots!slotVars
  <2> QED
    BY <2>2, <2>3
<1> QED
  BY <1>4, <1>5

(* Every step of a caller is a step of the abstract gate, or none.         *)
LEMMA StepImplements ==
  ASSUME GateTypeOK, SlotInv, GateTypeOK', SlotInv', NEW r \in Callers, Step(r)
  PROVE  [Slots!Next]_(Slots!slotVars)
<1> USE ModelPlaneAssumption
<1>1. CASE Arrive(r)
  BY <1>1, ArrivesInOrder DEF Slots!Next
<1>2. ASSUME NEW why \in {"timeout", "cancel"}, Marked(r, why)
      PROVE  [Slots!Next]_(Slots!slotVars)
  <2>1. callerPC[r] = "queued" /\ UNCHANGED <<active, waiters, ticket, counter, callerPC, tries>>
    BY <1>2 DEF Marked
  <2>2. fut' = fut \/ (fut[r] = "pending" /\ fut' = [fut EXCEPT ![r] = "cancelled"])
    BY <1>2 DEF Marked
  <2>3. Holders' = Holders
    BY <2>1, <2>2 DEF Holders, Woken, InSlot, GateTypeOK
  <2>4. CASE r \in Live /\ fut' = [fut EXCEPT ![r] = "cancelled"]
    <3>1. Live' = Live \ {r}
      BY <2>1, <2>4 DEF Live, GateTypeOK
    <3>2. Slots!GiveUp(r)
      BY <2>1, <2>3, <2>4, <3>1, GivenUp
    <3> QED
      BY <3>2 DEF Slots!Next
  <2>5. CASE ~(r \in Live /\ fut' = [fut EXCEPT ![r] = "cancelled"])
    <3>1. Live' = Live
      BY <2>1, <2>2, <2>5 DEF Live, GateTypeOK
    <3>2. InLine' = InLine
      BY <2>1, <3>1 DEF InLine, Before
    <3> QED
      BY <2>1, <2>3, <3>1, <3>2 DEF Slots!slotVars
  <2> QED
    BY <2>4, <2>5
<1>3. ASSUME UNCHANGED <<active, waiters, ticket, fut>>, Holders' = Holders
      PROVE  UNCHANGED Slots!slotVars
  BY <1>3 DEF Slots!slotVars, Live, InLine, Before
<1>4. CASE ResumeAdmitted(r) \/ FailsRetryably(r) \/ Retry(r)
  <2>1. Holders' = Holders
    BY <1>4 DEF ResumeAdmitted, FailsRetryably, Retry, GateGoto, Holders, Woken, InSlot, GateTypeOK
  <2> QED
    BY <1>3, <1>4, <2>1 DEF ResumeAdmitted, FailsRetryably, Retry
<1>5. CASE ResumeRefused(r)
  BY <1>5, RaisedGivesUp DEF ResumeRefused, Slots!Next
<1>6. CASE ResumeAbandoned(r)
  BY <1>6, RaisedGivesUp DEF ResumeAbandoned, Slots!Next
<1>7. CASE Answered(r) \/ FailsForGood(r) \/ CancelInSlot(r)
  BY <1>7, LeaveHandsOn DEF Answered, FailsForGood, CancelInSlot, InSlot
<1> QED
  BY <1>1, <1>2, <1>4, <1>5, <1>6, <1>7 DEF Step, Deadline, Cancel

(* For every number of callers, every limit and both versions of wait_for, *)
(* what callers see of the gate is PrioritySlots.                          *)
THEOREM GateImplementsSlots == GateSpec => ImplementsSlots
<1>1. GateInit => Slots!Init
  <2> SUFFICES ASSUME GateInit PROVE Slots!Init
    OBVIOUS
  <2>1. Holders = {} /\ Live = {} /\ InLine = {}
    BY DEF GateInit, Holders, Woken, InSlot, Live, InLine
  <2>2. Limit - active = Limit
    BY ModelPlaneAssumption DEF GateInit
  <2> QED
    BY <2>1, <2>2 DEF Slots!Init
<1>2. GateTypeOK /\ SlotInv /\ (GateTypeOK /\ SlotInv)' /\ [GateNext]_gateVars
         => [Slots!Next]_(Slots!slotVars)
  <2> SUFFICES ASSUME GateTypeOK, SlotInv, GateTypeOK', SlotInv', [GateNext]_gateVars
               PROVE  [Slots!Next]_(Slots!slotVars)
    OBVIOUS
  <2>1. CASE GateNext
    BY <2>1, StepImplements DEF GateNext
  <2>2. CASE UNCHANGED gateVars
    BY <2>2 DEF gateVars, Slots!slotVars, Holders, Woken, InSlot, Live, InLine, Before
  <2> QED
    BY <2>1, <2>2
<1> QED
  BY <1>1, <1>2, SlotsCorrect, PTL DEF GateSpec, ImplementsSlots, Slots!Spec
=============================================================================
