-------------------------- MODULE KnowledgeProofs --------------------------
(* Theorems about Knowledge, for any documents, writes, faults and restarts *)
EXTENDS Knowledge, TLAPS

(* What is held anywhere was once at the source *)
Born ==
    \A d \in Docs :
        index[d] # "absent" \/ store[d] # "absent" \/ d \in todo
          \/ (\E l \in Loops : batch[l][d] # "absent") => src[d] # "unborn"

Withdrawn(d) == src[d] \in {"revoked", "gone"}

(* The source never grants again what it has withdrawn, so neither does    *)
(* the answer a check works on.                                            *)
ReviewedForGood == \A d \in foundGone : Withdrawn(d)
ToldInOrder ==
    \A d \in Docs :
        /\ told[d] = "granted" => d \notin foundGone
        /\ loopPC["acl"] \in {"reviewing", "updating"} /\ d \in todo /\ told[d] # "granted" => Withdrawn(d)

IInv == KnowledgeTypeOK /\ Born /\ ReviewedForGood /\ ToldInOrder /\ CheckedStaysRevoked

(* The step of one loop, action by action *)
LoopCases(l) ==
    \/ FetchAnswered(l) \/ Apply(l) \/ (\E d \in Docs : Save(l, d)) \/ Mark(l) \/ MarkStored(l)
    \/ FetchFailed(l) \/ DatabaseFailed(l)
CheckCases ==
    \/ PermissionTick \/ AclsAnswered \/ AclsFailed \/ Dropped \/ Updated \/ CheckDone \/ Forgotten
    \/ \E d \in Docs : ReviewChanged(d) \/ ReviewSame(d)

LEMMA NextCases ==
  ASSUME [KnowledgeNext]_knowledgeVars
  PROVE  \/ \E d \in Docs : Edit(d) \/ Withdraw(d)
         \/ BudgetRunsOut \/ ContentTick \/ Restart \/ CheckCases
         \/ \E l \in Loops : LoopCases(l)
         \/ UNCHANGED knowledgeVars
BY DEF KnowledgeNext, LoopStep, SyncStep, LoopCases, CheckCases

LEMMA NothingHeld ==
  /\ NoHoldings \in [Docs -> Held] /\ \A d \in Docs : NoHoldings[d] = "absent"
  /\ [l \in Loops |-> NoHoldings] \in [Loops -> [Docs -> Held]]
BY DEF NoHoldings, Held

LEMMA InitInv == KnowledgeInit => IInv
<1> SUFFICES ASSUME KnowledgeInit PROVE IInv
  OBVIOUS
<1>1. KnowledgeTypeOK
  <2>1. /\ src \in [Docs -> Grants \cup {"unborn", "gone"}]
        /\ edited \in [Docs -> 0..MaxWrites] /\ writes \in 0..MaxWrites
    BY KnowledgeAssumption DEF KnowledgeInit, Grants
  <2>2. /\ loopPC \in [Loops -> LoopPCs] /\ since \in [Loops -> 0..MaxWrites \cup {NoMark}]
    BY DEF KnowledgeInit, LoopPCs
  <2> QED
    <3>1. faults \in 0..MaxFaults /\ crashes \in 0..MaxCrashes
      BY KnowledgeAssumption DEF KnowledgeInit
    <3>2. /\ index \in [Docs -> Held] /\ store \in [Docs -> Held]
          /\ batch \in [Loops -> [Docs -> Held]] /\ told \in [Docs -> Held]
      BY NothingHeld DEF KnowledgeInit
    <3> QED
      BY <2>1, <2>2, <3>1, <3>2 DEF KnowledgeInit, KnowledgeTypeOK
<1>2. Born /\ ReviewedForGood /\ ToldInOrder /\ CheckedStaysRevoked
  BY NothingHeld DEF KnowledgeInit, Born, ReviewedForGood, ToldInOrder, CheckedStaysRevoked, Loops
<1> QED
  BY <1>1, <1>2 DEF IInv

LEMMA TypeStep == KnowledgeTypeOK /\ [KnowledgeNext]_knowledgeVars => KnowledgeTypeOK'
<1> SUFFICES ASSUME KnowledgeTypeOK, [KnowledgeNext]_knowledgeVars PROVE KnowledgeTypeOK'
  OBVIOUS
<1> USE KnowledgeAssumption DEF KnowledgeTypeOK, source, marks, status, syncing, checking, bounds,
        history, LoopGoto, Grants, Held, Loops, LoopPCs, Fault
<1>1. ASSUME NEW d \in Docs, Edit(d) \/ Withdraw(d) PROVE KnowledgeTypeOK'
  BY <1>1 DEF Edit, Withdraw
<1>2. CASE BudgetRunsOut \/ ContentTick
  BY <1>2 DEF BudgetRunsOut, ContentTick, SyncFrom
<1>3. CASE Restart
  <2>1. /\ loopPC' \in [Loops -> LoopPCs] /\ since' \in [Loops -> 0..MaxWrites \cup {NoMark}]
    BY <1>3 DEF Restart
  <2>2. verified' \in {"never", "current", "stale"}
    BY <1>3 DEF Restart
  <2>3. index' \in [Docs -> Held] /\ store' \in [Docs -> Held]
    BY <1>3 DEF Restart
  <2>4. batch' \in [Loops -> [Docs -> Held]] /\ told' \in [Docs -> Held]
    BY <1>3, NothingHeld DEF Restart
  <2>5. todo' \subseteq Docs /\ foundGone' \subseteq Docs /\ revived' \subseteq Docs
    BY <1>3 DEF Restart
  <2>6. faults' \in 0..MaxFaults /\ crashes' \in 0..MaxCrashes
    BY <1>3 DEF Restart
  <2>7. UNCHANGED <<source, store, storedMark>> /\ watermark' = storedMark /\ quarantined' = FALSE
        /\ late' = FALSE /\ on' = NoDoc
    BY <1>3 DEF Restart
  <2> QED
    BY <2>1, <2>2, <2>3, <2>4, <2>5, <2>6, <2>7
<1>4. CASE PermissionTick
  BY <1>4 DEF PermissionTick, CheckEmpty, CheckPassed, Indexed
<1>5. CASE AclsAnswered
  BY <1>5 DEF AclsAnswered, Present
<1>6. CASE AclsFailed
  <2>1. index' \in [Docs -> Held] /\ loopPC' \in [Loops -> LoopPCs]
    BY <1>6, NothingHeld DEF AclsFailed
  <2>2. faults' \in 0..MaxFaults /\ crashes' \in 0..MaxCrashes
    BY <1>6 DEF AclsFailed
  <2>3. /\ todo' = {} /\ late' = FALSE
        /\ UNCHANGED <<source, store, marks, status, syncing, told, on, history>>
    BY <1>6 DEF AclsFailed
  <2> QED
    BY <2>1, <2>2, <2>3
<1>12. CASE Dropped
  BY <1>12, NothingHeld DEF Dropped
<1>11. CASE Updated \/ Forgotten
  BY <1>11 DEF Updated, Forgotten, SyncFrom
<1>7. CASE CheckDone
  <2>1. watermark' \in 0..MaxWrites \cup {NoMark} /\ loopPC' \in [Loops -> LoopPCs]
    BY <1>7 DEF CheckDone, CheckPassed
  <2>2. told' \in [Docs -> Held]
    BY <1>7, NothingHeld DEF CheckDone
  <2> QED
    BY <1>7, <2>1, <2>2 DEF CheckDone, CheckPassed
<1>8. ASSUME NEW d \in Docs, ReviewChanged(d) \/ ReviewSame(d) PROVE KnowledgeTypeOK'
  BY <1>8 DEF ReviewChanged, ReviewSame, Review
<1>9. ASSUME NEW l \in Loops, LoopCases(l) PROVE KnowledgeTypeOK'
  <2>1. CASE FetchAnswered(l)
    BY <2>1 DEF FetchAnswered, Changed, Present
  <2>2. CASE Apply(l)
    BY <2>2 DEF Apply, Staged
  <2>3. ASSUME NEW d \in Docs, Save(l, d) PROVE KnowledgeTypeOK'
    BY <2>3 DEF Save, Staged
  <2>4. CASE Mark(l)
    BY <2>4 DEF Mark
  <2>5. CASE MarkStored(l) \/ FetchFailed(l)
    <3>1. SyncOver(l)
      BY <2>5 DEF MarkStored, FetchFailed
    <3>2. quarantined' \in BOOLEAN
      BY <3>1, Zenon DEF SyncOver
    <3>3. /\ loopPC' \in [Loops -> LoopPCs] /\ since' \in [Loops -> 0..MaxWrites \cup {NoMark}]
          /\ batch' \in [Loops -> [Docs -> Held]]
      BY <3>1, NothingHeld DEF SyncOver
    <3> QED
      BY <2>5, <3>2, <3>3 DEF MarkStored, FetchFailed
  <2>6. CASE DatabaseFailed(l)
    <3>1. told' \in [Docs -> Held] /\ todo' \subseteq Docs /\ on' \in Docs \cup {NoDoc}
          /\ late' \in BOOLEAN
      BY <2>6, NothingHeld DEF DatabaseFailed
    <3>2. /\ loopPC' \in [Loops -> LoopPCs] /\ since' \in [Loops -> 0..MaxWrites \cup {NoMark}]
          /\ batch' \in [Loops -> [Docs -> Held]]
      BY <2>6, NothingHeld DEF DatabaseFailed
    <3> QED
      BY <2>6, <3>1, <3>2 DEF DatabaseFailed
  <2> QED
    BY <1>9, <2>1, <2>2, <2>3, <2>4, <2>5, <2>6 DEF LoopCases
<1>10. CASE UNCHANGED knowledgeVars
  BY <1>10 DEF knowledgeVars
<1> QED
  BY NextCases, <1>1, <1>2, <1>3, <1>4, <1>5, <1>6, <1>7, <1>8, <1>9, <1>10, <1>11, <1>12 DEF CheckCases

(* Type correctness: for any documents and bounds, every variable stays in *)
(* its range.                                                              *)
THEOREM KnowledgeTypes == KnowledgeSpec => []KnowledgeTypeOK
<1>1. KnowledgeInit => KnowledgeTypeOK
  BY InitInv DEF IInv
<1> QED
  BY <1>1, TypeStep, PTL DEF KnowledgeSpec

(* How the parts of the invariant that speak of other documents, or of the *)
(* place of the check, survive what leaves them alone.                     *)
LEMMA BornStep == IInv /\ [KnowledgeNext]_knowledgeVars => Born'
<1> SUFFICES ASSUME IInv, [KnowledgeNext]_knowledgeVars, NEW d \in Docs, src'[d] = "unborn"
             PROVE  /\ index'[d] = "absent" /\ store'[d] = "absent" /\ d \notin todo'
                    /\ \A l \in Loops : batch'[l][d] = "absent"
  BY DEF Born
<1> USE DEF IInv, KnowledgeTypeOK, source, marks, status, syncing, checking, history, LoopGoto, Held, Grants
<1>1. src[d] = "unborn"
  <2>1. ASSUME NEW x \in Docs, Edit(x) \/ Withdraw(x) PROVE src[d] = "unborn"
    BY <2>1 DEF Edit, Withdraw
  <2>2. CASE UNCHANGED src
    BY <2>2
  <2>3. ASSUME NEW l \in Loops, LoopCases(l) PROVE UNCHANGED src
    BY <2>3 DEF LoopCases, FetchAnswered, Apply, Save, Mark, MarkStored, FetchFailed, DatabaseFailed
  <2>4. CheckCases => UNCHANGED src
    BY DEF CheckCases, PermissionTick, AclsAnswered, AclsFailed, Dropped, Updated, CheckDone,
       Forgotten, ReviewChanged, ReviewSame
  <2>5. BudgetRunsOut \/ ContentTick \/ Restart \/ UNCHANGED knowledgeVars => UNCHANGED src
    BY DEF BudgetRunsOut, ContentTick, Restart, knowledgeVars
  <2> QED
    BY NextCases, <2>1, <2>2, <2>3, <2>4, <2>5
<1>2. /\ index[d] = "absent" /\ store[d] = "absent" /\ d \notin todo
      /\ \A l \in Loops : batch[l][d] = "absent"
  BY <1>1 DEF Born
<1>3. ASSUME NEW x \in Docs, Edit(x) \/ Withdraw(x)
      PROVE  UNCHANGED <<index, store, todo, batch>>
  BY <1>3 DEF Edit, Withdraw
<1>4. BudgetRunsOut \/ ContentTick \/ UNCHANGED knowledgeVars => UNCHANGED <<index, store, todo, batch>>
  BY DEF BudgetRunsOut, ContentTick, SyncFrom, knowledgeVars
<1>5. CASE Restart
  BY <1>2, <1>5, NothingHeld DEF Restart
<1>6. CASE PermissionTick
  BY <1>2, <1>6 DEF PermissionTick, Indexed
<1>7. CASE AclsAnswered \/ CheckDone \/ Forgotten
  BY <1>2, <1>7 DEF AclsAnswered, CheckDone, Forgotten, SyncFrom
<1>8. CASE AclsFailed \/ Dropped \/ Updated
  BY <1>2, <1>8, NothingHeld DEF AclsFailed, Dropped, Updated
<1>9. ASSUME NEW x \in Docs, ReviewChanged(x) \/ ReviewSame(x)
      PROVE  /\ index'[d] = "absent" /\ UNCHANGED <<store, batch>> /\ d \notin todo'
  BY <1>2, <1>9 DEF ReviewChanged, ReviewSame, Review
<1>10. ASSUME NEW k \in Loops, LoopCases(k)
       PROVE  /\ index'[d] = "absent" /\ store'[d] = "absent" /\ d \notin todo'
              /\ \A l \in Loops : batch'[l][d] = "absent"
  <2>1. CASE FetchAnswered(k)
    BY <1>1, <1>2, <2>1 DEF FetchAnswered, Changed, Present
  <2>2. CASE Apply(k)
    BY <1>2, <2>2 DEF Apply, Staged
  <2>3. ASSUME NEW x \in Docs, Save(k, x)
        PROVE  /\ store'[d] = "absent" /\ UNCHANGED <<index, todo>>
               /\ \A l \in Loops : batch'[l][d] = "absent"
    BY <1>2, <2>3 DEF Save, Staged
  <2>4. CASE Mark(k)
    BY <1>2, <2>4 DEF Mark
  <2>5. CASE MarkStored(k) \/ FetchFailed(k)
    BY <1>2, <2>5, NothingHeld DEF MarkStored, FetchFailed, SyncOver
  <2>6. CASE DatabaseFailed(k)
    BY <1>2, <2>6, NothingHeld DEF DatabaseFailed
  <2> QED
    BY <1>2, <1>10, <2>1, <2>2, <2>3, <2>4, <2>5, <2>6 DEF LoopCases
<1> QED
  BY NextCases, <1>2, <1>3, <1>4, <1>5, <1>6, <1>7, <1>8, <1>9, <1>10 DEF CheckCases

(* What a review works on, and what it has found.                          *)
LEMMA ReviewStep == IInv /\ [KnowledgeNext]_knowledgeVars => ReviewedForGood' /\ ToldInOrder'
<1> SUFFICES ASSUME IInv, [KnowledgeNext]_knowledgeVars PROVE ReviewedForGood' /\ ToldInOrder'
  OBVIOUS
<1> USE DEF IInv, KnowledgeTypeOK, source, marks, status, syncing, checking, history, LoopGoto, Held, Grants,
        Withdrawn, ReviewedForGood, ToldInOrder, Loops
<1>1. ASSUME NEW x \in Docs, Edit(x) PROVE ReviewedForGood' /\ ToldInOrder'
  BY <1>1 DEF Edit
<1>2. ASSUME NEW x \in Docs, Withdraw(x) PROVE ReviewedForGood' /\ ToldInOrder'
  BY <1>2 DEF Withdraw
<1>3. CASE BudgetRunsOut \/ ContentTick \/ UNCHANGED knowledgeVars
  BY <1>3 DEF BudgetRunsOut, ContentTick, SyncFrom, knowledgeVars
<1>4. CASE Restart
  BY <1>4, NothingHeld DEF Restart
<1>5. CASE PermissionTick
  BY <1>5 DEF PermissionTick, CheckEmpty, CheckPassed
<1>6. CASE AclsAnswered
  BY <1>6 DEF AclsAnswered, Present, Born
<1>7. CASE AclsFailed \/ Dropped
  BY <1>7 DEF AclsFailed, Dropped
<1>8. CASE Updated
  BY <1>8 DEF Updated
<1>13. CASE Forgotten
  BY <1>13 DEF Forgotten, SyncFrom
<1>9. CASE CheckDone
  BY <1>9, NothingHeld DEF CheckDone, CheckPassed
<1>10. ASSUME NEW x \in Docs, ReviewChanged(x) PROVE ReviewedForGood' /\ ToldInOrder'
  BY <1>10 DEF ReviewChanged
<1>11. ASSUME NEW x \in Docs, ReviewSame(x) PROVE ReviewedForGood' /\ ToldInOrder'
  BY <1>11 DEF ReviewSame
<1>12. ASSUME NEW l \in Loops, LoopCases(l) PROVE ReviewedForGood' /\ ToldInOrder'
  <2>1. CASE FetchAnswered(l) \/ Apply(l)
    BY <2>1 DEF FetchAnswered, Apply
  <2>2. ASSUME NEW x \in Docs, Save(l, x) PROVE ReviewedForGood' /\ ToldInOrder'
    BY <2>2 DEF Save
  <2>3. CASE Mark(l) \/ MarkStored(l) \/ FetchFailed(l)
    BY <2>3 DEF Mark, MarkStored, FetchFailed, SyncOver
  <2>4. CASE DatabaseFailed(l)
    BY <2>4, NothingHeld DEF DatabaseFailed
  <2> QED
    BY <1>12, <2>1, <2>2, <2>3, <2>4 DEF LoopCases
<1> QED
  BY NextCases, <1>1, <1>2, <1>3, <1>4, <1>5, <1>6, <1>7, <1>8, <1>9, <1>10, <1>11, <1>12, <1>13
     DEF CheckCases

LEMMA RevokedStep == IInv /\ [KnowledgeNext]_knowledgeVars => CheckedStaysRevoked'
<1> SUFFICES ASSUME IInv, [KnowledgeNext]_knowledgeVars PROVE CheckedStaysRevoked'
  OBVIOUS
<1> USE DEF IInv, KnowledgeTypeOK, source, marks, status, syncing, checking, history, CheckedStaysRevoked
<1>1. CASE UNCHANGED <<index, foundGone, revived>>
  BY <1>1
<1>2. ASSUME NEW l \in Loops, Apply(l) PROVE CheckedStaysRevoked'
  BY <1>2 DEF Apply, Staged
<1>3. ASSUME NEW x \in Docs, ReviewChanged(x) PROVE CheckedStaysRevoked'
  BY <1>3 DEF ReviewChanged, Review, ToldInOrder
<1>4. CASE AclsFailed
  BY <1>4, NothingHeld DEF AclsFailed
<1>5. CASE Restart
  BY <1>5 DEF Restart
<1>6. ASSUME NEW x \in Docs, Edit(x) \/ Withdraw(x) \/ ReviewSame(x)
      PROVE  UNCHANGED <<index, foundGone, revived>>
  BY <1>6 DEF Edit, Withdraw, ReviewSame
<1>7. BudgetRunsOut \/ ContentTick \/ UNCHANGED knowledgeVars => UNCHANGED <<index, foundGone, revived>>
  BY DEF BudgetRunsOut, ContentTick, knowledgeVars
<1>8. PermissionTick \/ AclsAnswered \/ Dropped \/ Updated \/ CheckDone \/ Forgotten
        => UNCHANGED <<index, foundGone, revived>>
  BY DEF PermissionTick, AclsAnswered, Dropped, Updated, CheckDone, Forgotten
<1>9. ASSUME NEW l \in Loops, LoopCases(l)
      PROVE  Apply(l) \/ UNCHANGED <<index, foundGone, revived>>
  BY <1>9 DEF LoopCases, FetchAnswered, Save, Mark, MarkStored, FetchFailed, DatabaseFailed
<1> QED
  BY NextCases, <1>1, <1>2, <1>3, <1>4, <1>5, <1>6, <1>7, <1>8, <1>9 DEF CheckCases

THEOREM KnowledgeInductive == KnowledgeSpec => []IInv
<1>1. IInv /\ [KnowledgeNext]_knowledgeVars => IInv'
  BY TypeStep, BornStep, ReviewStep, RevokedStep DEF IInv
<1> QED
  BY InitInv, <1>1, PTL DEF KnowledgeSpec

(* A permission a check found withdrawn is not granted again by the index, *)
(* unless a sync that had read the document before put its grant back.     *)
THEOREM CheckedStaysRevokedHolds == KnowledgeSpec => []CheckedStaysRevoked
<1>1. IInv => CheckedStaysRevoked
  BY DEF IInv
<1> QED
  BY KnowledgeInductive, <1>1, PTL
=============================================================================
