-------------------------- MODULE GovernanceProofs --------------------------
(* Theorems about Governance, for every set of tools, actions, calls and   *)
(* requests, every threshold, and both deployments.                        *)
EXTENDS Governance, TLAPS

(* A decision leaves a well-formed track record.                           *)
LEMMA NoteTypes ==
  ASSUME TypeOK, NEW t \in Tools, NEW approve \in BOOLEAN, NoteInMemory(t, approve)
  PROVE  track' \in [Tools -> TrackRecord] /\ earned' \in [Tools -> Nat]
<1>1. \A rec \in TrackRecord : Noted(rec, t, approve) \in TrackRecord
  BY GovernanceAssumption DEF TrackRecord, Noted, MayEarn, Promotable
<1>2. CASE t \in Catalog
  BY <1>1, <1>2 DEF NoteInMemory, Note, TypeOK
<1>3. CASE t \notin Catalog
  BY <1>3 DEF NoteInMemory, TypeOK
<1> QED
  BY <1>2, <1>3

(* The types of the state are preserved by every handler and by a crash.   *)
THEOREM TypeCorrect == Spec => []TypeOK
<1> USE GovernanceAssumption
    DEF TypeOK, TrackRecord, AutonomyRow, ReqPC, CallPC, Statuses, NewRecord, NoRow,
        actionVars, callVars, reqVars, historyVars
<1>1. Init => TypeOK
  BY DEF Init
<1>2. TypeOK /\ [Next]_vars => TypeOK'
  <2> SUFFICES ASSUME TypeOK, [Next]_vars PROVE TypeOK'
    OBVIOUS
  <2>1. ASSUME NEW c \in Calls, NEW t \in Tools, NEW tainted \in BOOLEAN,
               CallUnattended(c, t, tainted) PROVE TypeOK'
    BY <2>1 DEF CallUnattended
  <2>2. ASSUME NEW c \in Calls, NEW t \in Tools, NEW tainted \in BOOLEAN,
               CallHeld(c, t, tainted) PROVE TypeOK'
    <3>1. CASE Durable
      <4>1. callPC' = [callPC EXCEPT ![c] = "holding"] /\ callTool' = [callTool EXCEPT ![c] = t]
        BY <2>2, <3>1 DEF CallHeld
      <4>2. UNCHANGED <<actionVars, track, row, crashes, reqVars, historyVars>>
        BY <2>2, <3>1 DEF CallHeld
      <4> QED
        BY <4>1, <4>2
    <3>2. CASE ~Durable
      <4>1. PICK a \in Actions : Submit(a, t)
        BY <2>2, <3>2 DEF CallHeld
      <4>2. callPC' = [callPC EXCEPT ![c] = "done"] /\ callTool' = [callTool EXCEPT ![c] = t]
        BY <2>2, <3>2 DEF CallHeld
      <4>3. UNCHANGED <<track, row, crashes, reqVars, historyVars>>
        BY <2>2, <3>2 DEF CallHeld
      <4> QED
        BY <4>1, <4>2, <4>3 DEF Submit
    <3> QED
      BY <3>1, <3>2
  <2>3. ASSUME NEW c \in Calls,
               CallSubmit(c) PROVE TypeOK'
    BY <2>3 DEF CallSubmit, Submit
  <2>4. ASSUME NEW t \in Tools,
               HoldCommitment(t) PROVE TypeOK'
    BY <2>4 DEF HoldCommitment, Submit
  <2>5. ASSUME NEW r \in Requests, NEW a \in Actions, NEW approve \in BOOLEAN,
               DecideRead(r, a, approve) PROVE TypeOK'
    BY <2>5 DEF DecideRead, Decidable, Goto
  <2>6. ASSUME NEW r \in Requests,
               DecideCommit(r) PROVE TypeOK'
    <3>1. on[r] \in Actions
      BY <2>6 DEF DecideCommit
    <3>2. /\ yes' \in [Actions -> SUBSET Requests]
          /\ no' \in [Actions -> SUBSET Requests]
      <4>1. CASE approving[r]
        <5>1. yes' = [yes EXCEPT ![on[r]] = @ \cup {r}] /\ no' = no
          BY <2>6, <4>1 DEF DecideCommit
        <5> QED
          BY <3>1, <5>1
      <4>2. CASE ~approving[r]
        <5>1. no' = [no EXCEPT ![on[r]] = @ \cup {r}] /\ yes' = yes
          BY <2>6, <4>2 DEF DecideCommit
        <5> QED
          BY <3>1, <5>1
      <4> QED
        BY <4>1, <4>2
    <3>3. /\ status' \in [Actions -> Statuses]
          /\ \A a \in Actions : status'[a] # "none" <=> status[a] # "none"
      <4>1. PICK verdict \in {"approved", "rejected"} :
              status' = [status EXCEPT ![on[r]] = verdict]
        BY <2>6 DEF DecideCommit
      <4>2. status[on[r]] # "none"
        BY <2>6 DEF DecideCommit
      <4> QED
        BY <3>1, <4>1, <4>2
    <3>4. pc' \in [Requests -> ReqPC] /\ \A s \in Requests : pc'[s] # "idle" => pc[s] # "idle"
      <4>1. pc[r] = "deciding" /\ pc' = [pc EXCEPT ![r] = "committed"]
        BY <2>6 DEF DecideCommit, Goto
      <4> QED
        BY <4>1
    <3> QED
      BY <2>6, <3>2, <3>3, <3>4 DEF DecideCommit
  <2>7. ASSUME NEW r \in Requests,
               DecideUncataloged(r) PROVE TypeOK'
    BY <2>7 DEF DecideUncataloged, Goto
  <2>8. ASSUME NEW r \in Requests,
               RecordDecision(r) PROVE TypeOK'
    BY <2>8 DEF RecordDecision, Goto, Note, Noted, ToolOf, MayEarn, Promotable
  <2>9. ASSUME NEW r \in Requests,
               PersistSelect(r) PROVE TypeOK'
    BY <2>9 DEF PersistSelect, Goto, ToolOf
  <2>10. ASSUME NEW r \in Requests,
               PersistAssign(r) PROVE TypeOK'
    BY <2>10 DEF PersistAssign, Goto, ToolOf
  <2>11. ASSUME NEW r \in Requests,
               PersistFails(r) PROVE TypeOK'
    BY <2>11 DEF PersistFails, Goto, ToolOf
  <2>12. ASSUME NEW r \in Requests,
               PersistCommit(r) PROVE TypeOK'
    BY <2>12 DEF PersistCommit, NextAfterPersist, Goto, Flushed, ToolOf
  <2>13. ASSUME NEW r \in Requests,
               GatewayRefuses(r) PROVE TypeOK'
    BY <2>13 DEF GatewayRefuses, Goto
  <2>14. ASSUME NEW r \in Requests,
               AuthorizeRead(r) PROVE TypeOK'
    BY <2>14 DEF AuthorizeRead, Goto
  <2>15. ASSUME NEW r \in Requests,
               Execute(r) PROVE TypeOK'
    BY <2>15 DEF Execute, Goto
  <2>16. ASSUME NEW r \in Requests,
               EgressRefuses(r) PROVE TypeOK'
    BY <2>16 DEF EgressRefuses, Goto
  <2>17. ASSUME NEW r \in Requests,
               HeldAgain(r) PROVE TypeOK'
    BY <2>17 DEF HeldAgain, Goto
  <2>18. ASSUME NEW r \in Requests,
               RequestSubmit(r) PROVE TypeOK'
    BY <2>18 DEF RequestSubmit, Submit, Goto, ToolOf
  <2>19. ASSUME NEW r \in Requests, NEW a \in Actions,
               RejectInMemory(r, a) PROVE TypeOK'
    <3>1. track' \in [Tools -> TrackRecord] /\ earned' \in [Tools -> Nat]
      BY <2>19, NoteTypes DEF RejectInMemory, Decidable
    <3> QED
      BY <2>19, <3>1 DEF RejectInMemory, Decidable, Goto
  <2>20. ASSUME NEW r \in Requests, NEW a \in Actions, NEW refused \in BOOLEAN,
               ApproveInMemory(r, a, refused) PROVE TypeOK'
    <3>1. track' \in [Tools -> TrackRecord] /\ earned' \in [Tools -> Nat]
      BY <2>20, NoteTypes DEF ApproveInMemory, Decidable
    <3>2. runs' \in [Actions -> SUBSET Requests]
      BY <2>20 DEF ApproveInMemory, Decidable
    <3>3. pc' \in [Requests -> ReqPC]
      BY <2>20 DEF ApproveInMemory, Decidable, Goto
    <3> QED
      BY <2>20, <3>1, <3>2, <3>3 DEF ApproveInMemory, Decidable, Goto
  <2>21. CASE Crash
    BY <2>21 DEF Crash, Loaded
  <2>22. CASE UNCHANGED vars
    BY <2>22 DEF vars
  <2> HIDE DEF TypeOK
  <2> QED
    BY <2>1, <2>2, <2>3, <2>4, <2>5, <2>6, <2>7, <2>8, <2>9, <2>10, <2>11, <2>12, <2>13, <2>14, <2>15, <2>16, <2>17, <2>18, <2>19, <2>20, <2>21, <2>22
       DEF Next, CallStep, RequestStep
<1> QED
  BY <1>1, <1>2, PTL DEF Spec

(* Every execution of a held payload was approved by the request that ran  *)
(* it, and no decided action is offered again: through races, restarts and *)
(* the fall-through in authorize.                                          *)
THEOREM PaidCorrect == Spec => []PaidInv
<1> USE GovernanceAssumption
    DEF PaidInv, EveryRunPaidFor, PendingMeansUndecided, Decided, Executing,
        actionVars, callVars, reqVars, historyVars
<1>1. Init => PaidInv
  BY DEF Init
<1>2. TypeOK /\ PaidInv /\ [Next]_vars => PaidInv'
  <2> SUFFICES ASSUME TypeOK, PaidInv, [Next]_vars PROVE PaidInv'
    OBVIOUS
  <2> USE DEF TypeOK, ReqPC, Statuses
  <2>1. ASSUME NEW c \in Calls, NEW t \in Tools, NEW tainted \in BOOLEAN,
               CallUnattended(c, t, tainted) PROVE PaidInv'
    BY <2>1 DEF CallUnattended
  <2>2. ASSUME NEW c \in Calls, NEW t \in Tools, NEW tainted \in BOOLEAN,
               CallHeld(c, t, tainted) PROVE PaidInv'
    BY <2>2 DEF CallHeld, Submit
  <2>3. ASSUME NEW c \in Calls,
               CallSubmit(c) PROVE PaidInv'
    BY <2>3 DEF CallSubmit, Submit
  <2>4. ASSUME NEW t \in Tools,
               HoldCommitment(t) PROVE PaidInv'
    BY <2>4 DEF HoldCommitment, Submit
  <2>5. ASSUME NEW r \in Requests, NEW a \in Actions, NEW approve \in BOOLEAN,
               DecideRead(r, a, approve) PROVE PaidInv'
    BY <2>5 DEF DecideRead, Decidable, Goto
  <2>6. ASSUME NEW r \in Requests,
               DecideCommit(r) PROVE PaidInv'
    <3>1. /\ pc[r] = "deciding" /\ pc' = [pc EXCEPT ![r] = "committed"]
          /\ UNCHANGED <<runs, on, approving>>
      BY <2>6 DEF DecideCommit, Goto
    <3>2. /\ \A a \in Actions : yes[a] \subseteq yes'[a]
          /\ approving[r] => r \in yes'[on[r]]
      BY <2>6 DEF DecideCommit
    <3>3. EveryRunPaidFor'
      BY <3>1, <3>2
    <3>4. PendingMeansUndecided'
      <4>1. \A a \in Actions \ {on[r]} :
              status'[a] = status[a] /\ yes'[a] = yes[a] /\ no'[a] = no[a]
        BY <2>6 DEF DecideCommit
      <4>2. status'[on[r]] \in {"approved", "rejected"}
        BY <2>6 DEF DecideCommit
      <4> QED
        BY <4>1, <4>2
    <3>5. \A s \in Requests : pc'[s] \in Decided /\ approving'[s] => s \in yes'[on'[s]]
      BY <3>1, <3>2
    <3>6. \A s \in Requests : pc'[s] \in Executing => approving'[s]
      BY <3>1
    <3> QED
      BY <3>3, <3>4, <3>5, <3>6
  <2>7. ASSUME NEW r \in Requests,
               DecideUncataloged(r) PROVE PaidInv'
    BY <2>7 DEF DecideUncataloged, Goto
  <2>8. ASSUME NEW r \in Requests,
               RecordDecision(r) PROVE PaidInv'
    BY <2>8 DEF RecordDecision, Goto, Note, Noted, ToolOf, MayEarn, Promotable
  <2>9. ASSUME NEW r \in Requests,
               PersistSelect(r) PROVE PaidInv'
    BY <2>9 DEF PersistSelect, Goto
  <2>10. ASSUME NEW r \in Requests,
               PersistAssign(r) PROVE PaidInv'
    BY <2>10 DEF PersistAssign, Goto
  <2>11. ASSUME NEW r \in Requests,
               PersistFails(r) PROVE PaidInv'
    BY <2>11 DEF PersistFails, Goto
  <2>12. ASSUME NEW r \in Requests,
               PersistCommit(r) PROVE PaidInv'
    BY <2>12 DEF PersistCommit, NextAfterPersist, Goto
  <2>13. ASSUME NEW r \in Requests,
               GatewayRefuses(r) PROVE PaidInv'
    BY <2>13 DEF GatewayRefuses, Goto
  <2>14. ASSUME NEW r \in Requests,
               AuthorizeRead(r) PROVE PaidInv'
    BY <2>14 DEF AuthorizeRead, Goto
  <2>15. ASSUME NEW r \in Requests,
               Execute(r) PROVE PaidInv'
    BY <2>15 DEF Execute, Goto
  <2>16. ASSUME NEW r \in Requests,
               EgressRefuses(r) PROVE PaidInv'
    BY <2>16 DEF EgressRefuses, Goto
  <2>17. ASSUME NEW r \in Requests,
               HeldAgain(r) PROVE PaidInv'
    BY <2>17 DEF HeldAgain, Goto
  <2>18. ASSUME NEW r \in Requests,
               RequestSubmit(r) PROVE PaidInv'
    BY <2>18 DEF RequestSubmit, Submit, Goto
  <2>19. ASSUME NEW r \in Requests, NEW a \in Actions,
               RejectInMemory(r, a) PROVE PaidInv'
    BY <2>19 DEF RejectInMemory, Decidable, Goto
  <2>20. ASSUME NEW r \in Requests, NEW a \in Actions, NEW refused \in BOOLEAN,
               ApproveInMemory(r, a, refused) PROVE PaidInv'
    BY <2>20 DEF ApproveInMemory, Decidable, Goto
  <2>21. CASE Crash
    BY <2>21 DEF Crash
  <2>22. CASE UNCHANGED vars
    BY <2>22 DEF vars
  <2> HIDE DEF PaidInv
  <2> QED
    BY <2>1, <2>2, <2>3, <2>4, <2>5, <2>6, <2>7, <2>8, <2>9, <2>10, <2>11, <2>12, <2>13, <2>14, <2>15, <2>16, <2>17, <2>18, <2>19, <2>20, <2>21, <2>22
       DEF Next, CallStep, RequestStep
<1> QED
  BY <1>1, <1>2, TypeCorrect, PTL DEF Spec

COROLLARY RunsArePaidFor == Spec => []EveryRunPaidFor
<1>1. PaidInv => EveryRunPaidFor
  BY DEF PaidInv
<1> QED
  BY <1>1, PaidCorrect, PTL

COROLLARY PendingIsUndecided == Spec => []PendingMeansUndecided
<1>1. PaidInv => PendingMeansUndecided
  BY DEF PaidInv
<1> QED
  BY <1>1, PaidCorrect, PTL

(* A decision grants autonomy to no tool that may not earn it.             *)
LEMMA NoteGrants ==
  ASSUME TypeOK, GrantInv, NEW t \in Tools, NEW approve \in BOOLEAN, NoteInMemory(t, approve)
  PROVE  \A u \in Tools : track'[u].auto => MayEarn(u)
<1>1. CASE t \in Catalog
  <2>1. track' = [track EXCEPT ![t] = Noted(@, t, approve)]
    BY <1>1 DEF NoteInMemory, Note
  <2>2. Noted(track[t], t, approve).auto => track[t].auto \/ MayEarn(t)
    BY DEF Noted
  <2> QED
    BY <2>1, <2>2 DEF TypeOK, GrantInv, GrantOnlyPromotable
<1>2. CASE t \notin Catalog
  BY <1>2 DEF NoteInMemory, GrantInv, GrantOnlyPromotable
<1> QED
  BY <1>1, <1>2

(* Autonomy is granted, in memory and in the rows a restart loads, only to *)
(* a tool that may earn it: lost updates may mix two decisions in one row, *)
(* but never grant a tool what no decision could.                          *)
THEOREM GrantCorrect == Spec => []GrantInv
<1> USE GovernanceAssumption
    DEF GrantInv, GrantOnlyPromotable, actionVars, callVars, reqVars, historyVars
<1>1. Init => GrantInv
  BY DEF Init, NewRecord, NoRow
<1>2. TypeOK /\ GrantInv /\ [Next]_vars => GrantInv'
  <2> SUFFICES ASSUME TypeOK, GrantInv, [Next]_vars PROVE GrantInv'
    OBVIOUS
  <2> USE DEF TypeOK, ReqPC, Statuses, ToolOf, MayEarn, TrackRecord, AutonomyRow
  <2>1. ASSUME NEW c \in Calls, NEW t \in Tools, NEW tainted \in BOOLEAN,
               CallUnattended(c, t, tainted) PROVE GrantInv'
    BY <2>1 DEF CallUnattended
  <2>2. ASSUME NEW c \in Calls, NEW t \in Tools, NEW tainted \in BOOLEAN,
               CallHeld(c, t, tainted) PROVE GrantInv'
    <3>1. \A r \in Requests : pc[r] = "flushing" => on[r] \in Actions /\ status[on[r]] # "none"
      OBVIOUS
    <3>2. UNCHANGED <<track, row, pc, on, want>>
      BY <2>2 DEF CallHeld
    <3>3. UNCHANGED about \/ \E a \in Actions : Submit(a, t)
      BY <2>2 DEF CallHeld
    <3>4. \A r \in Requests : pc[r] = "flushing" => about'[on[r]] = about[on[r]]
      BY <3>1, <3>3 DEF Submit
    <3> QED
      BY <3>2, <3>4
  <2>3. ASSUME NEW c \in Calls,
               CallSubmit(c) PROVE GrantInv'
    BY <2>3 DEF CallSubmit, Submit
  <2>4. ASSUME NEW t \in Tools,
               HoldCommitment(t) PROVE GrantInv'
    BY <2>4 DEF HoldCommitment, Submit
  <2>5. ASSUME NEW r \in Requests, NEW a \in Actions, NEW approve \in BOOLEAN,
               DecideRead(r, a, approve) PROVE GrantInv'
    BY <2>5 DEF DecideRead, Decidable, Goto
  <2>6. ASSUME NEW r \in Requests,
               DecideCommit(r) PROVE GrantInv'
    BY <2>6 DEF DecideCommit, Goto
  <2>7. ASSUME NEW r \in Requests,
               DecideUncataloged(r) PROVE GrantInv'
    BY <2>7 DEF DecideUncataloged, Goto
  <2>8. ASSUME NEW r \in Requests,
               RecordDecision(r) PROVE GrantInv'
    <3>1. NoteInMemory(ToolOf(r), approving[r])
      BY <2>8 DEF RecordDecision, NoteInMemory
    <3>2. \A u \in Tools : track'[u].auto => MayEarn(u)
      BY <2>8, <3>1, NoteGrants DEF RecordDecision
    <3> QED
      BY <2>8, <3>2 DEF RecordDecision, Goto
  <2>9. ASSUME NEW r \in Requests,
               PersistSelect(r) PROVE GrantInv'
    BY <2>9 DEF PersistSelect, Goto
  <2>10. ASSUME NEW r \in Requests,
               PersistAssign(r) PROVE GrantInv'
    BY <2>10 DEF PersistAssign, Goto
  <2>11. ASSUME NEW r \in Requests,
               PersistFails(r) PROVE GrantInv'
    BY <2>11 DEF PersistFails, Goto
  <2>12. ASSUME NEW r \in Requests,
               PersistCommit(r) PROVE GrantInv'
    BY <2>12 DEF PersistCommit, NextAfterPersist, Goto, Flushed
  <2>13. ASSUME NEW r \in Requests,
               GatewayRefuses(r) PROVE GrantInv'
    BY <2>13 DEF GatewayRefuses, Goto
  <2>14. ASSUME NEW r \in Requests,
               AuthorizeRead(r) PROVE GrantInv'
    BY <2>14 DEF AuthorizeRead, Goto
  <2>15. ASSUME NEW r \in Requests,
               Execute(r) PROVE GrantInv'
    BY <2>15 DEF Execute, Goto
  <2>16. ASSUME NEW r \in Requests,
               EgressRefuses(r) PROVE GrantInv'
    BY <2>16 DEF EgressRefuses, Goto
  <2>17. ASSUME NEW r \in Requests,
               HeldAgain(r) PROVE GrantInv'
    BY <2>17 DEF HeldAgain, Goto
  <2>18. ASSUME NEW r \in Requests,
               RequestSubmit(r) PROVE GrantInv'
    BY <2>18 DEF RequestSubmit, Submit, Goto
  <2>19. ASSUME NEW r \in Requests, NEW a \in Actions,
               RejectInMemory(r, a) PROVE GrantInv'
    BY <2>19, NoteGrants DEF RejectInMemory, Decidable, Goto
  <2>20. ASSUME NEW r \in Requests, NEW a \in Actions, NEW refused \in BOOLEAN,
               ApproveInMemory(r, a, refused) PROVE GrantInv'
    BY <2>20, NoteGrants DEF ApproveInMemory, Decidable, Goto
  <2>21. CASE Crash
    BY <2>21 DEF Crash, Loaded, NewRecord
  <2>22. CASE UNCHANGED vars
    BY <2>22 DEF vars
  <2> HIDE DEF GrantInv
  <2> QED
    BY <2>1, <2>2, <2>3, <2>4, <2>5, <2>6, <2>7, <2>8, <2>9, <2>10, <2>11, <2>12, <2>13, <2>14, <2>15, <2>16, <2>17, <2>18, <2>19, <2>20, <2>21, <2>22
       DEF Next, CallStep, RequestStep
<1> QED
  BY <1>1, <1>2, TypeCorrect, PTL DEF Spec

COROLLARY GrantsAreEarnable == Spec => []GrantOnlyPromotable
<1>1. GrantInv => GrantOnlyPromotable
  BY DEF GrantInv
<1> QED
  BY <1>1, GrantCorrect, PTL

(* Over the in-memory stores an action is decided by one request only.     *)
THEOREM MemoryCorrect == Spec => []MemoryInv
<1> USE GovernanceAssumption
    DEF MemoryInv, DecidedOnce, actionVars, callVars, reqVars, historyVars
<1>1. Init => MemoryInv
  BY DEF Init
<1>2. TypeOK /\ PaidInv /\ MemoryInv /\ [Next]_vars => MemoryInv'
  <2> SUFFICES ASSUME TypeOK, PaidInv, MemoryInv, [Next]_vars, ~Durable PROVE MemoryInv'
    OBVIOUS
  <2> USE DEF TypeOK, ReqPC, Statuses, PaidInv, EveryRunPaidFor, PendingMeansUndecided
  <2>1. ASSUME NEW c \in Calls, NEW t \in Tools, NEW tainted \in BOOLEAN,
               CallUnattended(c, t, tainted) PROVE MemoryInv'
    BY <2>1 DEF CallUnattended
  <2>2. ASSUME NEW c \in Calls, NEW t \in Tools, NEW tainted \in BOOLEAN,
               CallHeld(c, t, tainted) PROVE MemoryInv'
    BY <2>2 DEF CallHeld, Submit
  <2>3. ASSUME NEW c \in Calls,
               CallSubmit(c) PROVE MemoryInv'
    BY <2>3 DEF CallSubmit, Submit
  <2>4. ASSUME NEW t \in Tools,
               HoldCommitment(t) PROVE MemoryInv'
    BY <2>4 DEF HoldCommitment, Submit
  <2>5. ASSUME NEW r \in Requests, NEW a \in Actions, NEW approve \in BOOLEAN,
               DecideRead(r, a, approve) PROVE MemoryInv'
    BY <2>5 DEF DecideRead, Decidable, Goto
  <2>6. ASSUME NEW r \in Requests,
               DecideCommit(r) PROVE MemoryInv'
    BY <2>6 DEF DecideCommit, Goto
  <2>7. ASSUME NEW r \in Requests,
               DecideUncataloged(r) PROVE MemoryInv'
    BY <2>7 DEF DecideUncataloged, Goto
  <2>8. ASSUME NEW r \in Requests,
               RecordDecision(r) PROVE MemoryInv'
    BY <2>8 DEF RecordDecision, Goto, Note, Noted
  <2>9. ASSUME NEW r \in Requests,
               PersistSelect(r) PROVE MemoryInv'
    BY <2>9 DEF PersistSelect, Goto
  <2>10. ASSUME NEW r \in Requests,
               PersistAssign(r) PROVE MemoryInv'
    BY <2>10 DEF PersistAssign, Goto
  <2>11. ASSUME NEW r \in Requests,
               PersistFails(r) PROVE MemoryInv'
    BY <2>11 DEF PersistFails, Goto
  <2>12. ASSUME NEW r \in Requests,
               PersistCommit(r) PROVE MemoryInv'
    BY <2>12 DEF PersistCommit, NextAfterPersist, Goto, Flushed
  <2>13. ASSUME NEW r \in Requests,
               GatewayRefuses(r) PROVE MemoryInv'
    BY <2>13 DEF GatewayRefuses, Goto
  <2>14. ASSUME NEW r \in Requests,
               AuthorizeRead(r) PROVE MemoryInv'
    BY <2>14 DEF AuthorizeRead, Goto
  <2>15. ASSUME NEW r \in Requests,
               Execute(r) PROVE MemoryInv'
    BY <2>15 DEF Execute, Goto
  <2>16. ASSUME NEW r \in Requests,
               EgressRefuses(r) PROVE MemoryInv'
    BY <2>16 DEF EgressRefuses, Goto
  <2>17. ASSUME NEW r \in Requests,
               HeldAgain(r) PROVE MemoryInv'
    BY <2>17 DEF HeldAgain, Goto
  <2>18. ASSUME NEW r \in Requests,
               RequestSubmit(r) PROVE MemoryInv'
    BY <2>18 DEF RequestSubmit, Submit, Goto
  <2>19. ASSUME NEW r \in Requests, NEW a \in Actions,
               RejectInMemory(r, a) PROVE MemoryInv'
    BY <2>19 DEF RejectInMemory, Decidable, Goto
  <2>20. ASSUME NEW r \in Requests, NEW a \in Actions, NEW refused \in BOOLEAN,
               ApproveInMemory(r, a, refused) PROVE MemoryInv'
    BY <2>20 DEF ApproveInMemory, Decidable, Goto
  <2>21. CASE Crash
    BY <2>21 DEF Crash
  <2>22. CASE UNCHANGED vars
    BY <2>22 DEF vars
  <2> HIDE DEF MemoryInv
  <2> QED
    BY <2>1, <2>2, <2>3, <2>4, <2>5, <2>6, <2>7, <2>8, <2>9, <2>10, <2>11, <2>12, <2>13, <2>14, <2>15, <2>16, <2>17, <2>18, <2>19, <2>20, <2>21, <2>22
       DEF Next, CallStep, RequestStep
<1> QED
  BY <1>1, <1>2, TypeCorrect, PaidCorrect, PTL DEF Spec

COROLLARY InMemoryDecidedOnce == ~Durable => (Spec => []DecidedOnce)
<1> SUFFICES ASSUME ~Durable PROVE Spec => []DecidedOnce
  OBVIOUS
<1>1. MemoryInv => DecidedOnce
  BY DEF MemoryInv
<1> QED
  BY <1>1, MemoryCorrect, PTL

(* An approval adds to what was earned whatever it adds to the record, and *)
(* a rejection takes from the record whatever it takes from what was       *)
(* earned.                                                                 *)
LEMMA NoteEarns ==
  ASSUME TypeOK, EarnedInv, NEW t \in Tools, NEW approve \in BOOLEAN,
         NoteInMemory(t, approve), UNCHANGED <<crashes, row>>
  PROVE  EarnedInv'
<1> USE GovernanceAssumption DEF TypeOK, TrackRecord, EarnedInv
<1>1. CASE t \in Catalog
  <2>1. /\ track' = [track EXCEPT ![t] = Noted(track[t], t, approve)]
        /\ earned' = [earned EXCEPT ![t] = IF approve THEN @ + 1 ELSE 0]
    BY <1>1 DEF NoteInMemory, Note
  <2>2. ASSUME crashes = 0 \/ ~Durable
        PROVE  Noted(track[t], t, approve).streak <= earned'[t]
    BY <2>1, <2>2 DEF Noted
  <2>3. ASSUME crashes = 0 \/ ~Durable, Noted(track[t], t, approve).auto
        PROVE  Threshold <= earned'[t]
    BY <2>1, <2>3 DEF Noted
  <2> QED
    BY <2>1, <2>2, <2>3
<1>2. CASE t \notin Catalog
  BY <1>2 DEF NoteInMemory
<1> QED
  BY <1>1, <1>2

(* Until a restart a record is never ahead of the approvals in a row.      *)
THEOREM EarnedCorrect == Spec => []EarnedInv
<1> USE GovernanceAssumption
    DEF EarnedInv, actionVars, callVars, reqVars, historyVars
<1>1. Init => EarnedInv
  BY DEF Init, NewRecord, NoRow
<1>2. TypeOK /\ MemoryInv /\ EarnedInv /\ [Next]_vars => EarnedInv'
  <2> SUFFICES ASSUME TypeOK, MemoryInv, EarnedInv, [Next]_vars PROVE EarnedInv'
    OBVIOUS
  <2> USE DEF TypeOK, ReqPC, Statuses, ToolOf, MayEarn, TrackRecord, AutonomyRow
  <2>1. ASSUME NEW c \in Calls, NEW t \in Tools, NEW tainted \in BOOLEAN,
               CallUnattended(c, t, tainted) PROVE EarnedInv'
    BY <2>1 DEF CallUnattended
  <2>2. ASSUME NEW c \in Calls, NEW t \in Tools, NEW tainted \in BOOLEAN,
               CallHeld(c, t, tainted) PROVE EarnedInv'
    BY <2>2 DEF CallHeld, Submit
  <2>3. ASSUME NEW c \in Calls,
               CallSubmit(c) PROVE EarnedInv'
    BY <2>3 DEF CallSubmit, Submit
  <2>4. ASSUME NEW t \in Tools,
               HoldCommitment(t) PROVE EarnedInv'
    BY <2>4 DEF HoldCommitment, Submit
  <2>5. ASSUME NEW r \in Requests, NEW a \in Actions, NEW approve \in BOOLEAN,
               DecideRead(r, a, approve) PROVE EarnedInv'
    BY <2>5 DEF DecideRead, Decidable, Goto
  <2>6. ASSUME NEW r \in Requests,
               DecideCommit(r) PROVE EarnedInv'
    BY <2>6 DEF DecideCommit, Goto
  <2>7. ASSUME NEW r \in Requests,
               DecideUncataloged(r) PROVE EarnedInv'
    BY <2>7 DEF DecideUncataloged, Goto
  <2>8. ASSUME NEW r \in Requests,
               RecordDecision(r) PROVE EarnedInv'
    <3>1. NoteInMemory(ToolOf(r), approving[r]) /\ UNCHANGED <<crashes, row>>
      BY <2>8 DEF RecordDecision, NoteInMemory
    <3>2. ToolOf(r) \in Tools
      BY <2>8 DEF RecordDecision
    <3> QED
      BY <3>1, <3>2, NoteEarns
  <2>9. ASSUME NEW r \in Requests,
               PersistSelect(r) PROVE EarnedInv'
    BY <2>9 DEF PersistSelect, Goto
  <2>10. ASSUME NEW r \in Requests,
               PersistAssign(r) PROVE EarnedInv'
    BY <2>10 DEF PersistAssign, Goto
  <2>11. ASSUME NEW r \in Requests,
               PersistFails(r) PROVE EarnedInv'
    BY <2>11 DEF PersistFails, Goto
  <2>12. ASSUME NEW r \in Requests,
               PersistCommit(r) PROVE EarnedInv'
    <3>1. Durable
      BY <2>12 DEF PersistCommit, MemoryInv
    <3> QED
      BY <2>12, <3>1 DEF PersistCommit
  <2>13. ASSUME NEW r \in Requests,
               GatewayRefuses(r) PROVE EarnedInv'
    BY <2>13 DEF GatewayRefuses, Goto
  <2>14. ASSUME NEW r \in Requests,
               AuthorizeRead(r) PROVE EarnedInv'
    BY <2>14 DEF AuthorizeRead, Goto
  <2>15. ASSUME NEW r \in Requests,
               Execute(r) PROVE EarnedInv'
    BY <2>15 DEF Execute, Goto
  <2>16. ASSUME NEW r \in Requests,
               EgressRefuses(r) PROVE EarnedInv'
    BY <2>16 DEF EgressRefuses, Goto
  <2>17. ASSUME NEW r \in Requests,
               HeldAgain(r) PROVE EarnedInv'
    BY <2>17 DEF HeldAgain, Goto
  <2>18. ASSUME NEW r \in Requests,
               RequestSubmit(r) PROVE EarnedInv'
    BY <2>18 DEF RequestSubmit, Submit, Goto
  <2>19. ASSUME NEW r \in Requests, NEW a \in Actions,
               RejectInMemory(r, a) PROVE EarnedInv'
    <3>1. NoteInMemory(about[a], FALSE) /\ UNCHANGED <<crashes, row>>
      BY <2>19 DEF RejectInMemory
    <3>2. about[a] \in Tools
      BY <2>19 DEF RejectInMemory, Decidable
    <3> QED
      BY <3>1, <3>2, NoteEarns
  <2>20. ASSUME NEW r \in Requests, NEW a \in Actions, NEW refused \in BOOLEAN,
               ApproveInMemory(r, a, refused) PROVE EarnedInv'
    <3>1. NoteInMemory(about[a], TRUE) /\ UNCHANGED <<crashes, row>>
      BY <2>20 DEF ApproveInMemory
    <3>2. about[a] \in Tools
      BY <2>20 DEF ApproveInMemory, Decidable
    <3> QED
      BY <3>1, <3>2, NoteEarns
  <2>21. CASE Crash
    <3>1. CASE Durable
      BY <2>21, <3>1 DEF Crash
    <3>2. CASE ~Durable
      <4>1. \A t \in Tools : track'[t] = NewRecord
        BY <2>21, <3>2 DEF Crash, Loaded
      <4> QED
        BY <2>21, <3>2, <4>1 DEF Crash, NewRecord
    <3> QED
      BY <3>1, <3>2
  <2>22. CASE UNCHANGED vars
    BY <2>22 DEF vars
  <2> HIDE DEF EarnedInv
  <2> QED
    BY <2>1, <2>2, <2>3, <2>4, <2>5, <2>6, <2>7, <2>8, <2>9, <2>10, <2>11, <2>12, <2>13, <2>14, <2>15, <2>16, <2>17, <2>18, <2>19, <2>20, <2>21, <2>22
       DEF Next, CallStep, RequestStep
<1> QED
  BY <1>1, <1>2, TypeCorrect, MemoryCorrect, PTL DEF Spec

(* No call starts without a person unless its tool's last Threshold        *)
(* decisions were approvals, until a restart.                              *)
COROLLARY UnattendedIsEarned == Spec => UnattendedOnlyIfEarned
<1> DEFINE Started(c) == callPC[c] = "idle" /\ callPC'[c] = "ran"
           Earned == \A c \in Calls :
                       Started(c) /\ (crashes = 0 \/ ~Durable)
                         => earned[callTool'[c]] >= Threshold
<1>1. TypeOK /\ EarnedInv /\ [Next]_vars => [Earned]_vars
  <2> SUFFICES ASSUME TypeOK, EarnedInv, Next, NEW c \in Calls, Started(c),
                      crashes = 0 \/ ~Durable
               PROVE  earned[callTool'[c]] >= Threshold
    OBVIOUS
  <2>1. CASE \E t \in Tools, tainted \in BOOLEAN : CallUnattended(c, t, tainted)
    <3>1. PICK t \in Tools : callTool'[c] = t /\ track[t].auto
      BY <2>1 DEF CallUnattended, RunsAlone, TypeOK
    <3> QED
      BY <3>1, GovernanceAssumption DEF EarnedInv, TypeOK
  <2>2. ASSUME NEW d \in Calls, CallStep(d),
               ~\E t \in Tools, tainted \in BOOLEAN : CallUnattended(c, t, tainted)
        PROVE  FALSE
    BY <2>2 DEF CallStep, CallUnattended, CallHeld, CallSubmit, TypeOK
  <2>3. ASSUME NEW t \in Tools, HoldCommitment(t) PROVE FALSE
    BY <2>3 DEF HoldCommitment, callVars
  <2>4. ASSUME NEW r \in Requests, RequestStep(r) PROVE FALSE
    <3>1. callPC' = callPC
      BY <2>4 DEF RequestStep, DecideRead, DecideCommit, DecideUncataloged, RecordDecision,
                  PersistSelect, PersistAssign, PersistFails, PersistCommit, GatewayRefuses,
                  AuthorizeRead, Execute, EgressRefuses, HeldAgain, RequestSubmit,
                  RejectInMemory, ApproveInMemory, callVars
    <3> QED
      BY <3>1
  <2>5. CASE Crash
    BY <2>5 DEF Crash, TypeOK
  <2> QED
    BY <2>1, <2>2, <2>3, <2>4, <2>5 DEF Next
<1> QED
  BY <1>1, TypeCorrect, EarnedCorrect, PTL DEF Spec, UnattendedOnlyIfEarned

(* How a step of the queue reads in the abstract ledger.                   *)
LEMMA SubmitHolds ==
  ASSUME TypeOK, ~Durable, MemoryInv, NEW a \in Actions, NEW t \in Tools,
         Submit(a, t), runs' = runs
  PROVE  Ledger!Hold(a)
<1>1. runs[a] = {} /\ status[a] = "none"
  BY DEF MemoryInv, Submit
<1>2. status' = [status EXCEPT ![a] = "pending"] /\ status \in [Actions -> Statuses]
  BY DEF Submit, TypeOK
<1>3. Phase[a] = "none"
  BY <1>1 DEF Phase, Settled
<1>4. Phase' = [Phase EXCEPT ![a] = "held"]
  BY <1>1, <1>2 DEF Phase, Settled
<1> QED
  BY <1>3, <1>4 DEF Ledger!Hold, Ledger!Move

(* The in-memory deployment implements the ledger: every step holds,       *)
(* settles or forgets actions as ActionLedger allows, or is invisible      *)
(* there.                                                                  *)
THEOREM InMemoryKeepsLedger == ~Durable => (Spec => KeepsLedger)
<1> SUFFICES ASSUME ~Durable PROVE Spec => KeepsLedger
  OBVIOUS
<1>1. Init => Ledger!Init
  BY DEF Init, Ledger!Init, Phase, Settled
<1>2. TypeOK /\ MemoryInv /\ [Next]_vars => [Ledger!Next]_Phase
  <2> SUFFICES ASSUME TypeOK, MemoryInv, [Next]_vars PROVE [Ledger!Next]_Phase
    OBVIOUS
  <2>a. \A a \in Actions : runs[a] # {} => status[a] = "approved"
    BY DEF MemoryInv
  <2>b. \A r \in Requests : pc[r] \in {"idle", "ran", "done"}
    BY DEF MemoryInv
  <2>c. ASSUME status' = status, runs' = runs PROVE Phase' = Phase
    BY <2>c DEF Phase
  <2>1. ASSUME NEW c \in Calls, CallStep(c) PROVE [Ledger!Next]_Phase
    <3>1. ASSUME NEW t \in Tools, NEW tainted \in BOOLEAN, CallUnattended(c, t, tainted)
          PROVE [Ledger!Next]_Phase
      BY <3>1, <2>c DEF CallUnattended, actionVars, historyVars
    <3>2. ASSUME NEW t \in Tools, NEW tainted \in BOOLEAN, CallHeld(c, t, tainted)
          PROVE [Ledger!Next]_Phase
      <4>1. PICK a \in Actions : Submit(a, t)
        BY <3>2 DEF CallHeld
      <4>2. runs' = runs
        BY <3>2 DEF CallHeld, historyVars
      <4> QED
        BY <4>1, <4>2, SubmitHolds DEF Ledger!Next
    <3>3. ASSUME CallSubmit(c) PROVE [Ledger!Next]_Phase
      <4>0. callTool[c] \in Tools
        BY <3>3 DEF CallSubmit, TypeOK
      <4>1. PICK a \in Actions : Submit(a, callTool[c])
        BY <3>3 DEF CallSubmit
      <4>2. runs' = runs
        BY <3>3 DEF CallSubmit, historyVars
      <4> QED
        BY <4>0, <4>1, <4>2, SubmitHolds DEF Ledger!Next
    <3> QED
      BY <2>1, <3>1, <3>2, <3>3 DEF CallStep
  <2>2. ASSUME NEW t \in Tools, HoldCommitment(t) PROVE [Ledger!Next]_Phase
    <3>1. PICK a \in Actions : Submit(a, t)
      BY <2>2 DEF HoldCommitment
    <3>2. runs' = runs
      BY <2>2 DEF HoldCommitment, historyVars
    <3> QED
      BY <3>1, <3>2, SubmitHolds DEF Ledger!Next
  <2>3. ASSUME NEW r \in Requests, RequestStep(r) PROVE [Ledger!Next]_Phase
    <3>1. ASSUME NEW a \in Actions, RejectInMemory(r, a) PROVE [Ledger!Next]_Phase
      <4>1. status[a] = "pending" /\ status' = [status EXCEPT ![a] = "rejected"] /\ runs' = runs
        BY <3>1 DEF RejectInMemory, Decidable
      <4>2. runs[a] = {} /\ status \in [Actions -> Statuses]
        BY <4>1, <2>a DEF TypeOK
      <4>3. Phase[a] = "held"
        BY <4>1, <4>2 DEF Phase, Settled
      <4>5. Phase' = [Phase EXCEPT ![a] = "rejected"]
        BY <4>1, <4>2 DEF Phase, Settled
      <4>4. Ledger!Reject(a)
        BY <4>3, <4>5 DEF Ledger!Reject, Ledger!Move
      <4> QED
        BY <4>4 DEF Ledger!Next
    <3>2. ASSUME NEW a \in Actions, NEW refused \in BOOLEAN, ApproveInMemory(r, a, refused)
          PROVE [Ledger!Next]_Phase
      <4>1. status[a] = "pending" /\ status' = [status EXCEPT ![a] = "approved"]
        BY <3>2 DEF ApproveInMemory, Decidable
      <4>2. runs[a] = {} /\ status \in [Actions -> Statuses] /\ runs \in [Actions -> SUBSET Requests]
        BY <4>1, <2>a DEF TypeOK
      <4>3. Phase[a] = "held"
        BY <4>1, <4>2 DEF Phase, Settled
      <4>4. \/ runs' = runs
            \/ runs' = [runs EXCEPT ![a] = @ \cup {r}]
        BY <3>2 DEF ApproveInMemory, Decidable
      <4>5. \/ Phase' = [Phase EXCEPT ![a] = "stranded"]
            \/ Phase' = [Phase EXCEPT ![a] = "executed"]
        <5>1. CASE runs' = runs
          BY <4>1, <4>2, <5>1 DEF Phase, Settled
        <5>2. CASE runs' = [runs EXCEPT ![a] = @ \cup {r}]
          <6>1. runs'[a] # {}
            BY <4>2, <5>2
          <6> QED
            BY <4>1, <4>2, <5>2, <6>1 DEF Phase, Settled
        <5> QED
          BY <4>4, <5>1, <5>2
      <4> QED
        BY <4>3, <4>5 DEF Ledger!Next, Ledger!Approve, Ledger!Move
    <3>3. CASE \/ DecideCommit(r) \/ DecideUncataloged(r) \/ RecordDecision(r)
               \/ PersistSelect(r) \/ PersistAssign(r) \/ PersistFails(r) \/ PersistCommit(r)
               \/ GatewayRefuses(r) \/ AuthorizeRead(r) \/ Execute(r)
               \/ EgressRefuses(r) \/ HeldAgain(r) \/ RequestSubmit(r)
      BY <3>3, <2>b DEF DecideCommit, DecideUncataloged, RecordDecision, PersistSelect,
         PersistAssign, PersistFails, PersistCommit, GatewayRefuses, AuthorizeRead, Execute,
         EgressRefuses, HeldAgain, RequestSubmit
    <3>4. ASSUME NEW a \in Actions, NEW approve \in BOOLEAN, DecideRead(r, a, approve)
          PROVE FALSE
      BY <3>4 DEF DecideRead, Decidable
    <3> QED
      BY <2>3, <3>1, <3>2, <3>3, <3>4 DEF RequestStep
  <2>4. ASSUME Crash PROVE [Ledger!Next]_Phase
    <3>1. status' = [a \in Actions |-> IF status[a] = "pending" THEN "lost" ELSE status[a]]
          /\ runs' = runs
      BY <2>4 DEF Crash, historyVars
    <3>2. Phase' = [a \in Actions |-> IF Phase[a] = "held" THEN "forgotten" ELSE Phase[a]]
      <4>1. \A a \in Actions : status[a] \in Statuses
        BY DEF TypeOK
      <4> QED
        BY <3>1, <2>a, <4>1 DEF Phase, Settled, Statuses
    <3> QED
      BY <3>2 DEF Ledger!Next, Ledger!Forget
  <2>5. CASE UNCHANGED vars
    BY <2>5, <2>c DEF vars, actionVars, historyVars
  <2> QED
    BY <2>1, <2>2, <2>3, <2>4, <2>5 DEF Next
<1> QED
  BY <1>1, <1>2, TypeCorrect, MemoryCorrect, PTL DEF Spec, KeepsLedger, Ledger!Spec
=============================================================================
