----------------------------- MODULE Governance -----------------------------
(***************************************************************************)
(* The life of a mutating action of one principal: an agent's call is      *)
(* judged by Governor.authorize, held as a PendingAction, decided by the   *)
(* approve and reject routes, and executed by re-entering the gateway with *)
(* the approval.  Every decision also moves the autonomy ladder, which may *)
(* let the next call of the same tool run unattended.                      *)
(*                                                                         *)
(* The process is one asyncio loop, so handlers interleave only at their   *)
(* awaits.  A handler's pc names the await it is suspended at.  Durable    *)
(* chooses between the two deployments of the code: the SQL stores, where  *)
(* every store call suspends, and the in-memory ApprovalStore and          *)
(* AutonomyPolicy, where nothing suspends before the connector is called.  *)
(*                                                                         *)
(* Approvals and track records are keyed by principal and no step reads    *)
(* across that key, so one principal is modelled.  The gateway's own       *)
(* refusals (grant, rate limit, open circuit) are a choice here.           *)
(***************************************************************************)
EXTENDS Naturals, FiniteSets

CONSTANTS
    NoTool,       \* no tool
    NoAction,     \* no held action
    Tools,        \* mutating tools, and the specs of A2A commitments
    Catalog,      \* those registered with the gateway
    Risk,         \* Risk[t], the class the connector declared
    AlwaysManual, \* AutonomyPolicy.always_manual
    Threshold,    \* AutonomyPolicy.promotion_threshold
    Actions,      \* identifiers of held actions, each used at most once
    Calls,        \* agent calls, each made at most once
    Requests,     \* HTTP decision requests, each made at most once
    Durable,      \* SQL stores (TRUE) or in-memory stores (FALSE)
    MaxCrashes    \* how many times the process may die and restart

Risks == {"reversible_write", "external_facing", "irreversible"}

ASSUME GovernanceAssumption ==
    /\ NoTool \notin Tools /\ NoAction \notin Actions
    /\ Catalog \subseteq Tools
    /\ AlwaysManual \subseteq Tools
    /\ Risk \in [Tools -> Risks]
    /\ Threshold \in Nat \ {0}
    /\ Durable \in BOOLEAN
    /\ MaxCrashes \in Nat

VARIABLES
    status,     \* PendingActionRow.status; "lost" is an open one a restart dropped
    about,      \* the tool a held action would call
    track,      \* AutonomyPolicy._records, in memory
    row,        \* AutonomyRow, in the database
    crashes,
    (* an agent call: the await it is at, and its tool *)
    callPC, callTool,
    (* a decision request: the await it is at, the action, approve or reject, *)
    (* the row it loaded, the values it assigned, the status it read back     *)
    pc, on, approving, snap, want, seen,
    (* history, written and never read *)
    yes, no,    \* the requests whose approval, or rejection, of an action committed
    runs,       \* the requests that called the connector with an action's payload
    earned      \* approvals of a tool in a row since the last rejection

actionVars  == <<status, about>>
callVars    == <<callPC, callTool>>
reqVars     == <<pc, on, approving, snap, want, seen>>
historyVars == <<yes, no, runs, earned>>

vars == <<actionVars, track, row, crashes, callVars, reqVars, historyVars>>

Promotable == {"reversible_write"}
NewRecord  == [streak |-> 0, auto |-> FALSE]
NoRow      == [exists |-> FALSE, streak |-> 0, auto |-> FALSE]

TrackRecord == [streak : Nat, auto : BOOLEAN]
AutonomyRow == [exists : BOOLEAN, streak : Nat, auto : BOOLEAN]

Statuses == {"none", "pending", "approved", "rejected", "lost"}
CallPC   == {"idle", "holding", "ran", "done"}
ReqPC    == {"idle", "deciding", "committed", "selecting", "assigning", "flushing",
             "authorizing", "authorized", "holding", "ran", "done"}

TypeOK ==
    /\ status \in [Actions -> Statuses]
    /\ about \in [Actions -> Tools \cup {NoTool}]
    /\ \A a \in Actions : status[a] # "none" => about[a] \in Tools
    /\ track \in [Tools -> TrackRecord]
    /\ row \in [Tools -> AutonomyRow]
    /\ crashes \in 0..MaxCrashes
    /\ callPC \in [Calls -> CallPC]
    /\ callTool \in [Calls -> Tools \cup {NoTool}]
    /\ \A c \in Calls : callPC[c] # "idle" => callTool[c] \in Tools
    /\ pc \in [Requests -> ReqPC]
    /\ on \in [Requests -> Actions \cup {NoAction}]
    /\ \A r \in Requests : pc[r] # "idle" => on[r] \in Actions /\ status[on[r]] # "none"
    /\ approving \in [Requests -> BOOLEAN]
    /\ snap \in [Requests -> AutonomyRow]
    /\ want \in [Requests -> TrackRecord]
    /\ seen \in [Requests -> Statuses]
    /\ yes \in [Actions -> SUBSET Requests]
    /\ no \in [Actions -> SUBSET Requests]
    /\ runs \in [Actions -> SUBSET Requests]
    /\ earned \in [Tools -> Nat]

Init ==
    /\ status = [a \in Actions |-> "none"]
    /\ about  = [a \in Actions |-> NoTool]
    /\ track  = [t \in Tools |-> NewRecord]
    /\ row    = [t \in Tools |-> NoRow]
    /\ crashes = 0
    /\ callPC = [c \in Calls |-> "idle"] /\ callTool = [c \in Calls |-> NoTool]
    /\ pc = [r \in Requests |-> "idle"] /\ on = [r \in Requests |-> NoAction]
    /\ approving = [r \in Requests |-> FALSE]
    /\ snap = [r \in Requests |-> NoRow] /\ want = [r \in Requests |-> NewRecord]
    /\ seen = [r \in Requests |-> "none"]
    /\ yes = [a \in Actions |-> {}] /\ no = [a \in Actions |-> {}]
    /\ runs = [a \in Actions |-> {}]
    /\ earned = [t \in Tools |-> 0]

-----------------------------------------------------------------------------
(* The autonomy ladder *)

MayEarn(t) == Risk[t] \in Promotable /\ t \notin AlwaysManual

(* AutonomyPolicy.decide answers AUTO *)
RunsAlone(t, tainted) == MayEarn(t) /\ ~tainted /\ track[t].auto

(* variant: the class is not looked at *)
NotedAnyRisk(rec, t, approve) ==
    [streak |-> IF approve THEN rec.streak + 1 ELSE 0,
     auto   |-> approve /\ (rec.auto \/ rec.streak + 1 >= Threshold)]
(* variant: promotion one approval early *)
NotedEarly(rec, t, approve) ==
    [streak |-> IF approve THEN rec.streak + 1 ELSE 0,
     auto   |-> approve /\ (rec.auto \/ (MayEarn(t) /\ rec.streak + 2 >= Threshold))]

Noted(rec, t, approve) ==
    LET n == IF approve THEN rec.streak + 1 ELSE 0
    IN  [streak |-> n,
         auto   |-> approve /\ (rec.auto \/ (MayEarn(t) /\ n >= Threshold))]

Note(t, approve) ==
    /\ track' = [track EXCEPT ![t] = Noted(@, t, approve)]
    /\ earned' = [earned EXCEPT ![t] = IF approve THEN @ + 1 ELSE 0]

-----------------------------------------------------------------------------
(* Agent calls and A2A commitments *)

(* variant: an id that was used before is written over *)
SubmitOver(a, t) ==
    /\ status' = [status EXCEPT ![a] = "pending"]
    /\ about'  = [about EXCEPT ![a] = t]

Submit(a, t) ==
    /\ status[a] = "none"
    /\ status' = [status EXCEPT ![a] = "pending"]
    /\ about'  = [about EXCEPT ![a] = t]

(* McpGateway.call of a mutating tool, judged and started in one segment   *)
CallUnattended(c, t, tainted) ==
    /\ callPC[c] = "idle" /\ t \in Catalog
    /\ RunsAlone(t, tainted)
    /\ callPC' = [callPC EXCEPT ![c] = "ran"]
    /\ callTool' = [callTool EXCEPT ![c] = t]
    /\ UNCHANGED <<actionVars, track, row, crashes, reqVars, historyVars>>

CallHeld(c, t, tainted) ==
    /\ callPC[c] = "idle" /\ t \in Catalog
    /\ ~RunsAlone(t, tainted)
    /\ callTool' = [callTool EXCEPT ![c] = t]
    /\ IF Durable
       THEN /\ callPC' = [callPC EXCEPT ![c] = "holding"]
            /\ UNCHANGED actionVars
       ELSE /\ callPC' = [callPC EXCEPT ![c] = "done"]
            /\ \E a \in Actions : Submit(a, t)
    /\ UNCHANGED <<track, row, crashes, reqVars, historyVars>>

CallSubmit(c) ==
    /\ callPC[c] = "holding"
    /\ \E a \in Actions : Submit(a, callTool[c])
    /\ callPC' = [callPC EXCEPT ![c] = "done"]
    /\ UNCHANGED <<callTool, track, row, crashes, reqVars, historyVars>>

(* A2ABus._hold queues a commitment for the owner, past the gateway *)
HoldCommitment(t) ==
    /\ t \in Tools \ Catalog
    /\ \E a \in Actions : Submit(a, t)
    /\ UNCHANGED <<callVars, track, row, crashes, reqVars, historyVars>>

-----------------------------------------------------------------------------
(* The approve and reject routes over the SQL stores, one step per await   *)

Goto(r, label) == pc' = [pc EXCEPT ![r] = label]
ToolOf(r) == about[on[r]]

(* variant: decide does not refuse an action that was decided before *)
DecidableAgain(a) == status[a] # "none"

Decidable(a) == status[a] = "pending"

(* get, the owner check, and SqlApprovalStore.decide up to its check *)
DecideRead(r, a, approve) ==
    /\ Durable /\ pc[r] = "idle" /\ status[a] # "none"
    /\ Goto(r, IF Decidable(a) THEN "deciding" ELSE "done")
    /\ on' = [on EXCEPT ![r] = a]
    /\ approving' = [approving EXCEPT ![r] = approve]
    /\ UNCHANGED <<actionVars, track, row, crashes, callVars, snap, want, seen, historyVars>>

(* The UPDATE names the row by key: it does not look at the status again   *)
DecideCommit(r) ==
    /\ pc[r] = "deciding"
    /\ Goto(r, "committed")
    /\ IF approving[r]
       THEN /\ status' = [status EXCEPT ![on[r]] = "approved"]
            /\ yes' = [yes EXCEPT ![on[r]] = @ \cup {r}] /\ no' = no
       ELSE /\ status' = [status EXCEPT ![on[r]] = "rejected"]
            /\ no' = [no EXCEPT ![on[r]] = @ \cup {r}] /\ yes' = yes
    /\ UNCHANGED <<about, track, row, crashes, callVars, on, approving, snap, want, seen,
                   runs, earned>>

(* gateway.spec raises for a tool that is not in the catalog: a 500 *)
DecideUncataloged(r) ==
    /\ pc[r] = "committed" /\ ToolOf(r) \notin Catalog
    /\ Goto(r, "done")
    /\ UNCHANGED <<actionVars, track, row, crashes, callVars, on, approving, snap, want,
                   seen, historyVars>>

RecordDecision(r) ==
    /\ pc[r] = "committed" /\ ToolOf(r) \in Catalog
    /\ Goto(r, "selecting")
    /\ Note(ToolOf(r), approving[r])
    /\ UNCHANGED <<actionVars, row, crashes, callVars, on, approving, snap, want, seen,
                   yes, no, runs>>

(* PersistentAutonomyPolicy.persist: load the row, assign, flush and commit*)
PersistSelect(r) ==
    /\ pc[r] = "selecting"
    /\ Goto(r, "assigning")
    /\ snap' = [snap EXCEPT ![r] = row[ToolOf(r)]]
    /\ UNCHANGED <<actionVars, track, row, crashes, callVars, on, approving, want, seen,
                   historyVars>>

PersistAssign(r) ==
    /\ pc[r] = "assigning"
    /\ Goto(r, "flushing")
    /\ want' = [want EXCEPT ![r] = track[ToolOf(r)]]
    /\ UNCHANGED <<actionVars, track, row, crashes, callVars, on, approving, snap, seen,
                   historyVars>>

(* The session writes the columns that differ from what it loaded *)
Flushed(old, loaded, new) ==
    [exists |-> TRUE,
     streak |-> IF loaded.exists /\ new.streak = loaded.streak THEN old.streak ELSE new.streak,
     auto   |-> IF loaded.exists /\ new.auto = loaded.auto THEN old.auto ELSE new.auto]

(* A second INSERT of the same key fails, and the request ends in a 500    *)
PersistFails(r) ==
    /\ pc[r] = "flushing" /\ row[ToolOf(r)].exists /\ ~snap[r].exists
    /\ Goto(r, "done")
    /\ UNCHANGED <<actionVars, track, row, crashes, callVars, on, approving, snap, want,
                   seen, historyVars>>

(* variant: the reject route goes on as well *)
NextAlways(r) == "authorizing"

(* The reject route ends here; the approve route calls the gateway again.  *)
NextAfterPersist(r) == IF approving[r] THEN "authorizing" ELSE "done"

PersistCommit(r) ==
    /\ pc[r] = "flushing" /\ (snap[r].exists \/ ~row[ToolOf(r)].exists)
    /\ row' = [row EXCEPT ![ToolOf(r)] = Flushed(@, snap[r], want[r])]
    /\ Goto(r, NextAfterPersist(r))
    /\ UNCHANGED <<actionVars, track, crashes, callVars, on, approving, snap, want, seen,
                   historyVars>>

(* The gateway refuses before it consults governance: grant, rate, circuit *)
GatewayRefuses(r) ==
    /\ pc[r] = "authorizing"
    /\ Goto(r, "done")
    /\ UNCHANGED <<actionVars, track, row, crashes, callVars, on, approving, snap, want,
                   seen, historyVars>>

(* Governor.authorize reads the action back *)
AuthorizeRead(r) ==
    /\ pc[r] = "authorizing"
    /\ Goto(r, "authorized")
    /\ seen' = [seen EXCEPT ![r] = status[on[r]]]
    /\ UNCHANGED <<actionVars, track, row, crashes, callVars, on, approving, snap, want,
                   historyVars>>

Execute(r) ==
    /\ pc[r] = "authorized"
    /\ seen[r] = "approved" \/ RunsAlone(ToolOf(r), FALSE)
    /\ Goto(r, "ran")
    /\ runs' = [runs EXCEPT ![on[r]] = @ \cup {r}]
    /\ UNCHANGED <<actionVars, track, row, crashes, callVars, on, approving, snap, want,
                   seen, yes, no, earned>>

(* It was rejected after it was approved: the call falls through to the    *)
(* egress check, which may refuse, and to the ladder, which holds it afresh*)
EgressRefuses(r) ==
    /\ pc[r] = "authorized" /\ seen[r] # "approved"
    /\ Risk[ToolOf(r)] = "external_facing"
    /\ Goto(r, "done")
    /\ UNCHANGED <<actionVars, track, row, crashes, callVars, on, approving, snap, want,
                   seen, historyVars>>

HeldAgain(r) ==
    /\ pc[r] = "authorized" /\ seen[r] # "approved" /\ ~RunsAlone(ToolOf(r), FALSE)
    /\ Goto(r, "holding")
    /\ UNCHANGED <<actionVars, track, row, crashes, callVars, on, approving, snap, want,
                   seen, historyVars>>

RequestSubmit(r) ==
    /\ pc[r] = "holding"
    /\ \E a \in Actions : Submit(a, ToolOf(r))
    /\ Goto(r, "done")
    /\ UNCHANGED <<track, row, crashes, callVars, on, approving, snap, want, seen,
                   historyVars>>

-----------------------------------------------------------------------------
(* The same routes over the in-memory stores: nothing suspends before the  *)
(* connector is called, so a decision and its execution are one step       *)

NoteInMemory(t, approve) ==
    IF t \in Catalog THEN Note(t, approve) ELSE UNCHANGED <<track, earned>>

RejectInMemory(r, a) ==
    /\ ~Durable /\ pc[r] = "idle" /\ Decidable(a)
    /\ status' = [status EXCEPT ![a] = "rejected"]
    /\ no' = [no EXCEPT ![a] = @ \cup {r}]
    /\ NoteInMemory(about[a], FALSE)
    /\ Goto(r, "done")
    /\ on' = [on EXCEPT ![r] = a]
    /\ UNCHANGED <<about, row, crashes, callVars, approving, snap, want, seen, yes, runs>>

(* refused: by the gateway; a tool outside the catalog raises before it    *)
ApproveInMemory(r, a, refused) ==
    LET executed == about[a] \in Catalog /\ ~refused IN
    /\ ~Durable /\ pc[r] = "idle" /\ Decidable(a)
    /\ status' = [status EXCEPT ![a] = "approved"]
    /\ yes' = [yes EXCEPT ![a] = @ \cup {r}]
    /\ NoteInMemory(about[a], TRUE)
    /\ runs' = IF executed THEN [runs EXCEPT ![a] = @ \cup {r}] ELSE runs
    /\ Goto(r, IF executed THEN "ran" ELSE "done")
    /\ on' = [on EXCEPT ![r] = a]
    /\ approving' = [approving EXCEPT ![r] = TRUE]
    /\ UNCHANGED <<about, row, crashes, callVars, snap, want, seen, no>>

-----------------------------------------------------------------------------
(* The process dies: handlers and memory go, the database stays, and       *)
(* PersistentAutonomyPolicy.load reads the rows back                       *)

(* variant: the row itself becomes the record *)
LoadedRaw(w) == w

Loaded(w) == IF w.exists THEN [streak |-> w.streak, auto |-> w.auto] ELSE NewRecord

Crash ==
    /\ crashes < MaxCrashes
    /\ crashes' = crashes + 1
    /\ track' = [t \in Tools |-> Loaded(row[t])]
    /\ status' = [a \in Actions |-> IF ~Durable /\ status[a] = "pending"
                                    THEN "lost" ELSE status[a]]
    /\ callPC' = [c \in Calls |-> IF callPC[c] = "holding" THEN "done" ELSE callPC[c]]
    /\ pc' = [r \in Requests |-> IF pc[r] \in {"idle", "ran"} THEN pc[r] ELSE "done"]
    /\ UNCHANGED <<about, row, callTool, on, approving, snap, want, seen, historyVars>>

CallStep(c) ==
    \/ \E t \in Tools, tainted \in BOOLEAN :
          CallUnattended(c, t, tainted) \/ CallHeld(c, t, tainted)
    \/ CallSubmit(c)

RequestStep(r) ==
    \/ \E a \in Actions, approve \in BOOLEAN : DecideRead(r, a, approve)
    \/ DecideCommit(r) \/ DecideUncataloged(r) \/ RecordDecision(r)
    \/ PersistSelect(r) \/ PersistAssign(r) \/ PersistFails(r) \/ PersistCommit(r)
    \/ GatewayRefuses(r) \/ AuthorizeRead(r) \/ Execute(r)
    \/ EgressRefuses(r) \/ HeldAgain(r) \/ RequestSubmit(r)
    \/ \E a \in Actions : RejectInMemory(r, a)
    \/ \E a \in Actions, refused \in BOOLEAN : ApproveInMemory(r, a, refused)

Next ==
    \/ \E c \in Calls : CallStep(c)
    \/ \E t \in Tools : HoldCommitment(t)
    \/ \E r \in Requests : RequestStep(r)
    \/ Crash

Spec == Init /\ [][Next]_vars

-----------------------------------------------------------------------------
(* Properties *)

(* Every execution of a held payload (McpGateway.call re-entered with the  *)
(* approval) was paid for by an approval that same request had committed,  *)
(* however decisions race, fall through authorize or die with the process. *)
EveryRunPaidFor == \A a \in Actions : runs[a] \subseteq yes[a]

(* An action still offered in the queue (pending_for) was never decided:   *)
(* no restart and no lost update puts a decided action back.               *)
PendingMeansUndecided ==
    \A a \in Actions : status[a] \in {"none", "pending"} => yes[a] \cup no[a] = {}

(* Autonomy is only ever granted to a tool that may earn it, in memory and *)
(* in the rows a restart loads (AutonomyPolicy.note_approval, persist).    *)
GrantOnlyPromotable == \A t \in Tools : track[t].auto \/ row[t].auto => MayEarn(t)

(* A call starts without a person only after Threshold approvals in a row  *)
(* of that tool with no rejection after them.  Until a restart: what was   *)
(* in flight at a crash may be forgotten.                                  *)
UnattendedOnlyIfEarned ==
    [][\A c \in Calls :
          (callPC[c] = "idle" /\ callPC'[c] = "ran" /\ (crashes = 0 \/ ~Durable))
              => earned[callTool'[c]] >= Threshold]_vars

(* One person's one decision settles an action: a second is refused        *)
(* (decide raises "already approved", the route answers 409).              *)
DecidedOnce == \A a \in Actions : \A r, s \in yes[a] \cup no[a] : r = s

(* "Writes go through to the database immediately, so a crash loses at     *)
(* most the decision currently in flight" (PersistentAutonomyPolicy): with *)
(* none in flight, and no action decided twice, a restart would not hand   *)
(* back the autonomy a rejection took away.                                *)
InFlight(r) == pc[r] \in {"committed", "selecting", "assigning", "flushing"}
RejectionIsDurable ==
    DecidedOnce /\ (\A r \in Requests : ~InFlight(r)) =>
        \A t \in Tools : row[t].auto => track[t].auto

(* What each held action has come to, as the promise of an approval queue  *)
Settled == [none |-> "none", pending |-> "held", approved |-> "stranded",
            rejected |-> "rejected", lost |-> "forgotten"]
Phase == [a \in Actions |-> IF runs[a] # {} THEN "executed" ELSE Settled[status[a]]]

Ledger == INSTANCE ActionLedger WITH phase <- Phase

(* The in-memory queue keeps the promise of ActionLedger: one decision per *)
(* action, and execution only by the approval that settled it.             *)
KeepsLedger == Ledger!Spec

-----------------------------------------------------------------------------
(* The inductive invariants behind the theorems of GovernanceProofs *)

Decided  == {"committed", "selecting", "assigning", "flushing", "authorizing",
             "authorized", "holding"}
Executing == {"authorizing", "authorized", "holding"}

(* A request that is past its commit is on record, and only an approval    *)
(* goes on to the gateway                                                  *)
PaidInv ==
    /\ EveryRunPaidFor
    /\ PendingMeansUndecided
    /\ \A r \in Requests : pc[r] \in Decided /\ approving[r] => r \in yes[on[r]]
    /\ \A r \in Requests : pc[r] \in Executing => approving[r]

(* Values on their way to a row came from a record in memory *)
GrantInv ==
    /\ GrantOnlyPromotable
    /\ \A r \in Requests : pc[r] = "flushing" /\ want[r].auto => MayEarn(ToolOf(r))

(* Until a restart a record in memory is never ahead of the approvals that *)
(* were given; and without a database there are no rows to restart from    *)
EarnedInv ==
    /\ crashes = 0 \/ ~Durable =>
         \A t \in Tools : /\ track[t].streak <= earned[t]
                          /\ track[t].auto => Threshold <= earned[t]
    /\ ~Durable => \A t \in Tools : ~row[t].exists

(* In memory no handler is ever suspended between decision and execution   *)
MemoryInv ==
    ~Durable =>
        /\ DecidedOnce
        /\ \A r \in Requests : pc[r] \in {"idle", "ran", "done"}
        /\ \A a \in Actions : runs[a] # {} => status[a] = "approved"
=============================================================================
