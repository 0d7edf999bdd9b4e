----------------------------- MODULE Knowledge -----------------------------
(***************************************************************************)
(* Keeping the document index and its permissions current: Ingestor and    *)
(* the two loops of IngestionRefresher, the content sync and the           *)
(* permission check with its quarantine and recovery, over the in-memory   *)
(* index and its durable copy.  The loops run concurrently on one event    *)
(* loop and take no lock, so they interleave at every await.               *)
(*                                                                         *)
(* One source is modelled: no step reads across sources.  Of a permission  *)
(* it matters only whether it still grants what it first granted.  Time is *)
(* the count of edits at the source, for watermarks, and a clock that may  *)
(* run out at any moment, for the staleness budget.                        *)
(***************************************************************************)
EXTENDS Naturals, FiniteSets

CONSTANTS
    NoMark,      \* no watermark
    NoDoc,       \* no document
    Docs,        \* documents of the source
    MaxWrites,   \* bound on edits at the source
    MaxFaults,   \* bound on failed calls to the source or the database
    MaxCrashes   \* bound on restarts

ASSUME KnowledgeAssumption ==
    /\ NoMark \notin Nat /\ NoDoc \notin Docs
    /\ MaxWrites \in Nat /\ MaxFaults \in Nat /\ MaxCrashes \in Nat

Loops == {"content", "acl"}

VARIABLES
    (* the source *)
    src, edited, writes, \* each permission, the last edit of each document, and their count
    (* what is served, and what a restart would serve *)
    index, store,       \* DocumentIndex and the DocumentRow table
    watermark, storedMark,   \* Ingestor._last_sync and the SyncWatermarkRow
    (* SourceHealth *)
    quarantined, verified, \* last_acl_check: "never", within or past the budget
    (* the loops *)
    loopPC,
    since, batch,       \* a sync: the watermark it asks from, and what it has staged
    todo, told, on, late, \* a check: documents to review, the answer, the one in hand,
                        \* and whether the last check was stale at its start
    faults, crashes,
    (* history, written and never read *)
    foundGone,          \* documents a check found revoked or gone
    revived             \* those whose old grant a sync put back since

knowledgeVars == <<src, edited, writes, index, store, watermark, storedMark, quarantined, verified,
                  loopPC, since, batch, todo, told, on, late, faults, crashes, foundGone, revived>>

source  == <<src, edited, writes>>
marks   == <<watermark, storedMark>>
status  == <<quarantined, verified>>
syncing == <<since, batch>>
checking == <<todo, told, on, late>>
bounds  == <<faults, crashes>>
history == <<foundGone, revived>>

Grants  == {"granted", "revoked"}
Held    == Grants \cup {"absent"}
LoopPCs == {"idle", "fetching", "answered", "saving", "marking",
        "asking", "reviewing", "updating", "dropping", "forgetting"}

KnowledgeTypeOK ==
    /\ src \in [Docs -> Grants \cup {"unborn", "gone"}]
    /\ edited \in [Docs -> 0..MaxWrites] /\ writes \in 0..MaxWrites
    /\ index \in [Docs -> Held] /\ store \in [Docs -> Held]
    /\ watermark \in 0..MaxWrites \cup {NoMark} /\ storedMark \in 0..MaxWrites \cup {NoMark}
    /\ quarantined \in BOOLEAN /\ verified \in {"never", "current", "stale"}
    /\ loopPC \in [Loops -> LoopPCs]
    /\ since \in [Loops -> 0..MaxWrites \cup {NoMark}] /\ batch \in [Loops -> [Docs -> Held]]
    /\ todo \subseteq Docs /\ told \in [Docs -> Held]
    /\ on \in Docs \cup {NoDoc} /\ late \in BOOLEAN
    /\ faults \in 0..MaxFaults /\ crashes \in 0..MaxCrashes
    /\ foundGone \subseteq Docs /\ revived \subseteq Docs

NoHoldings == [d \in Docs |-> "absent"]

KnowledgeInit ==
    /\ src \in [Docs -> {"granted", "unborn"}]
    /\ edited = [d \in Docs |-> 0] /\ writes = 0
    /\ index = NoHoldings /\ store = NoHoldings
    /\ watermark = NoMark /\ storedMark = NoMark
    /\ quarantined = FALSE /\ verified = "never"
    /\ loopPC = [l \in Loops |-> "idle"]
    /\ since = [l \in Loops |-> NoMark] /\ batch = [l \in Loops |-> NoHoldings]
    /\ todo = {} /\ told = NoHoldings /\ on = NoDoc /\ late = FALSE
    /\ faults = 0 /\ crashes = 0
    /\ foundGone = {} /\ revived = {}

LoopGoto(l, label) == loopPC' = [loopPC EXCEPT ![l] = label]
Fault == faults < MaxFaults /\ faults' = faults + 1 /\ UNCHANGED crashes

-----------------------------------------------------------------------------
(* The source *)
Present(d) == src[d] \in Grants

(* A document is written, or written again *)
Edit(d) ==
    /\ writes < MaxWrites /\ src[d] # "gone"
    /\ writes' = writes + 1
    /\ edited' = [edited EXCEPT ![d] = writes + 1]
    /\ src' = [src EXCEPT ![d] = IF @ = "unborn" THEN "granted" ELSE @]
    /\ UNCHANGED <<index, store, marks, status, loopPC, syncing, checking, bounds, history>>

(* A permission is taken away, or the document is.  That is no edit of it. *)
Withdraw(d) ==
    /\ src[d] = "granted"
    /\ \E s \in {"revoked", "gone"} : src' = [src EXCEPT ![d] = s]
    /\ UNCHANGED <<edited, writes, index, store, marks, status, loopPC, syncing, checking,
                   bounds, history>>

(* The last successful check grows older than max_acl_age *)
BudgetRunsOut ==
    /\ verified = "current" /\ verified' = "stale"
    /\ UNCHANGED <<source, index, store, marks, quarantined, loopPC, syncing, checking,
                   bounds, history>>

-----------------------------------------------------------------------------
(* Ingestor.sync, run by the content loop and by a recovery *)
SyncFrom(l, w) ==
    /\ LoopGoto(l, "fetching")
    /\ since' = [since EXCEPT ![l] = w]
    /\ UNCHANGED batch

ContentTick ==
    /\ loopPC["content"] = "idle"
    /\ SyncFrom("content", watermark)
    /\ UNCHANGED <<source, index, store, marks, status, checking, bounds, history>>

(* The source reads its documents; its answer travels *)
Changed(d, w) == Present(d) /\ (w = NoMark \/ edited[d] > w)

FetchAnswered(l) ==
    /\ loopPC[l] = "fetching"
    /\ batch' = [batch EXCEPT ![l] =
         [d \in Docs |-> IF Changed(d, since[l]) THEN src[d] ELSE "absent"]]
    /\ LoopGoto(l, "answered")
    /\ UNCHANGED <<source, index, store, marks, status, since, checking, bounds, history>>

Staged(l) == {d \in Docs : batch[l][d] # "absent"}

(* A recovery lifts the quarantine whatever came of its sync *)
SyncOver(l) ==
    /\ LoopGoto(l, "idle")
    /\ quarantined' = (quarantined /\ l = "content")
    /\ since' = [since EXCEPT ![l] = NoMark]
    /\ batch' = [batch EXCEPT ![l] = NoHoldings]

FetchFailed(l) ==
    /\ loopPC[l] = "fetching" /\ Fault
    /\ SyncOver(l)
    /\ UNCHANGED <<source, index, store, marks, verified, checking, history>>

(* The whole batch goes into the index between two awaits *)
Apply(l) ==
    /\ loopPC[l] = "answered"
    /\ index' = [d \in Docs |-> IF d \in Staged(l) THEN batch[l][d] ELSE index[d]]
    /\ revived' = revived \cup {d \in foundGone : batch[l][d] = "granted"}
    /\ LoopGoto(l, "saving")
    /\ UNCHANGED <<source, store, marks, status, syncing, checking, bounds, foundGone>>

(* DocumentStore.save_all commits the documents one by one *)
Save(l, d) ==
    /\ loopPC[l] = "saving" /\ d \in Staged(l)
    /\ store' = [store EXCEPT ![d] = batch[l][d]]
    /\ batch' = [batch EXCEPT ![l][d] = "absent"]
    /\ UNCHANGED <<source, index, marks, status, loopPC, since, checking, bounds, history>>

(* The watermark is the time the sync completed *)
Mark(l) ==
    /\ loopPC[l] = "saving" /\ Staged(l) = {}
    /\ watermark' = writes
    /\ since' = [since EXCEPT ![l] = writes]
    /\ LoopGoto(l, "marking")
    /\ UNCHANGED <<source, index, store, storedMark, status, batch, checking, bounds, history>>

(* sync_content lets a first sync stand for a permission check *)
MarkStored(l) ==
    /\ loopPC[l] = "marking"
    /\ storedMark' = since[l]
    /\ SyncOver(l)
    /\ verified' = IF l = "content" /\ verified = "never" THEN "current" ELSE verified
    /\ UNCHANGED <<source, index, store, watermark, checking, bounds, history>>

-----------------------------------------------------------------------------
(* IngestionRefresher.check_permissions *)
Indexed == {d \in Docs : index[d] # "absent"}

(* The check is good.  A quarantined source is recovered: its watermark    *)
(* goes first, from memory and then from storage                           *)
CheckPassed ==
    /\ verified' = "current"
    /\ UNCHANGED quarantined
    /\ IF quarantined
       THEN watermark' = NoMark /\ LoopGoto("acl", "forgetting")
       ELSE UNCHANGED watermark /\ LoopGoto("acl", "idle")

(* variant: a source with nothing indexed is passed over *)
CheckEmptySkipped == LoopGoto("acl", "idle") /\ UNCHANGED <<watermark, status>>

(* Nothing is asked of a source with nothing indexed, and the check passes *)
CheckEmpty == CheckPassed

PermissionTick ==
    /\ loopPC["acl"] = "idle"
    /\ late' = (verified = "stale" /\ Indexed # {})
    /\ todo' = Indexed
    /\ IF Indexed = {} THEN CheckEmpty ELSE LoopGoto("acl", "asking") /\ UNCHANGED <<watermark, status>>
    /\ UNCHANGED <<source, index, store, storedMark, syncing, told, on, bounds, history>>

(* Absent, in the answer, is a document the source does not know *)
AclsAnswered ==
    /\ loopPC["acl"] = "asking"
    /\ told' = [d \in Docs |-> IF d \in todo /\ Present(d) THEN src[d] ELSE "absent"]
    /\ LoopGoto("acl", "reviewing")
    /\ UNCHANGED <<source, index, store, marks, status, syncing, todo, on, late, bounds, history>>

(* The index is emptied at once, the quarantine flag is set after storage is *)
AclsFailed ==
    /\ loopPC["acl"] = "asking" /\ Fault
    /\ IF late /\ ~quarantined
       THEN index' = NoHoldings /\ LoopGoto("acl", "dropping")
       ELSE UNCHANGED index /\ LoopGoto("acl", "idle")
    /\ todo' = {} /\ late' = FALSE
    /\ UNCHANGED <<source, store, marks, status, syncing, told, on, history>>

Dropped ==
    /\ loopPC["acl"] = "dropping"
    /\ store' = NoHoldings
    /\ quarantined' = TRUE
    /\ LoopGoto("acl", "idle")
    /\ UNCHANGED <<source, index, marks, verified, syncing, checking, bounds, history>>

(* variant: a document the source no longer knows is left as it was *)
OutOfDateKnown(d) == index[d] # "absent" /\ told[d] # "absent" /\ index[d] # told[d]

OutOfDate(d) == told[d] # index[d] /\ (told[d] = "absent" \/ index[d] # "absent")

(* variant: the permission is written to storage and not to the index *)
ReviewOnPaper(d) == UNCHANGED index

Review(d) == index' = [index EXCEPT ![d] = told[d]]

(* One document of the answer: removed, or given its new permission, in    *)
(* the index and then in storage                                           *)
ReviewChanged(d) ==
    /\ loopPC["acl"] = "reviewing" /\ d \in todo /\ OutOfDate(d)
    /\ Review(d)
    /\ foundGone' = IF told[d] = "granted" THEN foundGone ELSE foundGone \cup {d}
    /\ revived' = revived \ {d}
    /\ on' = d
    /\ todo' = todo \ {d}
    /\ LoopGoto("acl", "updating")
    /\ UNCHANGED <<source, store, marks, status, syncing, told, late, bounds>>

ReviewSame(d) ==
    /\ loopPC["acl"] = "reviewing" /\ d \in todo /\ ~OutOfDate(d)
    /\ todo' = todo \ {d}
    /\ UNCHANGED <<source, index, store, marks, status, loopPC, syncing, told, on, late, bounds, history>>

(* delete, or update_acl of a row that is there *)
Updated ==
    /\ loopPC["acl"] = "updating"
    /\ store' = [store EXCEPT ![on] = IF @ = "absent" THEN @ ELSE told[on]]
    /\ on' = NoDoc
    /\ LoopGoto("acl", "reviewing")
    /\ UNCHANGED <<source, index, marks, status, syncing, todo, told, late, bounds, history>>

CheckDone ==
    /\ loopPC["acl"] = "reviewing" /\ todo = {}
    /\ CheckPassed
    /\ told' = NoHoldings /\ late' = FALSE
    /\ UNCHANGED <<source, index, store, storedMark, syncing, todo, on, bounds, history>>

(* _recover goes on to a full sync *)
Forgotten ==
    /\ loopPC["acl"] = "forgetting"
    /\ storedMark' = NoMark
    /\ SyncFrom("acl", NoMark)
    /\ UNCHANGED <<source, index, store, watermark, status, checking, bounds, history>>

(* The database raises: the loop gives this pass up where it stands *)
DatabaseFailed(l) ==
    /\ loopPC[l] \in {"saving", "marking", "updating", "dropping", "forgetting"} /\ Fault
    /\ LoopGoto(l, "idle")
    /\ since' = [since EXCEPT ![l] = NoMark]
    /\ batch' = [batch EXCEPT ![l] = NoHoldings]
    /\ IF l = "acl"
       THEN todo' = {} /\ told' = NoHoldings /\ on' = NoDoc /\ late' = FALSE
       ELSE UNCHANGED checking
    /\ UNCHANGED <<source, index, store, marks, status, history>>

(* The process dies and starts again: restore refills the index and the    *)
(* watermarks, and the refresher takes a watermark for its last check      *)
Restart ==
    /\ crashes < MaxCrashes /\ crashes' = crashes + 1 /\ UNCHANGED faults
    /\ index' = store /\ watermark' = storedMark
    /\ quarantined' = FALSE
    /\ verified' \in IF storedMark = NoMark THEN {"never"} ELSE {"current", "stale"}
    /\ loopPC' = [l \in Loops |-> "idle"]
    /\ since' = [l \in Loops |-> NoMark] /\ batch' = [l \in Loops |-> NoHoldings]
    /\ todo' = {} /\ told' = NoHoldings /\ on' = NoDoc /\ late' = FALSE
    /\ foundGone' = {} /\ revived' = {}
    /\ UNCHANGED <<source, store, storedMark>>

SyncStep(l) ==
    \/ FetchAnswered(l) \/ Apply(l) \/ (\E d \in Docs : Save(l, d)) \/ Mark(l) \/ MarkStored(l)

LoopStep(l) ==
    \/ SyncStep(l)
    \/ l = "content" /\ ContentTick
    \/ l = "acl" /\ (PermissionTick \/ AclsAnswered \/ Dropped \/ Updated \/ CheckDone \/ Forgotten)
    \/ l = "acl" /\ \E d \in Docs : ReviewChanged(d) \/ ReviewSame(d)

KnowledgeNext ==
    \/ \E d \in Docs : Edit(d) \/ Withdraw(d)
    \/ BudgetRunsOut
    \/ \E l \in Loops : LoopStep(l) \/ FetchFailed(l) \/ DatabaseFailed(l)
    \/ AclsFailed \/ Restart

(* Each loop is a task that sleeps and wakes for as long as the process    *)
(* lives, and what it awaits answers or raises                             *)
RefresherFairness == \A l \in Loops : WF_knowledgeVars(LoopStep(l))

KnowledgeSpec == KnowledgeInit /\ [][KnowledgeNext]_knowledgeVars /\ RefresherFairness

-----------------------------------------------------------------------------
(* Properties *)

(* Once a check has found a permission withdrawn, nothing but a sync that  *)
(* had fetched the document before can serve it under the old grant again: *)
(* no order of the two loops, no failure and no quarantine does.           *)
CheckedStaysRevoked == \A d \in foundGone : index[d] = "granted" => d \in revived

(* A permission withdrawn at the source is, in the end and for good, not   *)
(* granted by the index (once the faults stop), through overlapping syncs, *)
(* quarantine, recovery and restart.                                       *)
RevocationLands ==
    \A d \in Docs : <>[](src[d] \in {"revoked", "gone"} => index[d] # "granted")

(* A source is not quarantined for ever once it answers again, although    *)
(* nothing of it is left to ask about.                                     *)
QuarantineLifts == quarantined ~> ~quarantined

(* With both loops at rest, a document the source has had since before the *)
(* watermark is in the index: an incremental sync skips nothing.           *)
NothingSkipped ==
    (\A l \in Loops : loopPC[l] = "idle") /\ ~quarantined /\ watermark # NoMark =>
        \A d \in Docs : Present(d) /\ edited[d] <= watermark => index[d] # "absent"
=============================================================================
