------------------------------ MODULE MCServices ------------------------------
(* Small instances of the parts of the service that face other systems and *)
(* the clock, and share no state with one another: which of them a         *)
(* behaviour is about is settled at its start, and the others stand still. *)
(* Stores, clients and routes each have their own objects, and nothing one *)
(* of these parts keeps is read by another.                                *)
EXTENDS StdioClient, Scheduler, ToolPins, Sessions, Inbound, Knowledge, TLC

CONSTANTS
    hello, r1, r2,             \* MCP requests
    k1, k2,                    \* scheduled jobs
    t1, v1, v2, v1o, vp,       \* a tool and its versions; v1o is v1 but for a hint, vp poisoned
    doc                        \* a document

VARIABLE about

servicesVars == <<about, vars, schedulerVars, pinsVars, sessionVars, inboundVars, knowledgeVars>>

(* StdioClient *)
HelloAndTwo == {hello, r1, r2}

(* Scheduler *)
TwoJobs == {k1, k2}
Jitter == [k \in TwoJobs |-> IF k = k1 THEN 0 ELSE 1]

(* ToolPins *)
OneTool == {t1}
FourVersions == {v1, v2, v1o, vp}
FingerprintOf == [v \in FourVersions |-> IF v = v1o THEN v1 ELSE v]
HintsOf == [v \in FourVersions |-> IF v = v1o THEN {"openWorld"} ELSE {"readOnly"}]
NoOverride == [t \in OneTool |-> Unset]
PoisonedOnes == {vp}

(* Knowledge *)
OneDoc == {doc}

(* Inbound *)
TwoPayloads == [p \in {"p1", "p2"} |-> IF p = "p1" THEN <<"m1", "photo", "m2">> ELSE <<"m2", "m3">>]

-----------------------------------------------------------------------------
Areas == {"stdio", "scheduler", "pins", "sessions", "inbound", "knowledge"}

ServicesInit ==
    /\ about \in Areas
    /\ Init /\ SchedulerInit /\ PinsInit /\ SessionInit /\ InboundInit /\ KnowledgeInit
    /\ about = "knowledge" \/ src = [d \in Docs |-> "granted"]

ServicesNext ==
    /\ UNCHANGED about
    /\ IF about = "stdio" THEN Next ELSE UNCHANGED vars
    /\ IF about = "scheduler" THEN SchedulerNext ELSE UNCHANGED schedulerVars
    /\ IF about = "pins" THEN PinsNext ELSE UNCHANGED pinsVars
    /\ IF about = "sessions" THEN SessionNext ELSE UNCHANGED sessionVars
    /\ IF about = "inbound" THEN InboundNext ELSE UNCHANGED inboundVars
    /\ IF about = "knowledge" THEN KnowledgeNext ELSE UNCHANGED knowledgeVars

(* The fairness of the three parts that state any, in the behaviours that  *)
(* are about them: StdioClient's, of which this much is enough,            *)
(* Scheduler's and Knowledge's.                                            *)
ServicesFairness ==
    /\ \A r \in Requests :
          /\ WF_vars(about = "stdio" /\ Acquire(r))
          /\ WF_vars(about = "stdio" /\ (Sent(r) \/ SendFails(r)))
          /\ WF_vars(about = "stdio" /\ Returns(r))
          /\ WF_vars(about = "stdio" /\ Deadline(r))
          /\ WF_vars(about = "stdio" /\ Expires(r))
          /\ WF_vars(about = "stdio" /\ Cancelled(r) /\ pc[r] = "cancelling")
    /\ WF_schedulerVars(about = "scheduler" /\ Second)
    /\ WF_schedulerVars(about = "scheduler" /\ Tick)
    /\ WF_schedulerVars(about = "scheduler" /\ TickOver)
    /\ \A k \in JobKeys : /\ WF_schedulerVars(about = "scheduler" /\ StartJob(k))
                          /\ WF_schedulerVars(about = "scheduler" /\ FinishJob(k))
    /\ \A l \in Loops : WF_knowledgeVars(about = "knowledge" /\ LoopStep(l))

ServicesSpec == ServicesInit /\ [][ServicesNext]_servicesVars /\ ServicesFairness

(* A server that lives and may stop reading: the program's own fairness.   *)
UnreadSpec == ServicesInit /\ about = "stdio" /\ [][ServicesNext]_servicesVars /\ LoopFairness
=============================================================================
