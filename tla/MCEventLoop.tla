---------------------------- MODULE MCEventLoop ----------------------------
(* Small instances of the two parts whose requests meet on the event loop: *)
(* the gate before the engine, with two interactive callers, one of them   *)
(* streaming, and two background ones before two slots; and conversations, *)
(* with three tabs of which one streams, or two of those.  They share no   *)
(* state: which of them a behaviour is about is settled at its start, and  *)
(* the other stands still.                                                 *)
EXTENDS ModelPlane, Conversation

CONSTANTS i1, i2, b1, b2, s1, c1, c2

VARIABLE part

eventLoopVars == <<part, gateVars, vars>>

AllCallers == {i1, i2, b1, b2}
People     == {i1, i2}
Streams    == {i1}
Few        == {i1, b1}
Person     == {i1}

Tabs       == {s1, c1, c2}
StreamTabs == {s1}
TwoChats   == {c1, c2}

(* Of conversations either all three tabs cross, with one call to a        *)
(* completion, or two of them do, with as many as there may be.            *)
EventLoopInit == part \in {"gate", "all", "two"} /\ GateInit /\ Init

EventLoopNext ==
    /\ UNCHANGED part
    /\ \/ part = "gate" /\ GateNext /\ UNCHANGED vars
       \/ part = "all" /\ Next /\ (\A r \in Runs : calls'[r] <= 1) /\ UNCHANGED gateVars
       \/ part = "two" /\ Next /\ pc'[c2] = "idle" /\ UNCHANGED gateVars

(* The fairness of ModelPlane and of Conversation, in the behaviours that  *)
(* are about them.                                                         *)
EventLoopFairness ==
    /\ \A r \in Callers :
          /\ WF_gateVars(part = "gate" /\ Deadline(r))
          /\ WF_gateVars(part = "gate" /\ ResumeAdmitted(r))
          /\ WF_gateVars(part = "gate" /\ ResumeRefused(r))
          /\ WF_gateVars(part = "gate" /\ ResumeAbandoned(r))
    /\ \A r \in Runs : WF_vars(part # "gate" /\ Progress(r))

EventLoopSpec == EventLoopInit /\ [][EventLoopNext]_eventLoopVars /\ EventLoopFairness
=============================================================================
