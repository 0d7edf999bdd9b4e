---------------------------- MODULE Conversation ----------------------------
(***************************************************************************)
(* One person's conversation and the agent runs on it: AgentRuntime.run    *)
(* and stream (think, call tools one after the other, feed the results     *)
(* back), the taint that reading untrusted content leaves, and the turns   *)
(* the chat routes load from and append to ConversationStore.  Several     *)
(* browser tabs may run at once, and any may start a new conversation.     *)
(*                                                                         *)
(* A message is its place, its role and the run it belongs to; every       *)
(* message costs the same share of the history budget.  What governance    *)
(* makes of a write is a choice, except that a tainted one is held.        *)
(***************************************************************************)
EXTENDS Naturals, FiniteSets

CONSTANTS
    Runs,        \* requests to /chat and /chat/stream, each made once
    Streaming,   \* those to /chat/stream
    MaxSteps,    \* max_steps of a request
    MaxCalls,    \* tool calls in one completion, at most
    Budget,      \* HISTORY_BUDGET_CHARS, in messages
    MaxClears    \* how often somebody starts again

ASSUME ConversationAssumption ==
    /\ Streaming \subseteq Runs
    /\ MaxSteps \in Nat \ {0} /\ MaxCalls \in Nat \ {0}
    /\ Budget \in Nat \ {0} /\ MaxClears \in Nat

VARIABLES
    rows,      \* the ConversationRow table of this principal
    pc, steps, \* per run: where it is, and the model calls it has made
    calls,     \* calls of the completion still to make
    result,    \* what came of the call made last, until it is rendered
    taint,     \* the run's TaintTracker.tainted
    saw,       \* chat_stream's saw_untrusted
    top,       \* the highest sequence number append read
    clearing,  \* the rows a clear has read and will delete
    clears,    \* clears begun
    (* history, written and never read *)
    heard,     \* untrusted content this run has put before the model
    carries,   \* ... or was in the history replayed to it
    loose      \* a write ran without a person after that

vars == <<rows, pc, steps, calls, result, taint, saw, top, clearing, clears,
          heard, carries, loose>>

runVars   == <<steps, calls, result>>
taintVars == <<taint, saw, heard, carries>>
clearVars == <<clearing, clears>>

Message == [seq : Nat, role : {"user", "assistant"}, tainted : BOOLEAN, by : Runs]
PCs     == {"idle", "thinking", "calling", "returned", "remembering", "appending", "done"}
ToolKinds == {"internal_read", "untrusted_read", "write"}

TypeOK ==
    /\ rows \subseteq Message
    /\ pc \in [Runs -> PCs]
    /\ steps \in [Runs -> 0..MaxSteps] /\ calls \in [Runs -> 0..MaxCalls]
    /\ result \in [Runs -> ToolKinds \cup {"none", "failed"}]
    /\ taint \in [Runs -> BOOLEAN] /\ saw \in [Runs -> BOOLEAN]
    /\ top \in [Runs -> Nat]
    /\ clearing \subseteq rows /\ clears \in 0..MaxClears
    /\ heard \in [Runs -> BOOLEAN] /\ carries \in [Runs -> BOOLEAN]
    /\ loose \in [Runs -> BOOLEAN]

Init ==
    /\ rows = {}
    /\ pc = [r \in Runs |-> "idle"]
    /\ steps = [r \in Runs |-> 0] /\ calls = [r \in Runs |-> 0]
    /\ result = [r \in Runs |-> "none"]
    /\ taint = [r \in Runs |-> FALSE] /\ saw = [r \in Runs |-> FALSE]
    /\ top = [r \in Runs |-> 0]
    /\ clearing = {} /\ clears = 0
    /\ heard = [r \in Runs |-> FALSE] /\ carries = [r \in Runs |-> FALSE]
    /\ loose = [r \in Runs |-> FALSE]

Goto(r, label) == pc' = [pc EXCEPT ![r] = label]

(* The run is over and what it kept of its own is gone *)
Ends(r) ==
    /\ Goto(r, "done")
    /\ steps' = [steps EXCEPT ![r] = 0] /\ calls' = [calls EXCEPT ![r] = 0]
    /\ result' = [result EXCEPT ![r] = "none"]
    /\ taint' = [taint EXCEPT ![r] = FALSE] /\ saw' = [saw EXCEPT ![r] = FALSE]
    /\ heard' = [heard EXCEPT ![r] = FALSE]
    /\ top' = [top EXCEPT ![r] = 0]

-----------------------------------------------------------------------------
(* ConversationStore.history: the newest rows that fit the budget *)
Kept == {x \in rows : Cardinality({y \in rows : y.seq > x.seq}) < Budget}

Start(r) ==
    /\ pc[r] = "idle"
    /\ Goto(r, "thinking")
    /\ taint' = [taint EXCEPT ![r] = \E x \in Kept : x.tainted]
    /\ saw' = [saw EXCEPT ![r] = \E x \in Kept : x.tainted]
    /\ carries' = [carries EXCEPT ![r] = \E x \in Kept : carries[x.by]]
    /\ UNCHANGED <<rows, runVars, top, clearVars, heard, loose>>

(* for step in range(max_steps) *)
InBudget(r) == steps[r] < MaxSteps

(* One model call.  An answer ends the run; so does an engine that fails,  *)
(* is busy or says nothing, and the end of the budget, and then there is no*)
(* turn to remember                                                        *)
Answers(r) ==
    /\ pc[r] = "thinking" /\ InBudget(r)
    /\ Goto(r, "remembering")
    /\ UNCHANGED <<rows, runVars, taintVars, top, clearVars, loose>>

NoAnswer(r) ==
    /\ pc[r] = "thinking"
    /\ Ends(r)
    /\ UNCHANGED <<rows, carries, clearVars, loose>>

(* variant: only the first completion counts against the budget *)
StepSpentOnce(r) == [steps EXCEPT ![r] = 1]

StepSpent(r) == [steps EXCEPT ![r] = @ + 1]

AsksForTools(r, n) ==
    /\ pc[r] = "thinking" /\ InBudget(r)
    /\ steps' = StepSpent(r)
    /\ calls' = [calls EXCEPT ![r] = n]
    /\ Goto(r, "calling")
    /\ UNCHANGED <<rows, result, taintVars, top, clearVars, loose>>

(* _invoke: the name or arguments do not resolve, the gateway refuses, the *)
(* connector fails, or governance holds the write                          *)
CallFails(r) ==
    /\ pc[r] = "calling"
    /\ result' = [result EXCEPT ![r] = "failed"]
    /\ Goto(r, "returned")
    /\ UNCHANGED <<rows, steps, calls, taintVars, top, clearVars, loose>>

CallSucceeds(r, t) ==
    /\ pc[r] = "calling"
    /\ t = "write" => ~taint[r]
    /\ result' = [result EXCEPT ![r] = t]
    /\ loose' = [loose EXCEPT ![r] = @ \/ (t = "write" /\ heard[r])]
    /\ Goto(r, "returned")
    /\ UNCHANGED <<rows, steps, calls, taintVars, top, clearVars>>

Untrusted(r) == result[r] = "untrusted_read"

(* variant: the tracker follows the last result *)
ObservedLast(r) == Untrusted(r)

(* TaintTracker.observe, called by _render_for_model for a result that is ok *)
Observed(r) == taint[r] \/ Untrusted(r)

(* The stream reports the result, with the taint so far, before it is      *)
(* rendered for the model                                                  *)
Rendered(r) ==
    /\ pc[r] = "returned"
    /\ saw' = [saw EXCEPT ![r] = @ \/ taint[r]]
    /\ taint' = [taint EXCEPT ![r] = Observed(r)]
    /\ heard' = [heard EXCEPT ![r] = @ \/ Untrusted(r)]
    /\ carries' = [carries EXCEPT ![r] = @ \/ Untrusted(r)]
    /\ calls' = [calls EXCEPT ![r] = @ - 1]
    /\ result' = [result EXCEPT ![r] = "none"]
    /\ Goto(r, IF calls[r] = 1 THEN "thinking" ELSE "calling")
    /\ UNCHANGED <<rows, steps, top, clearVars, loose>>

(* The client goes away: the generator is closed where it stands *)
Disconnects(r) ==
    /\ r \in Streaming /\ pc[r] \notin {"idle", "done"}
    /\ Ends(r)
    /\ UNCHANGED <<rows, carries, clearVars, loose>>

-----------------------------------------------------------------------------
(* ConversationStore.append, called with the question and the answer.  The *)
(* primary key is (principal, seq): of two appends that read the same      *)
(* highest number, the second fails and its turn is lost                   *)
Highest(S) == IF S = {} THEN 0 ELSE CHOOSE n \in {x.seq : x \in S} : \A x \in S : x.seq <= n

AppendRead(r) ==
    /\ pc[r] = "remembering"
    /\ top' = [top EXCEPT ![r] = Highest(rows)]
    /\ Goto(r, "appending")
    /\ UNCHANGED <<rows, runVars, taintVars, clearVars, loose>>

(* Only a tool's message is marked, and the routes append none *)
RowTainted(tainted, role) == tainted /\ role = "tool"

Turn(r) ==
    LET tainted == IF r \in Streaming THEN saw[r] ELSE taint[r] IN
    {[seq |-> top[r] + 1, role |-> "user", by |-> r, tainted |-> RowTainted(tainted, "user")],
     [seq |-> top[r] + 2, role |-> "assistant", by |-> r,
      tainted |-> RowTainted(tainted, "assistant")]}

(* variant: no key guards the sequence number *)
NoClash(r) == FALSE

Clash(r) == \E x \in rows : x.seq \in {top[r] + 1, top[r] + 2}

AppendWrite(r) ==
    /\ pc[r] = "appending" /\ ~Clash(r)
    /\ rows' = rows \cup Turn(r)
    /\ Ends(r)
    /\ UNCHANGED <<carries, clearVars, loose>>

AppendFails(r) ==
    /\ pc[r] = "appending" /\ Clash(r)
    /\ Ends(r)
    /\ UNCHANGED <<rows, carries, clearVars, loose>>

(* ConversationStore.clear selects the rows, then deletes those *)
ClearRead ==
    /\ clears < MaxClears /\ clearing = {} /\ rows # {}
    /\ clearing' = rows
    /\ clears' = clears + 1
    /\ UNCHANGED <<rows, pc, runVars, taintVars, top, loose>>

ClearWrite ==
    /\ clearing # {}
    /\ rows' = rows \ clearing
    /\ clearing' = {}
    /\ UNCHANGED <<pc, runVars, taintVars, top, clears, loose>>

RunStep(r) ==
    \/ Start(r) \/ Answers(r) \/ NoAnswer(r)
    \/ \E n \in 1..MaxCalls : AsksForTools(r, n)
    \/ CallFails(r) \/ \E t \in ToolKinds : CallSucceeds(r, t)
    \/ Rendered(r)
    \/ AppendRead(r) \/ AppendWrite(r) \/ AppendFails(r)

Next ==
    \/ \E r \in Runs : RunStep(r) \/ Disconnects(r)
    \/ ClearRead \/ ClearWrite

(* A request that was begun is driven on: the engine's client and the      *)
(* gateway's have timeouts, and the database answers                       *)
Progress(r) == pc[r] # "idle" /\ RunStep(r)
Fairness == \A r \in Runs : WF_vars(Progress(r))

Spec == Init /\ [][Next]_vars /\ Fairness

-----------------------------------------------------------------------------
(* Properties *)

(* Once a run has put untrusted content before the model, no write of that *)
(* run goes through without a person, whatever it read since (TaintTracker *)
(* is monotonic and calls are sequential).                                 *)
NoUnattendedAfterRead == \A r \in Runs : ~loose[r]

(* The stored conversation is always a sequence of whole turns, each a     *)
(* question and its answer next to each other, however tabs append and     *)
(* start again at once.                                                    *)
Whole(S) ==
    /\ \A x, y \in S : x.seq = y.seq => x = y
    /\ \A x \in S : x.role = (IF x.seq % 2 = 1 THEN "user" ELSE "assistant")
    /\ \A x \in S : \E y \in S :
          y.by = x.by /\ y.seq = (IF x.role = "user" THEN x.seq + 1 ELSE x.seq - 1)
WholeTurns == Whole(rows)

(* Every run ends (the loop always terminates: every path spends budget).  *)
EveryRunEnds == \A r \in Runs : pc[r] = "thinking" ~> pc[r] = "done"

(* A run whose history was shaped by untrusted content starts tainted.     *)
TaintFollowsHistory ==
    \A r \in Runs : pc[r] \notin {"idle", "done"} /\ carries[r] => taint[r]

-----------------------------------------------------------------------------
(* The inductive invariants behind the theorems of ConversationProofs *)

(* A run that is making calls has one left to account for *)
CallInv == \A r \in Runs : pc[r] \in {"calling", "returned"} => calls[r] # 0

(* Whatever a run has put before the model has marked its tracker *)
TaintInv ==
    /\ NoUnattendedAfterRead
    /\ \A r \in Runs : heard[r] => taint[r] /\ pc[r] # "idle"

(* Every set of stored rows has a last one; what a clear will delete is    *)
(* whole; a run appends after a whole turn                                 *)
Last(S) == \E x \in S : \A y \in S : y.seq <= x.seq
TurnInv ==
    /\ WholeTurns /\ Whole(clearing)
    /\ \A S \in SUBSET rows : S # {} => Last(S)
    /\ \A r \in Runs : pc[r] = "appending" => top[r] % 2 = 0
=============================================================================
