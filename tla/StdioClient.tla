---------------------------- MODULE StdioClient ----------------------------
(***************************************************************************)
(* StdioMcpClient: JSON-RPC requests to one MCP server over its stdin and  *)
(* stdout, from its launch to aclose.  Requests register a future, write   *)
(* under a lock, and wait with a deadline; one reader task settles the     *)
(* futures.  The server is a third party's process: it may answer any      *)
(* request at any time, several times or never, print rubbish, close its   *)
(* output, stop reading or die.                                            *)
(*                                                                         *)
(* A request is named by its id.  Hello is the handshake's, the first.     *)
(* What is in a message is left out, but for its being one the reader does *)
(* not survive.                                                            *)
(***************************************************************************)
EXTENDS Integers, Sequences, SequencesExt

CONSTANTS Requests, Hello

ASSUME StdioAssumption == Hello \in Requests

VARIABLES
    phase,    \* of the client, from start to the end of aclose
    served,   \* the handshake was completed: the client is in the catalog
    proc,     \* the server process; "reaped" once its returncode is set
    reader,   \* the _read_loop task
    pending,  \* _pending, the requests whose future the reader can find
    lock,     \* _write_lock: its holder, then who waits for it
    pc, fut,  \* each request, and its future
    (* history *)
    garbled,  \* the server has sent a line beyond the reader
    dropped   \* requests whose own answer was such a line

vars == <<phase, served, proc, reader, pending, lock, pc, fut, garbled, dropped>>

Phases  == {"new", "starting", "ready", "stopping", "killing", "closed", "left"}
Procs   == {"none", "running", "exited", "reaped"}
Readers == {"none", "reading", "ended", "crashed", "cancelled"}
Futures == {"none", "pending", "result", "error", "cancelled"}
Open    == {"queued", "sending", "awaiting", "expiring", "cancelling"}
Ended   == {"answered", "failed", "timed_out", "cancelled"}

TypeOK ==
    /\ phase \in Phases /\ served \in BOOLEAN
    /\ proc \in Procs /\ reader \in Readers
    /\ pending \subseteq Requests /\ lock \in Seq(Requests)
    /\ pc \in [Requests -> {"idle"} \cup Open \cup Ended]
    /\ fut \in [Requests -> Futures]
    /\ garbled \in BOOLEAN /\ dropped \subseteq Requests

Init ==
    /\ phase = "new" /\ served = FALSE
    /\ proc = "none" /\ reader = "none"
    /\ pending = {} /\ lock = <<>>
    /\ pc = [r \in Requests |-> "idle"]
    /\ fut = [r \in Requests |-> "none"]
    /\ garbled = FALSE /\ dropped = {}

client == <<phase, served>>
server == <<proc, reader, garbled, dropped>>

Attached == phase \in {"starting", "ready", "stopping"}
Alive == Attached /\ proc # "reaped"

(* _fail_pending *)
FailPending ==
    /\ fut' = [r \in Requests |->
                 IF r \in pending /\ fut[r] = "pending" THEN "error" ELSE fut[r]]
    /\ pending' = {}

-----------------------------------------------------------------------------
(* A request.  It registers its future before it asks whether the server   *)
(* is there, and takes it out again on every way it ends.                  *)

(* The write lock once r has let go of it, or no longer waits for it *)
Without(q, r) ==
    IF \E i \in 1..Len(q) : q[i] = r
    THEN RemoveAt(q, CHOOSE i \in 1..Len(q) : q[i] = r) ELSE q

(* variant: a request that timed out stays registered *)
LeaveRegistered(r, label) ==
    /\ pc' = [pc EXCEPT ![r] = label]
    /\ pending' = IF label = "timed_out" THEN pending ELSE pending \ {r}
    /\ lock' = Without(lock, r)

Leave(r, label) ==
    /\ pc' = [pc EXCEPT ![r] = label]
    /\ pending' = pending \ {r}
    /\ lock' = Without(lock, r)

Register(r) ==
    /\ pc[r] = "idle"
    /\ \/ r = Hello /\ phase = "new"
       \/ r # Hello /\ served

Refused(r) ==
    /\ Register(r) /\ r # Hello /\ ~Alive
    /\ fut' = [fut EXCEPT ![r] = "pending"]
    /\ Leave(r, "failed")
    /\ UNCHANGED <<client, server>>

Enter(r) ==
    /\ pending' = pending \cup {r}
    /\ fut' = [fut EXCEPT ![r] = "pending"]
    /\ lock' = Append(lock, r)
    /\ pc' = [pc EXCEPT ![r] = IF lock = <<>> THEN "sending" ELSE "queued"]

Request(r) ==
    /\ Register(r) /\ r # Hello /\ Alive
    /\ Enter(r)
    /\ UNCHANGED <<client, server>>

(* The lock is passed on; the process may be gone by then *)
Acquire(r) ==
    /\ pc[r] = "queued" /\ Head(lock) = r
    /\ IF Attached
       THEN pc' = [pc EXCEPT ![r] = "sending"] /\ UNCHANGED <<pending, lock>>
       ELSE Leave(r, "failed")
    /\ UNCHANGED <<client, server, fut>>

Outcome(r) == IF fut[r] = "result" THEN "answered" ELSE "failed"

(* drain returns once the server has taken what was written; a future that *)
(* is settled by then is not waited for                                    *)
Sent(r) ==
    /\ pc[r] = "sending"
    /\ IF fut[r] = "pending"
       THEN /\ pc' = [pc EXCEPT ![r] = "awaiting"]
            /\ lock' = Without(lock, r)
            /\ UNCHANGED pending
       ELSE Leave(r, Outcome(r))
    /\ UNCHANGED <<client, server, fut>>

SendFails(r) ==
    /\ pc[r] = "sending" /\ (proc # "running" \/ ~Attached)
    /\ Leave(r, "failed")
    /\ UNCHANGED <<client, server, fut>>

Returns(r) ==
    /\ pc[r] = "awaiting" /\ fut[r] \in {"result", "error"}
    /\ Leave(r, Outcome(r))
    /\ UNCHANGED <<client, server, fut>>

(* The deadline, or a cancellation, reaches a request that waits.  Its     *)
(* future is cancelled at once; the request itself runs again later.       *)
Interrupt(r, label) ==
    /\ pc[r] = "awaiting"
    /\ pc' = [pc EXCEPT ![r] = label]
    /\ fut' = [fut EXCEPT ![r] = IF @ = "pending" THEN "cancelled" ELSE @]
    /\ UNCHANGED <<client, server, pending, lock>>

(* variant: no deadline *)
NoDeadline(r) == FALSE /\ UNCHANGED vars

Deadline(r) == Interrupt(r, "expiring")

Expires(r) ==
    /\ pc[r] = "expiring"
    /\ Leave(r, "timed_out")
    /\ UNCHANGED <<client, server, fut>>

(* The gateway's caller goes away *)
Cancel(r) == r # Hello /\ Interrupt(r, "cancelling")

Cancelled(r) ==
    /\ r # Hello /\ pc[r] \in {"queued", "sending", "cancelling"}
    /\ Leave(r, "cancelled")
    /\ UNCHANGED <<client, server, fut>>

-----------------------------------------------------------------------------
(* The reader: a line that answers r, whoever asked for it; a line it does *)
(* not survive; the end of the output.  A line that is no JSON, or is a    *)
(* notification, changes nothing.                                          *)
Waiting(r) == r \in pending /\ fut[r] = "pending"

(* variant: the future is settled without asking whether it is done *)
DispatchAnyway(r, f) ==
    /\ IF r \in pending /\ fut[r] # "pending"
       THEN reader' = "crashed" /\ UNCHANGED fut
       ELSE /\ fut' = IF r \in pending THEN [fut EXCEPT ![r] = f] ELSE fut
            /\ UNCHANGED reader
    /\ pending' = pending \ {r}
    /\ UNCHANGED <<client, proc, garbled, dropped, lock, pc>>

Dispatch(r, f) ==
    /\ fut' = IF Waiting(r) THEN [fut EXCEPT ![r] = f] ELSE fut
    /\ pending' = pending \ {r}
    /\ UNCHANGED <<client, server, lock, pc>>

ReadAnswer(r) == reader = "reading" /\ \E f \in {"result", "error"} : Dispatch(r, f)

(* An answer whose error is no object: the future is taken out, and what   *)
(* would settle it raises.  For a request that has gone it is never looked *)
(* at.                                                                     *)
ReadBadError(r) ==
    /\ reader = "reading" /\ garbled' = TRUE
    /\ pending' = pending \ {r}
    /\ IF Waiting(r)
       THEN reader' = "crashed" /\ dropped' = dropped \cup {r}
       ELSE UNCHANGED <<reader, dropped>>
    /\ UNCHANGED <<client, proc, lock, pc, fut>>

(* A line longer than the limit of the stream, or not UTF-8; JSON that is  *)
(* no object, or whose id cannot be a key                                  *)
ReadUnreadable ==
    /\ reader = "reading"
    /\ reader' = "crashed" /\ garbled' = TRUE
    /\ UNCHANGED <<client, proc, dropped, pending, lock, pc, fut>>

ReadEnd ==
    /\ reader = "reading"
    /\ reader' = "ended"
    /\ FailPending
    /\ UNCHANGED <<client, proc, garbled, dropped, lock, pc>>

ServerExits ==
    /\ proc = "running" /\ proc' = "exited"
    /\ UNCHANGED <<client, reader, garbled, dropped, pending, lock, pc, fut>>

ServerReaped ==
    /\ proc = "exited" /\ proc' = "reaped"
    /\ UNCHANGED <<client, reader, garbled, dropped, pending, lock, pc, fut>>

-----------------------------------------------------------------------------
(* start and aclose *)
StartFails ==
    /\ phase = "new" /\ phase' = "left"
    /\ UNCHANGED <<served, server, pending, lock, pc, fut>>

Start ==
    /\ Register(Hello)
    /\ phase' = "starting" /\ proc' = "running" /\ reader' = "reading"
    /\ Enter(Hello)
    /\ UNCHANGED <<served, garbled, dropped>>

HandshakeAccepted ==
    /\ phase = "starting" /\ pc[Hello] = "answered"
    /\ phase' = "ready" /\ served' = TRUE
    /\ UNCHANGED <<server, pending, lock, pc, fut>>

(* aclose, by a handshake that failed or the application's shutdown, stops *)
(* the reader, lets go of the process, gives it its time, and then fails   *)
(* who still waits; it returns early for a process that is gone already    *)
CloseBegin ==
    /\ phase = "ready" \/ (phase = "starting" /\ pc[Hello] \in Ended)
    /\ phase' = "stopping"
    /\ reader' = IF reader = "reading" THEN "cancelled" ELSE reader
    /\ UNCHANGED <<served, proc, garbled, dropped, pending, lock, pc, fut>>

CloseLetsGo ==
    /\ phase = "stopping"
    /\ phase' = IF proc = "reaped" THEN "left" ELSE "killing"
    /\ UNCHANGED <<served, server, pending, lock, pc, fut>>

(* variant: nobody is told *)
CloseKillsSilently ==
    /\ phase = "killing" /\ phase' = "closed"
    /\ proc' = "reaped"
    /\ UNCHANGED <<served, reader, garbled, dropped, pending, lock, pc, fut>>

CloseKills ==
    /\ phase = "killing" /\ phase' = "closed"
    /\ proc' = "reaped"
    /\ FailPending
    /\ UNCHANGED <<served, reader, garbled, dropped, lock, pc>>

-----------------------------------------------------------------------------
Step(r) ==
    \/ Refused(r) \/ Request(r) \/ Acquire(r) \/ Sent(r) \/ SendFails(r) \/ Returns(r)
    \/ Deadline(r) \/ Expires(r) \/ Cancel(r) \/ Cancelled(r)
    \/ ReadAnswer(r) \/ ReadBadError(r)

Next ==
    \/ \E r \in Requests : Step(r)
    \/ ReadUnreadable \/ ReadEnd \/ ServerExits \/ ServerReaped
    \/ StartFails \/ Start \/ HandshakeAccepted \/ CloseBegin \/ CloseLetsGo \/ CloseKills

(* The loop runs what is ready and fires its timers, a dead process breaks *)
(* the pipe                                                                *)
LoopFairness ==
    \A r \in Requests :
        /\ WF_vars(Acquire(r)) /\ WF_vars(SendFails(r))
        /\ WF_vars(Returns(r)) /\ WF_vars(Deadline(r)) /\ WF_vars(Expires(r))
        /\ WF_vars(Cancelled(r) /\ pc[r] = "cancelling")

(* The server takes what is written to it or dies: _send has no deadline   *)
ServerReads == \A r \in Requests : WF_vars(Sent(r) \/ SendFails(r))

Spec == Init /\ [][Next]_vars /\ LoopFairness /\ ServerReads

-----------------------------------------------------------------------------
(* Properties *)

(* Nobody waits, or is about to wait, for a future the reader cannot find, *)
(* and nobody who has gone is still registered, however answers, deadlines,*)
(* cancellations and the death of the server fall (_pending in _request,   *)
(* _dispatch and _fail_pending).  There is one exception at the most: the  *)
(* request whose answer brought the reader down.                           *)
Registered ==
    /\ \A r \in Requests :
          pc[r] \in {"queued", "sending", "awaiting"} /\ fut[r] = "pending" =>
              r \in pending \/ r \in dropped
    /\ \A r \in pending : pc[r] \in Open
    /\ \A r \in dropped :
          /\ reader = "crashed" /\ r \notin pending /\ pc[r] # "idle"
          /\ \A other \in dropped : other = r

(* The reader is only ever lost to a line that is no answer it could use:  *)
(* answers that come late, twice or unasked for leave it running (_dispatch*)
(* looks whether the future is done).                                      *)
ReaderSurvives == reader = "crashed" => garbled

(* "A malformed line is not fatal ... let alone the loop reading it" (the  *)
(* module's docstring), whatever a server prints.                          *)
NoLineIsFatal == reader # "crashed"

(* When aclose has waited for the process, everybody who was waiting has   *)
(* been told, but for the one whose answer brought the reader down, and    *)
(* nobody can have come since.                                             *)
ShutdownSettles ==
    phase = "closed" =>
        \A r \in Requests \ dropped : pc[r] = "awaiting" => fut[r] # "pending"

CallStage(r) ==
    CASE pc[r] = "idle" -> "unasked"
      [] pc[r] \in {"queued", "sending", "awaiting"} -> "waiting"
      [] pc[r] \in {"expiring", "cancelling"} -> "quitting"
      [] OTHER -> "over"

Client == INSTANCE RemoteCalls
          WITH Callers <- Requests, shut <- phase = "closed", lost <- dropped,
               stage <- [r \in Requests |-> CallStage(r)],
               word <- [r \in Requests |-> IF fut[r] \in {"result", "error"} THEN fut[r] ELSE "none"],
               outcome <- [r \in Requests |-> IF pc[r] \in Ended THEN pc[r] ELSE "none"]

(* For its callers the client is a set of calls, each with one answer at   *)
(* the most: registered futures, the lock, the reader, the handshake and   *)
(* the order in which answers, deadlines, cancellations and the server's   *)
(* death come show in no other way.                                        *)
ImplementsCalls == Client!Spec

(* Every request ends, whatever the server does short of not reading its   *)
(* input (a dead server must not hang the assistant).                      *)
RequestsEnd == \A r \in Requests : pc[r] \in Open ~> pc[r] \in Ended

(* "Every request has a deadline" (the module's docstring), the one that   *)
(* writes and those that queue behind it for _write_lock too.              *)
DeadlineBeforeTheAnswer ==
    \A r \in Requests : pc[r] \in {"queued", "sending"} ~> pc[r] \notin {"queued", "sending"}

-----------------------------------------------------------------------------
(* What ImplementsCalls rests on, with the invariants above: a request     *)
(* that waits has a future nobody has cancelled, one that was interrupted  *)
(* has one that nobody can settle any more, and one that has not come has  *)
(* none.                                                                   *)
FutureInv ==
    \A r \in Requests :
        /\ pc[r] \in {"queued", "sending", "awaiting"} => fut[r] \in {"pending", "result", "error"}
        /\ pc[r] \in {"expiring", "cancelling"} => fut[r] # "pending"
        /\ pc[r] = "idle" => fut[r] = "none"
=============================================================================
