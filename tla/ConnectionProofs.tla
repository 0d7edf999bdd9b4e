-------------------------- MODULE ConnectionProofs --------------------------
(***************************************************************************)
(* Theorems about the service's links to others: StdioClient for any       *)
(* number of requests, ToolPins for any tools, versions and hints, and     *)
(* VendorWrites for any number of attempts and of a colleague's edits.     *)
(***************************************************************************)
EXTENDS StdioClient, ToolPins, VendorWrites, SequenceTheorems, TLAPS

(* StdioClient *)

(* Who was waiting when aclose let the process go is known to it: nobody   *)
(* is registered once it has told them, and nobody comes without a process *)
(* behind the client.  There is no reader before the start, and a crashed  *)
(* one was brought down by a line.                                         *)
ClientInv ==
    /\ TypeOK /\ Registered /\ ReaderSurvives
    /\ phase = "new" => reader = "none"
    /\ phase = "closed" => pending = {}

(* Letting go of the lock leaves a queue of requests. *)
LEMMA WithoutType ==
  ASSUME NEW q \in Seq(Requests), NEW r PROVE Without(q, r) \in Seq(Requests)
<1>1. CASE \E i \in 1..Len(q) : q[i] = r
  <2> DEFINE i == CHOOSE j \in 1..Len(q) : q[j] = r
  <2>1. i \in 1..Len(q)
    BY <1>1
  <2>2. Without(q, r) = SubSeq(q, 1, i - 1) \o SubSeq(q, i + 1, Len(q))
    BY <1>1 DEF Without, RemoveAt
  <2> HIDE DEF i
  <2>3. i \in Int /\ i - 1 \in Int /\ i + 1 \in Int /\ Len(q) \in Int
        /\ \A k \in 1..Len(q) : q[k] \in Requests
    BY <2>1
  <2>4. SubSeq(q, 1, i - 1) \in Seq(Requests)
    <3>1. \A k \in 1..(i - 1) : q[k] \in Requests
      BY <2>1, <2>3
    <3> QED
      BY <2>3, <3>1, SubSeqProperties
  <2>5. SubSeq(q, i + 1, Len(q)) \in Seq(Requests)
    <3>1. \A k \in (i + 1)..Len(q) : q[k] \in Requests
      BY <2>1, <2>3
    <3> QED
      BY <2>3, <3>1, SubSeqProperties
  <2> QED
    BY <2>2, <2>4, <2>5, ConcatProperties
<1>2. CASE ~\E i \in 1..Len(q) : q[i] = r
  BY <1>2 DEF Without
<1> QED
  BY <1>1, <1>2

(* A request that leaves is registered no more, and disturbs nobody. *)
LEMMA LeaveKeeps ==
  ASSUME ClientInv, NEW r \in Requests, NEW label \in Ended, Leave(r, label),
         UNCHANGED <<client, server>>,
         fut' = fut \/ (fut' = [fut EXCEPT ![r] = "pending"])
  PROVE  ClientInv'
<1>1. lock' \in Seq(Requests) /\ pending' = pending \ {r} /\ pc' = [pc EXCEPT ![r] = label]
  BY WithoutType DEF Leave, ClientInv, TypeOK
<1>2. TypeOK'
  BY <1>1 DEF ClientInv, TypeOK, client, server, Futures, Ended
<1>3. Registered'
  BY <1>1 DEF ClientInv, TypeOK, Registered, Ended, Open, server
<1> QED
  BY <1>1, <1>2, <1>3 DEF ClientInv, ReaderSurvives, client, server

(* Failing everybody who is registered leaves nobody waiting for nothing.  *)
LEMMA FailKeeps ==
  ASSUME TypeOK, Registered, FailPending, UNCHANGED <<lock, pc, dropped>>,
         reader' = reader \/ dropped = {}
  PROVE  Registered' /\ pending' = {} /\ fut' \in [Requests -> Futures]
BY DEF TypeOK, Registered, FailPending, Futures

(* Every step of a request. *)
LEMMA StepKeeps == ASSUME ClientInv, NEW r \in Requests, Step(r) PROVE ClientInv'
<1>1. CASE Refused(r)
  BY <1>1, LeaveKeeps DEF Refused, Ended
<1>2. CASE Request(r)
  <2>1. /\ pending' = pending \cup {r} /\ fut' = [fut EXCEPT ![r] = "pending"]
        /\ lock' = Append(lock, r) /\ UNCHANGED <<client, server>>
        /\ pc' = [pc EXCEPT ![r] = "sending"] \/ pc' = [pc EXCEPT ![r] = "queued"]
        /\ phase # "closed" /\ pc[r] = "idle"
    BY <1>2 DEF Request, Register, Enter, Alive, Attached
  <2>2. TypeOK'
    BY <2>1 DEF ClientInv, TypeOK, client, server, Futures, Open
  <2>3. Registered'
    BY <2>1 DEF ClientInv, TypeOK, Registered, Open, server
  <2> QED
    BY <2>1, <2>2, <2>3 DEF ClientInv, ReaderSurvives, client, server
<1>3. CASE Acquire(r)
  <2>1. CASE Attached
    <3>1. pc[r] = "queued" /\ pc' = [pc EXCEPT ![r] = "sending"]
          /\ UNCHANGED <<client, server, fut, pending, lock>>
      BY <1>3, <2>1 DEF Acquire
    <3> QED
      BY <3>1 DEF ClientInv, TypeOK, Registered, ReaderSurvives, client, server, Open
  <2>2. CASE ~Attached
    BY <1>3, <2>2, LeaveKeeps DEF Acquire, Ended
  <2> QED
    BY <2>1, <2>2
<1>4. CASE Sent(r)
  <2>1. CASE fut[r] = "pending"
    <3>1. pc[r] = "sending" /\ pc' = [pc EXCEPT ![r] = "awaiting"] /\ lock' \in Seq(Requests)
          /\ UNCHANGED <<client, server, fut, pending>>
      BY <1>4, <2>1, WithoutType DEF Sent, ClientInv, TypeOK
    <3>2. TypeOK'
      BY <3>1 DEF ClientInv, TypeOK, client, server, Open
    <3>4. Registered'
      BY <2>1, <3>1 DEF ClientInv, TypeOK, Registered, Open, server
    <3>3. /\ ReaderSurvives' /\ (phase' = "closed" => pending' = {})
          /\ phase' = "new" => reader' = "none"
      <4>1. phase' = phase /\ reader' = reader /\ garbled' = garbled /\ pending' = pending
        BY <3>1 DEF client, server
      <4> QED
        BY <4>1 DEF ClientInv, ReaderSurvives
    <3> QED
      BY <3>2, <3>3, <3>4 DEF ClientInv
  <2>2. CASE fut[r] # "pending"
    BY <1>4, <2>2, LeaveKeeps DEF Sent, Outcome, Ended
  <2> QED
    BY <2>1, <2>2
<1>5. CASE SendFails(r) \/ Returns(r) \/ Expires(r) \/ Cancelled(r)
  BY <1>5, LeaveKeeps DEF SendFails, Returns, Expires, Cancelled, Outcome, Ended
<1>6. CASE Deadline(r) \/ Cancel(r)
  <2>1. /\ pc[r] = "awaiting" /\ UNCHANGED <<client, server, pending, lock>>
        /\ pc' = [pc EXCEPT ![r] = "expiring"] \/ pc' = [pc EXCEPT ![r] = "cancelling"]
        /\ fut' = [fut EXCEPT ![r] = IF @ = "pending" THEN "cancelled" ELSE @]
    BY <1>6 DEF Deadline, Cancel, Interrupt
  <2>2. TypeOK'
    BY <2>1 DEF ClientInv, TypeOK, client, server, Futures, Open
  <2>3. Registered'
    BY <2>1 DEF ClientInv, TypeOK, Registered, Open, server
  <2> QED
    BY <2>1, <2>2, <2>3 DEF ClientInv, ReaderSurvives, client, server
<1>7. CASE ReadAnswer(r)
  <2>1. PICK f \in {"result", "error"} :
          /\ fut' = IF Waiting(r) THEN [fut EXCEPT ![r] = f] ELSE fut
          /\ pending' = pending \ {r} /\ UNCHANGED <<client, server, lock, pc>>
    BY <1>7 DEF ReadAnswer, Dispatch
  <2>2. TypeOK'
    BY <2>1 DEF ClientInv, TypeOK, client, server, Futures
  <2>3. Registered'
    BY <2>1 DEF ClientInv, TypeOK, Registered, Waiting, server
  <2> QED
    BY <2>1, <2>2, <2>3 DEF ClientInv, ReaderSurvives, client, server
<1>8. CASE ReadBadError(r)
  <2>1. /\ reader = "reading" /\ garbled' = TRUE /\ pending' = pending \ {r}
        /\ UNCHANGED <<client, proc, lock, pc, fut>>
        /\ \/ Waiting(r) /\ reader' = "crashed" /\ dropped' = dropped \cup {r}
           \/ ~Waiting(r) /\ UNCHANGED <<reader, dropped>>
    BY <1>8 DEF ReadBadError
  <2>2. dropped = {}
    BY <2>1 DEF ClientInv, Registered
  <2>3. TypeOK'
    BY <2>1 DEF ClientInv, TypeOK, client, Readers
  <2>4. Registered'
    <3>1. r \in pending => pc[r] # "idle"
      BY DEF ClientInv, Registered, Open
    <3>2. \A x \in pending' : x \in pending
      BY <2>1
    <3> QED
      BY <2>1, <2>2, <3>1, <3>2 DEF ClientInv, Registered, Waiting
  <2> QED
    BY <2>1, <2>3, <2>4 DEF ClientInv, ReaderSurvives, client
<1> QED
  BY <1>1, <1>2, <1>3, <1>4, <1>5, <1>6, <1>7, <1>8 DEF Step

(* The futures of every client are accounted for in every reachable state. *)
THEOREM ClientCorrect == Spec => []ClientInv
<1>1. Init => ClientInv
  <2>1. Init => TypeOK
    <3> SUFFICES ASSUME Init PROVE TypeOK
      OBVIOUS
    <3>1. served \in BOOLEAN /\ garbled \in BOOLEAN /\ dropped \subseteq Requests
      BY DEF Init
    <3>2. lock \in Seq(Requests)
      BY DEF Init
    <3>3. pc \in [Requests -> {"idle"} \cup Open \cup Ended] /\ fut \in [Requests -> Futures]
      BY DEF Init, Futures
    <3> QED
      BY <3>1, <3>2, <3>3 DEF Init, TypeOK, Phases, Procs, Readers
  <2>2. Init => Registered /\ pending = {}
    BY DEF Init, Registered
  <2> QED
    BY <2>1, <2>2 DEF Init, ClientInv, ReaderSurvives
<1>2. ClientInv /\ [Next]_vars => ClientInv'
  <2> SUFFICES ASSUME ClientInv, [Next]_vars PROVE ClientInv'
    OBVIOUS
  <2>1. ASSUME NEW r \in Requests, Step(r) PROVE ClientInv'
    BY <2>1, StepKeeps
  <2>2. CASE ReadUnreadable \/ ServerExits \/ ServerReaped \/ StartFails \/ HandshakeAccepted
             \/ CloseBegin \/ CloseLetsGo
    <3> USE DEF ClientInv, TypeOK, Registered, ReaderSurvives, client, server, Phases, Procs, Readers
    <3>1. CASE ReadUnreadable \/ HandshakeAccepted \/ StartFails
      BY <3>1 DEF ReadUnreadable, HandshakeAccepted, StartFails
    <3>2. CASE ServerExits \/ ServerReaped
      BY <3>2 DEF ServerExits, ServerReaped
    <3>3. CASE CloseBegin \/ CloseLetsGo
      BY <3>3 DEF CloseBegin, CloseLetsGo
    <3> QED
      BY <2>2, <3>1, <3>2, <3>3
  <2>3. CASE ReadEnd
    <3>1. dropped = {}
      BY <2>3 DEF ReadEnd, ClientInv, Registered
    <3> QED
      BY <2>3, <3>1, FailKeeps DEF ReadEnd, ClientInv, TypeOK, ReaderSurvives, client, Readers
  <2>4. CASE CloseKills
    BY <2>4, FailKeeps DEF CloseKills, ClientInv, TypeOK, ReaderSurvives, Phases, Procs
  <2>5. CASE Start
    <3>1. /\ phase' = "starting" /\ proc' = "running" /\ reader' = "reading"
          /\ UNCHANGED <<served, garbled, dropped>>
          /\ pending' = pending \cup {Hello} /\ fut' = [fut EXCEPT ![Hello] = "pending"]
          /\ lock' = Append(lock, Hello) /\ pc[Hello] = "idle"
          /\ pc' = [pc EXCEPT ![Hello] = "sending"] \/ pc' = [pc EXCEPT ![Hello] = "queued"]
      BY <2>5 DEF Start, Register, Enter
    <3>2. TypeOK'
      BY <3>1, StdioAssumption DEF ClientInv, TypeOK, Phases, Procs, Readers, Futures, Open
    <3>3. Registered'
      <4>1. dropped = {}
        BY <2>5 DEF ClientInv, Registered, Start, Register
      <4> QED
        BY <3>1, <4>1, StdioAssumption DEF ClientInv, TypeOK, Registered, Open
    <3> QED
      BY <3>1, <3>2, <3>3 DEF ClientInv, ReaderSurvives
  <2>6. CASE UNCHANGED vars
    BY <2>6 DEF vars, ClientInv, TypeOK, Registered, ReaderSurvives
  <2> QED
    BY <2>1, <2>2, <2>3, <2>4, <2>5, <2>6 DEF Next
<1> QED
  BY <1>1, <1>2, PTL DEF Spec

(* Every variable of StdioMcpClient keeps its type. *)
COROLLARY ClientTypes == Spec => []TypeOK
<1>1. ClientInv => TypeOK
  BY DEF ClientInv
<1> QED
  BY <1>1, ClientCorrect, PTL

(* Nobody waits for a future that the reader cannot find, but the one      *)
(* whose answer brought it down, nor stays registered after leaving.       *)
COROLLARY NobodyForgotten == Spec => []Registered
<1>1. ClientInv => Registered
  BY DEF ClientInv
<1> QED
  BY <1>1, ClientCorrect, PTL

(* The reader is lost to a line it cannot use, and to no answer, however   *)
(* late or often it comes.                                                 *)
COROLLARY AnswersAreHarmless == Spec => []ReaderSurvives
<1>1. ClientInv => ReaderSurvives
  BY DEF ClientInv
<1> QED
  BY <1>1, ClientCorrect, PTL

(* After aclose has waited for the process nobody is left to wait, but who *)
(* was dropped with the reader.                                            *)
COROLLARY NobodyLeftBehind == Spec => []ShutdownSettles
<1>1. ClientInv => ShutdownSettles
  BY DEF ClientInv, Registered, ShutdownSettles
<1> QED
  BY <1>1, ClientCorrect, PTL

(* Every future is in a state that its request's place in _request allows. *)
LEMMA FuturesKept == ASSUME ClientInv, FutureInv, [Next]_vars PROVE FutureInv'
<1> USE DEF FutureInv
<1>1. pc \in [Requests -> {"idle"} \cup Open \cup Ended] /\ fut \in [Requests -> Futures]
  BY DEF ClientInv, TypeOK
<1>2. ASSUME NEW r \in Requests, NEW label \in Ended, Leave(r, label),
             fut' = fut \/ (fut' = [fut EXCEPT ![r] = "pending"])
      PROVE  FutureInv'
  BY <1>1, <1>2 DEF Leave, Ended
<1>3. ASSUME NEW r \in Requests, Enter(r) PROVE FutureInv'
  BY <1>1, <1>3 DEF Enter
<1>4. ASSUME NEW r \in Requests, Interrupt(r, "expiring") \/ Interrupt(r, "cancelling") PROVE FutureInv'
  BY <1>1, <1>4 DEF Interrupt
<1>5. ASSUME NEW r \in Requests, NEW f \in {"result", "error"}, Dispatch(r, f) PROVE FutureInv'
  BY <1>1, <1>5 DEF Dispatch, Waiting
<1>6. ASSUME FailPending, UNCHANGED pc PROVE FutureInv'
  BY <1>1, <1>6 DEF FailPending
<1>7. ASSUME NEW r \in Requests, Step(r) PROVE FutureInv'
  <2>1. CASE Acquire(r)
    BY <1>1, <1>2, <2>1 DEF Acquire, Ended
  <2>2. CASE Sent(r)
    BY <1>1, <1>2, <2>2 DEF Sent, Outcome, Ended
  <2>3. CASE Refused(r) \/ SendFails(r) \/ Returns(r) \/ Expires(r) \/ Cancelled(r)
    BY <1>2, <2>3 DEF Refused, SendFails, Returns, Expires, Cancelled, Outcome, Ended
  <2>4. CASE Request(r) \/ Deadline(r) \/ Cancel(r) \/ ReadAnswer(r) \/ ReadBadError(r)
    BY <1>3, <1>4, <1>5, <2>4 DEF Request, Deadline, Cancel, ReadAnswer, ReadBadError
  <2> QED
    BY <1>7, <2>1, <2>2, <2>3, <2>4 DEF Step
<1>8. CASE ReadEnd \/ CloseKills \/ Start
  BY <1>3, <1>6, <1>8, StdioAssumption DEF ReadEnd, CloseKills, Start
<1>9. CASE UNCHANGED <<pc, fut>>
  BY <1>9
<1> QED
  BY <1>7, <1>8, <1>9 DEF Next, vars, ReadUnreadable, ServerExits, ServerReaped, StartFails,
     HandshakeAccepted, CloseBegin, CloseLetsGo

(* What a request comes to shows as the end of its call.                   *)
LEMMA LeavingEnds ==
  ASSUME ClientInv, FutureInv, NEW r \in Requests, NEW label \in Ended,
         pc' = [pc EXCEPT ![r] = label], phase' = phase, dropped' = dropped,
         fut' = fut \/ (fut[r] = "none" /\ fut' = [fut EXCEPT ![r] = "pending"])
  PROVE  Client!End(r, label)
<1>1. pc \in [Requests -> {"idle"} \cup Open \cup Ended] /\ fut \in [Requests -> Futures]
  BY DEF ClientInv, TypeOK
<1>2. \A x \in Requests : CallStage(x)' = IF x = r THEN "over" ELSE CallStage(x)
  BY <1>1 DEF CallStage, Ended
<1>3. \A x \in Requests :
         (IF fut[x] \in {"result", "error"} THEN fut[x] ELSE "none")'
           = IF fut[x] \in {"result", "error"} THEN fut[x] ELSE "none"
  BY <1>1
<1>4. \A x \in Requests :
         (IF pc[x] \in Ended THEN pc[x] ELSE "none")'
           = IF x = r THEN label ELSE IF pc[x] \in Ended THEN pc[x] ELSE "none"
  BY <1>1
<1> QED
  BY <1>2, <1>3, <1>4 DEF Client!End

(* Who comes is let in, and waits.                                         *)
LEMMA EnteringAsks ==
  ASSUME ClientInv, FutureInv, NEW r \in Requests, pc[r] = "idle", Enter(r),
         phase # "closed", phase' # "closed", dropped' = dropped
  PROVE  Client!Ask(r)
<1>1. pc \in [Requests -> {"idle"} \cup Open \cup Ended] /\ fut \in [Requests -> Futures]
  BY DEF ClientInv, TypeOK
<1>2. \A x \in Requests : CallStage(x)' = IF x = r THEN "waiting" ELSE CallStage(x)
  BY <1>1 DEF Enter, CallStage
<1>3. \A x \in Requests :
         (IF fut[x] \in {"result", "error"} THEN fut[x] ELSE "none")'
           = IF fut[x] \in {"result", "error"} THEN fut[x] ELSE "none"
  BY <1>1 DEF Enter, FutureInv
<1>4. \A x \in Requests :
         (IF pc[x] \in Ended THEN pc[x] ELSE "none")' = IF pc[x] \in Ended THEN pc[x] ELSE "none"
  BY <1>1 DEF Enter, Ended
<1>5. CallStage(r) = "unasked"
  BY DEF CallStage
<1> QED
  BY <1>2, <1>3, <1>4, <1>5 DEF Client!Ask

(* Who is interrupted quits.                                               *)
LEMMA InterruptQuits ==
  ASSUME ClientInv, FutureInv, NEW r \in Requests,
         Interrupt(r, "expiring") \/ Interrupt(r, "cancelling")
  PROVE  Client!Quit(r)
<1>1. pc \in [Requests -> {"idle"} \cup Open \cup Ended] /\ fut \in [Requests -> Futures]
  BY DEF ClientInv, TypeOK
<1>2. \A x \in Requests : CallStage(x)' = IF x = r THEN "quitting" ELSE CallStage(x)
  BY <1>1 DEF Interrupt, CallStage
<1>3. \A x \in Requests :
         (IF fut[x] \in {"result", "error"} THEN fut[x] ELSE "none")'
           = IF fut[x] \in {"result", "error"} THEN fut[x] ELSE "none"
  BY <1>1 DEF Interrupt
<1>4. \A x \in Requests :
         (IF pc[x] \in Ended THEN pc[x] ELSE "none")' = IF pc[x] \in Ended THEN pc[x] ELSE "none"
  BY <1>1 DEF Interrupt, Ended
<1>5. CallStage(r) = "waiting" /\ phase' = phase /\ dropped' = dropped
  BY DEF CallStage, Interrupt, client, server
<1> QED
  BY <1>2, <1>3, <1>4, <1>5 DEF Client!Quit

(* A line is a word to the call whose future it settles, or is not heard.  *)
LEMMA LineSays ==
  ASSUME ClientInv, FutureInv, NEW r \in Requests, NEW f \in {"result", "error"},
         reader = "reading", Dispatch(r, f)
  PROVE  Client!Say(r, f) \/ UNCHANGED Client!callVars
<1>1. pc \in [Requests -> {"idle"} \cup Open \cup Ended] /\ fut \in [Requests -> Futures]
  BY DEF ClientInv, TypeOK
<1>2. /\ pc' = pc /\ phase' = phase /\ dropped' = dropped /\ dropped = {}
      /\ \A x \in Requests : CallStage(x)' = CallStage(x)
  BY DEF Dispatch, client, server, CallStage, ClientInv, Registered
<1>3. CASE r \in pending /\ fut[r] = "pending"
  <2>1. \A x \in Requests :
           (IF fut[x] \in {"result", "error"} THEN fut[x] ELSE "none")'
             = IF x = r THEN f ELSE IF fut[x] \in {"result", "error"} THEN fut[x] ELSE "none"
    BY <1>1, <1>3 DEF Dispatch, Waiting
  <2>2. CallStage(r) = "waiting"
    BY <1>1, <1>3 DEF CallStage, ClientInv, Registered, Open, FutureInv
  <2> QED
    BY <1>2, <1>3, <2>1, <2>2 DEF Client!Say
<1>4. CASE ~(r \in pending /\ fut[r] = "pending")
  BY <1>2, <1>4 DEF Dispatch, Waiting, Client!callVars
<1> QED
  BY <1>3, <1>4

(* Failing who is registered tells everybody who waits without a word.     *)
LEMMA FailingTells ==
  ASSUME ClientInv, FutureInv, FailPending, UNCHANGED <<pc, dropped>>
  PROVE  Client!TellEverybody
<1>1. pc \in [Requests -> {"idle"} \cup Open \cup Ended] /\ fut \in [Requests -> Futures]
  BY DEF ClientInv, TypeOK
<1>2. \A x \in Requests : CallStage(x)' = CallStage(x)
  BY DEF CallStage
<1>3. \A x \in Requests : x \in pending /\ fut[x] = "pending"
                          <=> /\ CallStage(x) = "waiting" /\ fut[x] \notin {"result", "error"}
                              /\ x \notin dropped
  BY <1>1 DEF CallStage, ClientInv, Registered, Open, FutureInv
<1>4. \A x \in Requests :
         (IF fut[x] \in {"result", "error"} THEN fut[x] ELSE "none")'
           = IF CallStage(x) = "waiting" /\ fut[x] \notin {"result", "error"} /\ x \notin dropped
             THEN "error"
             ELSE IF fut[x] \in {"result", "error"} THEN fut[x] ELSE "none"
  BY <1>1, <1>3 DEF FailPending
<1> QED
  BY <1>2, <1>4 DEF Client!TellEverybody

(* Every step of the client is one of the calls, or none.                  *)
LEMMA StepCalls ==
  ASSUME ClientInv, FutureInv, NEW r \in Requests, Step(r)
  PROVE  [Client!Next]_Client!callVars
<1>1. pc \in [Requests -> {"idle"} \cup Open \cup Ended] /\ fut \in [Requests -> Futures]
  BY DEF ClientInv, TypeOK
<1>2. ASSUME NEW label \in Ended, Leave(r, label), phase' = phase, dropped' = dropped,
             fut' = fut \/ (fut[r] = "none" /\ fut' = [fut EXCEPT ![r] = "pending"])
      PROVE  Client!End(r, label)
  BY <1>2, LeavingEnds DEF Leave
<1>3. CASE Refused(r)
  <2>1. Leave(r, "failed") /\ fut' = [fut EXCEPT ![r] = "pending"] /\ pc[r] = "idle"
        /\ phase' = phase /\ dropped' = dropped
    BY <1>3 DEF Refused, Register, client, server
  <2>2. Client!End(r, "failed") /\ CallStage(r) = "unasked"
    BY <1>2, <2>1 DEF Ended, FutureInv, CallStage
  <2>3. Client!Failed(r)
    BY <2>2 DEF Client!Failed
  <2> QED
    BY <2>3 DEF Client!Next
<1>4. CASE Request(r)
  <2>1. Enter(r) /\ pc[r] = "idle" /\ phase' = phase /\ phase # "closed" /\ dropped' = dropped
    BY <1>4 DEF Request, Register, Alive, Attached, client, server
  <2>2. Client!Ask(r)
    BY <2>1, EnteringAsks
  <2> QED
    BY <2>2 DEF Client!Next
<1>5. ASSUME pc[r] \in {"queued", "sending", "awaiting"}, fut' = fut, phase' = phase, dropped' = dropped,
             Leave(r, "failed")
      PROVE  [Client!Next]_Client!callVars
  <2>1. Client!End(r, "failed") /\ CallStage(r) = "waiting"
    BY <1>2, <1>5 DEF Ended, CallStage
  <2>2. Client!Failed(r)
    BY <2>1 DEF Client!Failed
  <2> QED
    BY <2>2 DEF Client!Next
<1>6. ASSUME pc[r] \in {"queued", "sending", "awaiting"}, fut' = fut, phase' = phase, dropped' = dropped, fut[r] = "result",
             Leave(r, "answered")
      PROVE  [Client!Next]_Client!callVars
  <2>1. Client!End(r, "answered") /\ CallStage(r) = "waiting"
    BY <1>2, <1>6 DEF Ended, CallStage
  <2>2. Client!Answered(r)
    BY <1>6, <2>1 DEF Client!Answered
  <2> QED
    BY <2>2 DEF Client!Next
<1>7. ASSUME pc[r] \in {"queued", "sending"}, fut' = fut, phase' = phase, dropped' = dropped,
             pc' = [pc EXCEPT ![r] = "sending"] \/ pc' = [pc EXCEPT ![r] = "awaiting"]
      PROVE  UNCHANGED Client!callVars
  <2>1. \A x \in Requests : CallStage(x)' = CallStage(x)
    BY <1>1, <1>7 DEF CallStage
  <2>2. \A x \in Requests : (IF pc[x] \in Ended THEN pc[x] ELSE "none")' = IF pc[x] \in Ended THEN pc[x] ELSE "none"
    BY <1>1, <1>7 DEF Ended
  <2> QED
    BY <1>7, <2>1, <2>2 DEF Client!callVars
<1>8. CASE Acquire(r)
  BY <1>5, <1>7, <1>8 DEF Acquire, client, server
<1>9. CASE Sent(r)
  BY <1>5, <1>6, <1>7, <1>9 DEF Sent, Outcome, client, server
<1>10. CASE SendFails(r) \/ Returns(r)
  BY <1>5, <1>6, <1>10 DEF SendFails, Returns, Outcome, client, server
<1>11. CASE Deadline(r) \/ Cancel(r)
  <2>1. Client!Quit(r)
    BY <1>11, InterruptQuits DEF Deadline, Cancel
  <2> QED
    BY <2>1 DEF Client!Next
<1>12. CASE Expires(r)
  <2>1. Client!End(r, "timed_out") /\ CallStage(r) = "quitting"
    BY <1>2, <1>12 DEF Expires, Ended, CallStage, client, server
  <2>2. Client!TimedOut(r)
    BY <2>1 DEF Client!TimedOut
  <2> QED
    BY <2>2 DEF Client!Next
<1>13. CASE Cancelled(r)
  <2>1. Client!End(r, "cancelled") /\ CallStage(r) \in {"waiting", "quitting"}
    BY <1>2, <1>13 DEF Cancelled, Ended, CallStage, client, server
  <2>2. Client!Cancelled(r)
    BY <2>1 DEF Client!Cancelled
  <2> QED
    BY <2>2 DEF Client!Next
<1>14. CASE ReadAnswer(r)
  <2>1. PICK f \in {"result", "error"} : Dispatch(r, f)
    BY <1>14 DEF ReadAnswer
  <2>2. Client!Say(r, f) \/ UNCHANGED Client!callVars
    BY <1>14, <2>1, LineSays DEF ReadAnswer
  <2> QED
    BY <2>2 DEF Client!Next
<1>15. CASE ReadBadError(r)
  <2>1. pc' = pc /\ fut' = fut /\ phase' = phase /\ \A x \in Requests : CallStage(x)' = CallStage(x)
    BY <1>15 DEF ReadBadError, client, CallStage
  <2>2. CASE Waiting(r)
    <3>1. dropped = {} /\ dropped' = {r} /\ CallStage(r) = "waiting"
      BY <1>1, <1>15, <2>2 DEF ReadBadError, Waiting, CallStage, ClientInv, Registered, Open, FutureInv
    <3>2. Client!Lose(r)
      BY <2>1, <2>2, <3>1 DEF Client!Lose, Waiting
    <3> QED
      BY <3>2 DEF Client!Next
  <2>3. CASE ~Waiting(r)
    BY <1>15, <2>1, <2>3 DEF ReadBadError, Client!callVars
  <2> QED
    BY <2>2, <2>3
<1> QED
  BY <1>3, <1>4, <1>8, <1>9, <1>10, <1>11, <1>12, <1>13, <1>14, <1>15 DEF Step

(* StdioMcpClient keeps what it promises its callers, for any number of    *)
(* requests and anything a server may do: it implements RemoteCalls, by    *)
(* the mapping of CallStage, step by step.                                 *)
THEOREM ClientImplementsCalls == Spec => ImplementsCalls
<1>1. Init => Client!Init /\ FutureInv
  BY DEF Init, Client!Init, CallStage, FutureInv, Ended
<1>2. ClientInv /\ FutureInv /\ [Next]_vars => FutureInv'
  BY FuturesKept
<1>3. ClientInv /\ FutureInv /\ [Next]_vars => [Client!Next]_Client!callVars
  <2> SUFFICES ASSUME ClientInv, FutureInv, [Next]_vars PROVE [Client!Next]_Client!callVars
    OBVIOUS
  <2>1. CASE \E r \in Requests : Step(r)
    BY <2>1, StepCalls
  <2>2. CASE Start
    <3>1. Enter(Hello) /\ pc[Hello] = "idle" /\ phase = "new" /\ phase' = "starting"
          /\ dropped' = dropped
      BY <2>2 DEF Start, Register
    <3>2. Client!Ask(Hello)
      BY <3>1, StdioAssumption, EnteringAsks
    <3> QED
      BY <3>2, StdioAssumption DEF Client!Next
  <2>3. CASE ReadEnd
    <3>1. Client!TellEverybody /\ phase' = phase /\ dropped = {}
      BY <2>3, FailingTells DEF ReadEnd, client, ClientInv, Registered
    <3>2. Client!Gone
      BY <3>1 DEF Client!Gone
    <3> QED
      BY <3>2 DEF Client!Next
  <2>4. CASE CloseKills
    <3>1. Client!TellEverybody /\ phase = "killing" /\ phase' = "closed"
      BY <2>4, FailingTells DEF CloseKills
    <3>2. Client!ShutDown
      BY <3>1 DEF Client!ShutDown
    <3> QED
      BY <3>2 DEF Client!Next
  <2>5. ASSUME pc' = pc, fut' = fut, dropped' = dropped,
               phase' = "closed" <=> phase = "closed"
        PROVE  UNCHANGED Client!callVars
    <3>1. \A x \in Requests : CallStage(x)' = CallStage(x)
      BY <2>5 DEF CallStage
    <3> QED
      BY <2>5, <3>1 DEF Client!callVars
  <2>6. CASE \/ ReadUnreadable \/ ServerExits \/ ServerReaped \/ StartFails \/ HandshakeAccepted
             \/ CloseBegin \/ CloseLetsGo \/ UNCHANGED vars
    BY <2>5, <2>6 DEF ReadUnreadable, ServerExits, ServerReaped, StartFails, HandshakeAccepted,
       CloseBegin, CloseLetsGo, vars, client, server
  <2> QED
    BY <2>1, <2>2, <2>3, <2>4, <2>6 DEF Next
<1> QED
  BY <1>1, <1>2, <1>3, ClientCorrect, PTL DEF Spec, ImplementsCalls, Client!Spec

-----------------------------------------------------------------------------
(* ToolPins *)

(* What a pin names was reviewed, and what was listed had been vetted *)
PinInv == pin # Unseen => \A t \in Tools : pin[t] # Absent => <<t, pin[t]>> \in reviewed

VettedInv ==
    \A t \in Tools : listed[t] \notin Poisoned /\ offered[t] \notin Poisoned

OfferedInv ==
    \A t \in Tools : offered[t] # Absent => <<t, PrintOf(offered[t])>> \in reviewed

(* The inductive invariant of ToolPins *)
PinsInv == PinsTypes /\ PinInv /\ VettedInv /\ OfferedInv

(* A print names a version, or none. *)
LEMMA PrintType ==
  ASSUME NEW v \in Versions \cup {Absent}
  PROVE  PrintOf(v) \in Prints /\ (PrintOf(v) = Absent <=> v = Absent)
BY PinsAssumption DEF PrintOf, Prints

(* Vetting leaves declarations out, and every poisoned one. *)
LEMMA VettedType ==
  ASSUME NEW d \in Declarations
  PROVE  /\ Vetted(d) \in Declarations
         /\ \A t \in Tools : Vetted(d)[t] \notin Poisoned
BY PinsAssumption DEF Vetted, Declarations

(* What apply_pin lets through is in the pin. *)
LEMMA AllowedType ==
  ASSUME NEW d \in Declarations
  PROVE  /\ Allowed(d) \in Declarations
         /\ \A t \in Tools : /\ Allowed(d)[t] \in {d[t], Absent}
                             /\ Allowed(d)[t] # Absent => pin[t] = PrintOf(Allowed(d)[t])
BY DEF Allowed, Declarations

(* What is recorded of a declaration is all that its pin names. *)
LEMMA RecordedAll ==
  ASSUME NEW d \in Declarations
  PROVE  /\ PrintsOf(d) \in [Tools -> Prints] /\ PrintsOf(d) # Unseen
         /\ Recorded(d) \subseteq Tools \X Prints
         /\ \A t \in Tools : d[t] # Absent => <<t, PrintOf(d[t])>> \in Recorded(d)
         /\ \A t \in Tools : PrintsOf(d)[t] = PrintOf(d[t])
<1>1. \A t \in Tools : d[t] \in Versions \cup {Absent}
  BY DEF Declarations
<1>2. \A t \in Tools : PrintOf(d[t]) \in Prints
  BY <1>1, PrintType
<1>3. PrintsOf(d) \in [Tools -> Prints]
  BY <1>2 DEF PrintsOf
<1> QED
  BY <1>2, <1>3, PinsAssumption DEF PrintsOf, Recorded, Prints

(* What is pinned, listed and offered was reviewed and vetted, in every    *)
(* reachable state, for any tools, versions and hints.                     *)
THEOREM PinsInductive == PinsSpec => []PinsInv
<1>1. PinsInit => PinsInv
  BY PinsAssumption DEF PinsInit, PinsInv, PinsTypes, PinInv, VettedInv, OfferedInv, Nothing,
     Declarations
<1>2. PinsInv /\ [PinsNext]_pinsVars => PinsInv'
  <2> SUFFICES ASSUME PinsInv, [PinsNext]_pinsVars PROVE PinsInv'
    OBVIOUS
  <2> USE DEF PinsInv
  <2>1. CASE Release
    BY <2>1 DEF Release, PinsTypes, PinInv, VettedInv, OfferedInv
  <2>2. CASE BootPassedBy
    BY <2>2 DEF BootPassedBy, PinsTypes, PinInv, VettedInv, OfferedInv
  <2>3. CASE BootLists
    <3>1. Vetted(declared) \in Declarations /\ \A t \in Tools : Vetted(declared)[t] \notin Poisoned
      BY VettedType DEF PinsTypes
    <3> QED
      BY <2>3, <3>1 DEF BootLists, PinsTypes, PinInv, VettedInv, OfferedInv
  <2>4. CASE BootComparesFirst
    BY <2>4 DEF BootComparesFirst, PinsTypes, PinInv, VettedInv, OfferedInv
  <2>5. CASE BootCompares
    <3>1. /\ Allowed(listed) \in Declarations
          /\ \A t \in Tools : /\ Allowed(listed)[t] \in {listed[t], Absent}
                              /\ Allowed(listed)[t] # Absent => pin[t] = PrintOf(Allowed(listed)[t])
      BY AllowedType DEF PinsTypes
    <3>2. PinsTypes' /\ PinInv'
      BY <2>5, <3>1 DEF BootCompares, PinsTypes, PinInv
    <3>3. VettedInv'
      BY <2>5, <3>1, PinsAssumption DEF BootCompares, VettedInv
    <3>4. OfferedInv'
      <4> SUFFICES ASSUME NEW t \in Tools, offered'[t] # Absent
                   PROVE  <<t, PrintOf(offered'[t])>> \in reviewed'
        BY DEF OfferedInv, PrintOf
      <4>1. offered'[t] \in Versions \cup {Absent} /\ pin[t] = PrintOf(offered'[t])
        BY <2>5, <3>1 DEF BootCompares, Declarations
      <4>2. pin[t] # Absent
        BY <4>1, PrintType
      <4> QED
        BY <2>5, <4>1, <4>2 DEF BootCompares, PinInv
    <3> QED
      BY <3>2, <3>3, <3>4
  <2>6. CASE BootSavesFirst
    <3>1. /\ PrintsOf(listed) \in [Tools -> Prints] /\ PrintsOf(listed) # Unseen
          /\ Recorded(listed) \subseteq Tools \X Prints
          /\ \A t \in Tools : listed[t] # Absent => <<t, PrintOf(listed[t])>> \in Recorded(listed)
          /\ \A t \in Tools : PrintsOf(listed)[t] = PrintOf(listed[t])
      BY RecordedAll DEF PinsTypes
    <3>2. PinsTypes' /\ VettedInv'
      BY <2>6, <3>1 DEF BootSavesFirst, PinsTypes, VettedInv
    <3>3. PinInv'
      BY <2>6, <3>1 DEF BootSavesFirst, PinInv, PrintOf
    <3>4. OfferedInv'
      BY <2>6, <3>1 DEF BootSavesFirst, OfferedInv, PrintOf
    <3> QED
      BY <3>2, <3>3, <3>4
  <2>7. CASE BootEnds
    BY <2>7, PinsAssumption DEF BootEnds, PinsTypes, PinInv, VettedInv, OfferedInv, Nothing,
       Declarations
  <2>8. CASE ApproveAsks
    <3>1. Vetted(declared) \in Declarations
      BY VettedType DEF PinsTypes
    <3> QED
      BY <2>8, <3>1 DEF ApproveAsks, PinsTypes, PinInv, VettedInv, OfferedInv
  <2>9. CASE ApproveSaves
    <3>1. /\ PrintsOf(shown) \in [Tools -> Prints] /\ PrintsOf(shown) # Unseen
          /\ Recorded(shown) \subseteq Tools \X Prints
          /\ \A t \in Tools : shown[t] # Absent => <<t, PrintOf(shown[t])>> \in Recorded(shown)
          /\ \A t \in Tools : PrintsOf(shown)[t] = PrintOf(shown[t])
      BY RecordedAll DEF PinsTypes
    <3>2. PinsTypes' /\ VettedInv'
      BY <2>9, <3>1, PinsAssumption DEF ApproveSaves, PinsTypes, VettedInv, Nothing, Declarations
    <3>3. PinInv'
      BY <2>9, <3>1 DEF ApproveSaves, PinInv, PrintOf
    <3>4. OfferedInv'
      BY <2>9 DEF ApproveSaves, OfferedInv, PrintOf
    <3> QED
      BY <3>2, <3>3, <3>4
  <2>10. CASE ApproveFails
    BY <2>10, PinsAssumption DEF ApproveFails, PinsTypes, PinInv, VettedInv, OfferedInv, Nothing,
       Declarations
  <2>11. CASE Forget
    BY <2>11 DEF Forget, PinsTypes, PinInv, VettedInv, OfferedInv
  <2>12. CASE UNCHANGED pinsVars
    BY <2>12 DEF pinsVars, PinsTypes, PinInv, VettedInv, OfferedInv, PrintOf
  <2> QED
    BY <2>1, <2>2, <2>3, <2>4, <2>5, <2>6, <2>7, <2>8, <2>9, <2>10, <2>11, <2>12
    DEF PinsNext
<1> QED
  BY <1>1, <1>2, PTL DEF PinsSpec

(* Every tool in the catalog was approved or seen at first use, carries no *)
(* instruction, and is fit to run unattended only if the operator says so  *)
(* (McpSupervisor._enforce_pin, apply_pin, classify_risk).                 *)
THEOREM CatalogReviewed == PinsSpec => []OfferedWasReviewed
<1>1. PinsInv => OfferedWasReviewed
  BY DEF PinsInv, VettedInv, OfferedInv, OfferedWasReviewed, RiskOf
<1> QED
  BY <1>1, PinsInductive, PTL

-----------------------------------------------------------------------------
(* VendorWrites *)

ToolNames == UNION {DOMAIN Connectors[c] : c \in DOMAIN Connectors}
Deeds == {"nothing", "set", "append", "both", "create"}
(* An errand: what a tool of a connector was asked, how far it is, and     *)
(* what came of it at the vendor.                                          *)
Errands ==
    [connector : {"none"} \cup DOMAIN Connectors, tool : {"none"} \cup ToolNames, does : Deeds, wanted : RecordStates,
     there : BOOLEAN, at : {"idle", "look", "write", "after", "told", "failed", "raised"}, left : Nat, tries : Nat,
     seen : Records, landed : Nat, unheard : Nat, broken : BOOLEAN, restored : BOOLEAN]

(* The connector declares the tool, and the tool does this. *)
IsTool(c, t, d) ==
    /\ c \in DOMAIN Connectors /\ t \in DOMAIN Connectors[c] /\ d \in Connectors[c][t].does

(* A read is declared one, and what may come to run unattended sets a      *)
(* value or makes a file, behind a client that does not repeat itself.     *)
RiskIsDeclared(c, t, d) ==
    /\ d \in Deeds /\ Connectors[c][t].before \in Nat
    /\ ConnectorRisks[c][t] = "read" => d = "nothing"
    /\ ConnectorRisks[c][t] = "reversible_write" => d = "set" \/ Tries(c) = 1
    /\ c \in {"claims", "tasks", "mail"} => d \in {"nothing", "append", "set"}
    /\ c \in {"chat", "whatsapp", "calendar"} => d \in {"nothing", "append"}
    /\ c = "incidents" => d \in {"nothing", "append", "set", "both"}
    /\ c = "documents" => d \in {"nothing", "create"}
    /\ c = "bi" => d = "nothing"
    /\ c = "incidents" /\ d # "nothing" => <<c, t>> \in ReadBack
    /\ c = "mail" /\ d = "append" => t = "send_reply"

(* The declarations of every connector, one by one. *)
LEMMA ToolsAreDeclared ==
  ASSUME NEW c, NEW t, NEW d, IsTool(c, t, d)
  PROVE  RiskIsDeclared(c, t, d)
<1>1. DOMAIN Connectors = {"claims", "incidents", "tasks", "chat", "bi", "whatsapp", "mail",
                           "calendar", "documents"}
  BY DEF Connectors
<1>2. CASE c = "claims"
  <2>1. Connectors[c] = ClaimsTools /\ ConnectorRisks[c] = ClaimsRisks
    BY <1>2 DEF Connectors, ConnectorRisks
  <2>2. DOMAIN ClaimsTools = {"my_claims", "get_claim", "add_note", "set_status"}
    BY DEF ClaimsTools
  <2>3. t \in DOMAIN ClaimsTools /\ d \in ClaimsTools[t].does
    BY <2>1 DEF IsTool
  <2> QED
    BY <1>2, <2>1, <2>2, <2>3 DEF RiskIsDeclared, Deeds, ReadBack, Reads, Writes, ClaimsTools, ClaimsRisks
<1>3. CASE c = "incidents"
  <2>1. Connectors[c] = IncidentTools /\ ConnectorRisks[c] = IncidentRisks
    BY <1>3 DEF Connectors, ConnectorRisks
  <2>2. DOMAIN IncidentTools = {"my_incidents", "get_incident", "update_incident"}
    BY DEF IncidentTools
  <2>3. t \in DOMAIN IncidentTools /\ d \in IncidentTools[t].does
    BY <2>1 DEF IsTool
  <2> QED
    BY <1>3, <2>1, <2>2, <2>3 DEF RiskIsDeclared, Deeds, ReadBack, Reads, Writes, IncidentTools, IncidentRisks
<1>4. CASE c = "tasks"
  <2>1. Connectors[c] = TaskTools /\ ConnectorRisks[c] = TaskRisks
    BY <1>4 DEF Connectors, ConnectorRisks
  <2>2. DOMAIN TaskTools = {"my_open_issues", "get_issue", "update_issue", "comment_on_issue"}
    BY DEF TaskTools
  <2>3. t \in DOMAIN TaskTools /\ d \in TaskTools[t].does
    BY <2>1 DEF IsTool
  <2> QED
    BY <1>4, <2>1, <2>2, <2>3 DEF RiskIsDeclared, Deeds, ReadBack, Reads, Writes, TaskTools, TaskRisks
<1>5. CASE c = "chat"
  <2>1. Connectors[c] = ChatTools /\ ConnectorRisks[c] = ChatRisks
    BY <1>5 DEF Connectors, ConnectorRisks
  <2>2. DOMAIN ChatTools = {"unread_messages", "read_channel", "send_message"}
    BY DEF ChatTools
  <2>3. t \in DOMAIN ChatTools /\ d \in ChatTools[t].does
    BY <2>1 DEF IsTool
  <2> QED
    BY <1>5, <2>1, <2>2, <2>3 DEF RiskIsDeclared, Deeds, ReadBack, Reads, Writes, ChatTools, ChatRisks
<1>6. CASE c = "bi"
  <2>1. Connectors[c] = AlertTools /\ ConnectorRisks[c] = AlertRisks
    BY <1>6 DEF Connectors, ConnectorRisks
  <2>2. DOMAIN AlertTools = {"firing_alerts", "list_dashboards"}
    BY DEF AlertTools
  <2>3. t \in DOMAIN AlertTools /\ d \in AlertTools[t].does
    BY <2>1 DEF IsTool
  <2> QED
    BY <1>6, <2>1, <2>2, <2>3 DEF RiskIsDeclared, Deeds, ReadBack, Reads, Writes, AlertTools, AlertRisks
<1>7. CASE c = "whatsapp"
  <2>1. Connectors[c] = WhatsAppTools /\ ConnectorRisks[c] = WhatsAppRisks
    BY <1>7 DEF Connectors, ConnectorRisks
  <2>2. DOMAIN WhatsAppTools = {"send_message"}
    BY DEF WhatsAppTools
  <2>3. t \in DOMAIN WhatsAppTools /\ d \in WhatsAppTools[t].does
    BY <2>1 DEF IsTool
  <2> QED
    BY <1>7, <2>1, <2>2, <2>3 DEF RiskIsDeclared, Deeds, ReadBack, Reads, Writes, WhatsAppTools, WhatsAppRisks
<1>8. CASE c = "mail"
  <2>1. Connectors[c] = MailTools /\ ConnectorRisks[c] = MailRisks
    BY <1>8 DEF Connectors, ConnectorRisks
  <2>2. DOMAIN MailTools = {"list_unread", "search", "get_message", "mark_read", "send_reply"}
    BY DEF MailTools
  <2>3. t \in DOMAIN MailTools /\ d \in MailTools[t].does
    BY <2>1 DEF IsTool
  <2> QED
    BY <1>8, <2>1, <2>2, <2>3 DEF RiskIsDeclared, Deeds, ReadBack, Reads, Writes, MailTools, MailRisks, Tries
<1>9. CASE c = "calendar"
  <2>1. Connectors[c] = CalendarTools /\ ConnectorRisks[c] = CalendarRisks
    BY <1>9 DEF Connectors, ConnectorRisks
  <2>2. DOMAIN CalendarTools = {"today", "upcoming", "availability", "propose_meeting"}
    BY DEF CalendarTools
  <2>3. t \in DOMAIN CalendarTools /\ d \in CalendarTools[t].does
    BY <2>1 DEF IsTool
  <2> QED
    BY <1>9, <2>1, <2>2, <2>3 DEF RiskIsDeclared, Deeds, ReadBack, Reads, Writes, CalendarTools, CalendarRisks, Tries
<1>10. CASE c = "documents"
  <2>1. Connectors[c] = DocumentTools /\ ConnectorRisks[c] = DocumentRisks
    BY <1>10 DEF Connectors, ConnectorRisks
  <2>2. DOMAIN DocumentTools = {"write_document"}
    BY DEF DocumentTools
  <2>3. t \in DOMAIN DocumentTools /\ d \in DocumentTools[t].does
    BY <2>1 DEF IsTool
  <2> QED
    BY <1>10, <2>1, <2>2, <2>3 DEF RiskIsDeclared, Deeds, ReadBack, Reads, Writes, DocumentTools, DocumentRisks, Tries
<1> QED
  BY <1>1, <1>2, <1>3, <1>4, <1>5, <1>6, <1>7, <1>8, <1>9, <1>10 DEF IsTool

(* Every client gives up after some attempt, by Attempts at the latest.    *)
LEMMA TriesAreFew == \A c : Tries(c) \in 1..Attempts
BY AttemptsAssumption DEF Tries

(* Only what a tool declares is done *)
AsDeclared ==
    errand.at # "idle" => IsTool(errand.connector, errand.tool, errand.does)

(* Each landing but the last went unheard, and each was an attempt *)
Counted ==
    /\ errand.at \in {"idle", "look"} \/ errand.does = "nothing" => errand.landed = 0 /\ errand.unheard = 0
    /\ errand.at = "look" => errand.left > 0
    /\ errand.at \in {"write", "after"} => errand.does # "nothing"
    /\ errand.at \in {"look", "write", "after"} => errand.tries < Tries(errand.connector)
    /\ errand.at = "write" => errand.landed = errand.unheard /\ errand.landed <= errand.tries
    /\ errand.at = "after" => errand.landed > 0
    /\ errand.tries <= Attempts /\ errand.landed <= Tries(errand.connector)
    /\ errand.unheard <= errand.landed /\ errand.landed <= errand.unheard + 1
    /\ errand.at = "failed" => errand.landed <= errand.unheard
    /\ errand.broken => errand.at = "failed" /\ errand.landed = 0

(* The second landing of a claim's change needs the claim to be again what *)
(* was read, which the first one made it cease to be                       *)
Cautious ==
    errand.connector = "claims" /\ errand.does = "set" /\ errand.landed > 0 =>
         \/ errand.restored \/ errand.wanted = errand.seen.status
         \/ errand.landed = 1 /\ target # errand.seen

(* The record r is as the call asked, or the answer of its read-back will  *)
(* say that it is not, or there is nothing to ask                          *)
Borne(r) ==
    \/ /\ errand.does \in {"set", "both"} => r.status = errand.wanted
       /\ errand.does \in {"append", "both", "create"} => r.notes > 0
    \/ /\ <<errand.connector, errand.tool>> \in ReadBack /\ errand.does # "append"
       /\ r.status # errand.wanted
    \/ ~errand.there \/ errand.tool = "send_reply"

(* Where no colleague has been, the record shows what has landed *)
Traced ==
    colleagueEdits = 0 =>
        /\ errand.landed = 0 /\ ~errand.broken => target = Fresh
        /\ IF errand.broken THEN target.notes <= 1 ELSE target.notes <= errand.landed
        /\ errand.at \in {"told", "after"} /\ errand.does # "nothing" => Borne(target)

(* The types of what the errand handles *)
ErrandTypes == target \in Records /\ colleagueEdits \in 0..MaxColleagueEdits /\ errand \in Errands

(* The inductive invariant of VendorWrites *)
VendorInv == ErrandTypes /\ AsDeclared /\ Counted /\ Cautious /\ Traced

(* The invariant gives what the run checks. *)
LEMMA VendorInvSuffices == VendorInv => VendorTypes /\ WritesKeepFaith
<1> SUFFICES ASSUME VendorInv PROVE VendorTypes /\ WritesKeepFaith
  OBVIOUS
<1> USE DEF VendorInv, ErrandTypes
<1>1. /\ errand.landed \in Nat /\ errand.unheard \in Nat /\ errand.tries \in Nat
      /\ Tries(errand.connector) \in 1..Attempts /\ Attempts \in Nat
  BY TriesAreFew, AttemptsAssumption DEF Errands
<1>2. VendorTypes
  BY <1>1 DEF VendorTypes, Errands, Counted
<1>3. SuccessIsBorneOut /\ FailureLeavesNoTrace /\ OncePerAnswer
  <2>1. SuccessIsBorneOut
    BY DEF Traced, Borne, SuccessIsBorneOut, Shows, Contradicted
  <2>2. FailureLeavesNoTrace
    BY <1>1 DEF Traced, Counted, FailureLeavesNoTrace
  <2>3. target.notes \in Nat
    BY DEF Records
  <2>4. OncePerAnswer
    BY <1>1, <2>3 DEF Traced, Counted, Cautious, OncePerAnswer
  <2> QED
    BY <2>1, <2>2, <2>4
<1>4. UnattendedIsRepeatable
  <2> SUFFICES ASSUME errand.at # "idle"
               PROVE  /\ RiskOfErrand = "read" => errand.landed = 0
                      /\ RiskOfErrand = "reversible_write" /\ errand.landed > 1 => errand.does = "set"
    BY DEF UnattendedIsRepeatable
  <2>1. RiskIsDeclared(errand.connector, errand.tool, errand.does)
    BY ToolsAreDeclared DEF AsDeclared
  <2> QED
    BY <1>1, <2>1 DEF RiskIsDeclared, RiskOfErrand, Counted
<1> QED
  BY <1>2, <1>3, <1>4 DEF WritesKeepFaith

(* What the vendor may leave is a record with a note more at most, which   *)
(* bears the call out; and of a claim the wanted one under the checksum    *)
(* that was read.                                                          *)
LEMMA WhatIsLeft ==
  ASSUME VendorInv, errand.at = "write", NEW r \in ServerLeaves
  PROVE  /\ r \in Records /\ r.notes <= target.notes + 1 /\ Borne(r)
         /\ errand.connector = "claims" /\ errand.does = "set" =>
              errand.seen = target /\ r = SetTo(errand.wanted)
<1> USE DEF VendorInv, ErrandTypes
<1>1. RiskIsDeclared(errand.connector, errand.tool, errand.does) /\ errand.connector \in DOMAIN Connectors
  BY ToolsAreDeclared DEF AsDeclared, IsTool
<1>2. errand.does # "nothing"
  BY DEF Counted
<1>3. target \in Records /\ target.notes \in Nat /\ target.status \in RecordStates /\ errand.wanted \in RecordStates
  BY DEF Records, Errands
<1>4. /\ SetTo(errand.wanted) \in Records
      /\ SetTo(errand.wanted).status = errand.wanted /\ SetTo(errand.wanted).notes = target.notes
  BY <1>3 DEF SetTo, Records
<1>5. ASSUME NEW q \in Records
      PROVE  OneMore(q) \in Records /\ OneMore(q).notes = q.notes + 1 /\ OneMore(q).status = q.status
             /\ OneMore(q).notes > 0
  BY DEF OneMore, Records
<1>6. CASE errand.connector = "claims"
  BY <1>1, <1>2, <1>3, <1>4, <1>5, <1>6 DEF RiskIsDeclared, ServerLeaves, ClaimsServer, Borne
<1>7. CASE errand.connector = "incidents"
  <2>1. errand.does \in {"append", "set", "both"} /\ <<errand.connector, errand.tool>> \in ReadBack
    BY <1>1, <1>2, <1>7 DEF RiskIsDeclared
  <2>2. PICK q \in {target, SetTo(errand.wanted)} :
          IF errand.does = "set" THEN r = q ELSE r = OneMore(q) /\ (errand.does = "append" => q = target)
    BY <1>7, <2>1 DEF ServerLeaves, IncidentServer
  <2>3. q \in Records /\ q.notes = target.notes
    BY <1>3, <1>4, <2>2
  <2> QED
    BY <1>3, <1>5, <1>7, <2>1, <2>2, <2>3 DEF Borne
<1>8. CASE errand.connector = "tasks"
  BY <1>1, <1>2, <1>3, <1>4, <1>5, <1>8 DEF RiskIsDeclared, ServerLeaves, TaskServer, Borne
<1>9. CASE errand.connector = "mail"
  BY <1>1, <1>2, <1>3, <1>4, <1>5, <1>9 DEF RiskIsDeclared, ServerLeaves, MailServer, Borne
<1>10. CASE errand.connector \in {"chat", "whatsapp", "calendar"}
  BY <1>1, <1>2, <1>3, <1>5, <1>10
     DEF RiskIsDeclared, ServerLeaves, ChatServer, WhatsAppServer, CalendarServer, Borne
<1>11. CASE errand.connector = "documents"
  BY <1>1, <1>2, <1>3, <1>5, <1>11 DEF RiskIsDeclared, ServerLeaves, DocumentServer, Borne
<1>12. errand.connector # "bi"
  BY <1>1, <1>2 DEF RiskIsDeclared
<1> QED
  BY <1>1, <1>6, <1>7, <1>8, <1>9, <1>10, <1>11, <1>12 DEF Connectors

(* A landing at the vendor is counted, and shows in the record.            *)
LEMMA LandingStep ==
  ASSUME VendorInv, errand.at = "write", NEW r \in ServerLeaves, target' = r,
         errand' \in Errands, UNCHANGED colleagueEdits,
         errand'.connector = errand.connector, errand'.tool = errand.tool,
         errand'.does = errand.does, errand'.wanted = errand.wanted, errand'.seen = errand.seen,
         errand'.there = errand.there, errand'.broken = errand.broken,
         errand'.restored = errand.restored, errand'.landed = errand.landed + 1,
         errand'.at # "idle"
  PROVE  ErrandTypes' /\ AsDeclared' /\ Cautious' /\ Traced'
<1> USE DEF VendorInv
<1>1. /\ r \in Records /\ r.notes <= target.notes + 1 /\ Borne(r)
      /\ errand.connector = "claims" /\ errand.does = "set" =>
            errand.seen = target /\ r = SetTo(errand.wanted)
  BY WhatIsLeft
<1>2. ErrandTypes'
  BY <1>1 DEF ErrandTypes
<1>3. AsDeclared'
  BY DEF AsDeclared, IsTool
<1>5. ASSUME errand.connector = "claims", errand.does = "set",
             ~errand.restored, errand.wanted # errand.seen.status
      PROVE  errand.landed = 0 /\ target' # errand.seen
  <2>1. target'.status = errand.wanted
    BY <1>1, <1>5 DEF SetTo, ErrandTypes, Records
  <2>2. errand.landed = 0
    BY <1>1, <1>5 DEF Cautious, ErrandTypes, Errands
  <2> QED
    BY <1>5, <2>1, <2>2
<1>6. Borne(target)'
  BY <1>1 DEF Borne
<1>7. errand.landed \in Nat /\ target.notes \in Nat /\ r.notes \in Nat /\ ~errand.broken
  BY <1>1 DEF Counted, ErrandTypes, Errands, Records
<1>8. Traced'
  BY <1>1, <1>6, <1>7 DEF Traced
<1> QED
  BY <1>2, <1>3, <1>5, <1>8 DEF Cautious

(* A colleague may change what was read, which no connector denies. *)
LEMMA ColleagueStep == VendorInv /\ ColleagueEdits => VendorInv'
<1> SUFFICES ASSUME VendorInv, ColleagueEdits PROVE VendorInv'
  OBVIOUS
<1> USE DEF VendorInv
<1>1. PICK r \in {SetTo(s) : s \in RecordStates} \cup {OneMore(target)} :
        /\ target' = r
        /\ errand' = [errand EXCEPT !.restored = errand.restored \/ (r = errand.seen /\ errand.landed > 0)]
  BY DEF ColleagueEdits
<1>2. r \in Records
  BY DEF ErrandTypes, SetTo, OneMore, Records
<1>3. colleagueEdits' \in 0..MaxColleagueEdits
  BY AttemptsAssumption DEF ColleagueEdits, ErrandTypes
<1>4. errand' \in Errands
  BY <1>1 DEF ErrandTypes, Errands
<1>5. /\ errand'.at = errand.at /\ errand'.connector = errand.connector /\ errand'.tool = errand.tool
      /\ errand'.does = errand.does /\ errand'.wanted = errand.wanted /\ errand'.seen = errand.seen
      /\ errand'.landed = errand.landed /\ errand'.unheard = errand.unheard
      /\ errand'.tries = errand.tries /\ errand'.left = errand.left
      /\ errand'.there = errand.there /\ errand'.broken = errand.broken
      /\ errand'.restored = (errand.restored \/ (r = errand.seen /\ errand.landed > 0))
  BY <1>1 DEF ErrandTypes, Errands
<1>6. ErrandTypes'
  BY <1>1, <1>2, <1>3, <1>4 DEF ErrandTypes
<1>7. AsDeclared' /\ Counted'
  BY <1>5 DEF AsDeclared, Counted, IsTool
<1>8. Cautious'
  BY <1>1, <1>5 DEF Cautious
<1>9. Traced'
  BY DEF Traced, ColleagueEdits, ErrandTypes
<1> QED
  BY <1>6, <1>7, <1>8, <1>9

(* What every step that is neither a landing nor a colleague's leaves      *)
(* alone: of the errand only its stage and its counters of reads and tries *)
(* move, and what was read where nothing has landed.                       *)
LEMMA QuietStep ==
  ASSUME VendorInv, errand.at # "idle", errand' \in Errands, UNCHANGED <<target, colleagueEdits>>,
         errand'.connector = errand.connector, errand'.tool = errand.tool, errand'.does = errand.does,
         errand'.wanted = errand.wanted, errand'.landed = errand.landed, errand'.unheard = errand.unheard,
         errand'.there = errand.there, errand'.broken = errand.broken, errand'.restored = errand.restored,
         errand'.seen = errand.seen \/ errand.landed = 0,
         errand'.at \in {"told", "after"} => errand.at = "after" \/ errand.does = "nothing"
  PROVE  ErrandTypes' /\ AsDeclared' /\ Cautious' /\ Traced'
<1> USE DEF VendorInv
<1>1. ErrandTypes'
  BY DEF ErrandTypes
<1>2. AsDeclared'
  BY DEF AsDeclared, IsTool
<1>3. Cautious'
  BY DEF Cautious, ErrandTypes, Errands
<1>4. Traced'
  BY DEF Traced, Borne
<1> QED
  BY <1>1, <1>2, <1>3, <1>4

(* An errand begins with nothing landed. *)
LEMMA BeginStep == VendorInv /\ BeginErrand => VendorInv'
<1> SUFFICES ASSUME VendorInv, BeginErrand PROVE VendorInv'
  OBVIOUS
<1> USE DEF VendorInv
<1>1. PICK c \in DOMAIN Connectors : \E t \in DOMAIN Connectors[c] :
        \E d \in Connectors[c][t].does, w \in RecordStates, x \in BOOLEAN :
            LET looks == Connectors[c][t].before
                begun == [Unbegun EXCEPT !.connector = c, !.tool = t, !.does = d, !.wanted = w, !.left = looks,
                                         !.there = x \/ ~(c = "mail" /\ d = "set")]
            IN  errand' = [begun EXCEPT !.at = IF looks > 0 THEN "look" ELSE Onward(begun)]
  BY Zenon DEF BeginErrand
<1>2. PICK t \in DOMAIN Connectors[c] : \E d \in Connectors[c][t].does, w \in RecordStates, x \in BOOLEAN :
            LET looks == Connectors[c][t].before
                begun == [Unbegun EXCEPT !.connector = c, !.tool = t, !.does = d, !.wanted = w, !.left = looks,
                                         !.there = x \/ ~(c = "mail" /\ d = "set")]
            IN  errand' = [begun EXCEPT !.at = IF looks > 0 THEN "look" ELSE Onward(begun)]
  BY <1>1
<1>3. PICK d \in Connectors[c][t].does, w \in RecordStates, x \in BOOLEAN :
            LET looks == Connectors[c][t].before
                begun == [Unbegun EXCEPT !.connector = c, !.tool = t, !.does = d, !.wanted = w, !.left = looks,
                                         !.there = x \/ ~(c = "mail" /\ d = "set")]
            IN  errand' = [begun EXCEPT !.at = IF looks > 0 THEN "look" ELSE Onward(begun)]
  BY <1>2
<1> DEFINE looks == Connectors[c][t].before
           there == x \/ ~(c = "mail" /\ d = "set")
           start == IF looks > 0 THEN "look" ELSE IF d = "nothing" THEN "told" ELSE "write"
<1>4. IsTool(c, t, d) /\ RiskIsDeclared(c, t, d)
  BY <1>1, <1>2, <1>3, ToolsAreDeclared DEF IsTool
<1>5. t \in ToolNames /\ d \in Deeds /\ looks \in Nat
  BY <1>4 DEF ToolNames, RiskIsDeclared
<1>6. errand' = [connector |-> c, tool |-> t, does |-> d, wanted |-> w, there |-> there, at |-> start,
                 left |-> looks, tries |-> 0, seen |-> Fresh, landed |-> 0, unheard |-> 0,
                 broken |-> FALSE, restored |-> FALSE]
  BY <1>3 DEF Unbegun, Onward
<1>7. Tries(c) \in 1..Attempts /\ Attempts \in Nat
  BY TriesAreFew, AttemptsAssumption
<1>8. ErrandTypes'
  BY <1>5, <1>6 DEF ErrandTypes, Errands, Records, RecordStates, BeginErrand, Fresh
<1>9. AsDeclared'
  BY <1>4, <1>6 DEF AsDeclared
<1>10. Counted'
  BY <1>5, <1>6, <1>7 DEF Counted
<1>11. Cautious'
  BY <1>6 DEF Cautious
<1>12. Traced'
  <2>1. errand.at = "idle" /\ target' = target /\ colleagueEdits' = colleagueEdits
    BY DEF BeginErrand
  <2>2. ~errand.broken /\ errand.landed = 0
    BY <2>1 DEF Counted
  <2>3. colleagueEdits = 0 => target = Fresh
    BY <2>2 DEF Traced
  <2>4. ~errand'.broken /\ errand'.landed = 0 /\ errand'.does = d /\ errand'.at = start
    BY <1>6
  <2>5. start \in {"told", "after"} => d = "nothing"
    OBVIOUS
  <2> QED
    BY <2>1, <2>3, <2>4, <2>5 DEF Traced, Fresh
<1> QED
  BY <1>8, <1>9, <1>10, <1>11, <1>12

(* What the look returns is what stands in the record. *)
LEMMA LookStep == VendorInv /\ LookAnswered => VendorInv'
<1> SUFFICES ASSUME VendorInv, LookAnswered PROVE VendorInv'
  OBVIOUS
<1> USE DEF VendorInv
<1> DEFINE next == IF errand.left = 1 THEN Onward(errand) ELSE "look"
<1>1. /\ errand.at = "look" /\ errand.landed = 0 /\ errand.unheard = 0 /\ errand.left \in Nat \ {0}
      /\ UNCHANGED <<target, colleagueEdits>>
  BY DEF LookAnswered, Counted, ErrandTypes, Errands
<1>2. errand' \in Errands
  <2>1. next \in {"told", "write", "look"}
    BY DEF Onward
  <2>2. errand' = [errand EXCEPT !.left = errand.left - 1, !.tries = 0, !.seen = target, !.at = next]
    BY DEF LookAnswered
  <2> HIDE DEF next
  <2>3. errand' = [connector |-> errand.connector, tool |-> errand.tool, does |-> errand.does,
                   wanted |-> errand.wanted, there |-> errand.there, at |-> next,
                   left |-> errand.left - 1, tries |-> 0,
                   seen |-> target, landed |-> errand.landed, unheard |-> errand.unheard,
                   broken |-> errand.broken, restored |-> errand.restored]
    BY <2>2 DEF ErrandTypes, Errands
  <2> QED
    BY <1>1, <2>1, <2>3 DEF ErrandTypes, Errands
<1>3. /\ errand'.at = next /\ errand'.connector = errand.connector /\ errand'.tool = errand.tool
      /\ errand'.does = errand.does /\ errand'.wanted = errand.wanted /\ errand'.seen = target
      /\ errand'.landed = errand.landed /\ errand'.unheard = errand.unheard
      /\ errand'.tries = 0 /\ errand'.left = errand.left - 1
      /\ errand'.there = errand.there /\ errand'.broken = errand.broken
      /\ errand'.restored = errand.restored
  BY DEF LookAnswered, ErrandTypes, Errands
<1>4. ErrandTypes' /\ AsDeclared' /\ Cautious' /\ Traced'
  <2>1. next \in {"told", "after"} => errand.does = "nothing"
    BY DEF Onward
  <2> HIDE DEF next
  <2> QED
    BY <1>1, <1>2, <1>3, <2>1, QuietStep
<1>5. Tries(errand.connector) \in 1..Attempts /\ Attempts \in Nat
  BY TriesAreFew, AttemptsAssumption
<1>6. Counted'
  BY <1>1, <1>3, <1>5 DEF Counted, Onward
<1> QED
  BY <1>4, <1>6

(* The errand ends without another landing *)
LEMMA EndStep ==
  ASSUME VendorInv, errand.at \in {"look", "write", "after"}, NEW end \in {"told", "failed", "raised"},
         errand.at = "after" <=> end \in {"told", "raised"},
         errand' = [errand EXCEPT !.at = end], UNCHANGED <<target, colleagueEdits>>
  PROVE  VendorInv'
<1> USE DEF VendorInv
<1>1. errand' \in Errands
  BY DEF ErrandTypes, Errands
<1>2. /\ errand'.at = end /\ errand'.connector = errand.connector /\ errand'.tool = errand.tool
      /\ errand'.does = errand.does /\ errand'.wanted = errand.wanted /\ errand'.seen = errand.seen
      /\ errand'.landed = errand.landed /\ errand'.unheard = errand.unheard
      /\ errand'.tries = errand.tries /\ errand'.left = errand.left
      /\ errand'.there = errand.there /\ errand'.broken = errand.broken
      /\ errand'.restored = errand.restored
  BY DEF ErrandTypes, Errands
<1>3. ErrandTypes' /\ AsDeclared' /\ Cautious' /\ Traced'
  BY <1>1, <1>2, QuietStep
<1>4. Counted'
  BY <1>2 DEF Counted, ErrandTypes, Errands
<1> QED
  BY <1>3, <1>4

(* A request that never arrives or is turned away lands nothing. *)
LEMMA TroubledStep == VendorInv /\ RequestTroubled => VendorInv'
<1> SUFFICES ASSUME VendorInv, RequestTroubled PROVE VendorInv'
  OBVIOUS
<1>1. errand.at \in {"look", "write", "after"} /\ UNCHANGED <<target, colleagueEdits>>
  BY DEF RequestTroubled
<1>2. CASE errand.tries + 1 < Tries(errand.connector)
  <2> USE DEF VendorInv
  <2>1. errand' = [errand EXCEPT !.tries = errand.tries + 1]
    BY <1>2 DEF RequestTroubled, TriedAgain
  <2>2. errand' \in Errands
    BY <2>1 DEF ErrandTypes, Errands
  <2>3. /\ errand'.at = errand.at /\ errand'.connector = errand.connector /\ errand'.tool = errand.tool
        /\ errand'.does = errand.does /\ errand'.wanted = errand.wanted /\ errand'.seen = errand.seen
        /\ errand'.landed = errand.landed /\ errand'.unheard = errand.unheard
        /\ errand'.tries = errand.tries + 1 /\ errand'.left = errand.left
        /\ errand'.there = errand.there /\ errand'.broken = errand.broken
      /\ errand'.restored = errand.restored
        /\ errand.tries \in Nat /\ errand.landed \in Nat
    BY <2>1 DEF ErrandTypes, Errands
  <2>4. ErrandTypes' /\ AsDeclared' /\ Cautious' /\ Traced'
    BY <1>1, <2>2, <2>3, QuietStep
  <2>5. Tries(errand.connector) \in 1..Attempts /\ Attempts \in Nat
    BY TriesAreFew, AttemptsAssumption
  <2>6. Counted'
    BY <1>1, <1>2, <2>3, <2>5 DEF Counted
  <2> QED
    BY <2>4, <2>6
<1>3. CASE ~(errand.tries + 1 < Tries(errand.connector))
  <2> DEFINE end == IF errand.at = "after" THEN "raised" ELSE "failed"
  <2>1. errand' = [errand EXCEPT !.at = end]
    BY <1>3 DEF RequestTroubled, TriedAgain
  <2>2. end \in {"told", "failed", "raised"} /\ (errand.at = "after" <=> end \in {"told", "raised"})
    BY <1>1
  <2> HIDE DEF end
  <2> QED
    BY <1>1, <2>1, <2>2, EndStep
<1> QED
  BY <1>2, <1>3

(* A landing that is answered is reported as what it was. *)
LEMMA AnsweredStep == VendorInv /\ WriteAnswered => VendorInv'
<1> SUFFICES ASSUME VendorInv, WriteAnswered PROVE VendorInv'
  OBVIOUS
<1>1. PICK r \in ServerLeaves : target' = r /\ errand' = [Lands(errand) EXCEPT !.at = Closing(errand)]
  BY DEF WriteAnswered
<1>2. errand.at = "write" /\ UNCHANGED colleagueEdits /\ Closing(errand) \in {"after", "told"}
  BY DEF WriteAnswered, Closing
<1>3. errand' \in Errands
  <2>1. errand \in Errands
    BY DEF VendorInv, ErrandTypes
  <2>2. errand' = [errand EXCEPT !.landed = errand.landed + 1, !.tries = 0, !.at = Closing(errand)]
    BY <1>1, <2>1 DEF Lands, Errands
  <2>3. errand' = [connector |-> errand.connector, tool |-> errand.tool, does |-> errand.does,
                   wanted |-> errand.wanted, there |-> errand.there, at |-> Closing(errand),
                   left |-> errand.left, tries |-> 0,
                   seen |-> errand.seen, landed |-> errand.landed + 1, unheard |-> errand.unheard,
                   broken |-> errand.broken, restored |-> errand.restored]
    BY <2>1, <2>2 DEF Errands
  <2> QED
    BY <1>2, <2>1, <2>3 DEF Errands
<1>4. /\ errand'.at = Closing(errand) /\ errand'.connector = errand.connector /\ errand'.tool = errand.tool
      /\ errand'.does = errand.does /\ errand'.wanted = errand.wanted /\ errand'.seen = errand.seen
      /\ errand'.landed = errand.landed + 1 /\ errand'.unheard = errand.unheard /\ errand'.tries = 0
      /\ errand'.there = errand.there /\ errand'.broken = errand.broken
      /\ errand'.restored = errand.restored /\ errand.landed \in Nat /\ errand.tries \in Nat
  BY <1>1 DEF Lands, VendorInv, ErrandTypes, Errands
<1>5. ErrandTypes' /\ AsDeclared' /\ Cautious' /\ Traced'
  BY <1>1, <1>2, <1>3, <1>4, LandingStep
<1>6. Tries(errand.connector) \in 1..Attempts /\ Attempts \in Nat
  BY TriesAreFew, AttemptsAssumption
<1>7. Counted'
  BY <1>2, <1>4, <1>6 DEF VendorInv, Counted
<1> QED
  BY <1>5, <1>7 DEF VendorInv

(* A landing that goes unheard: the errand goes on asking, or it fails.    *)
LEMMA UnheardLanding ==
  ASSUME VendorInv, errand.at = "write", NEW r \in ServerLeaves, target' = r, UNCHANGED colleagueEdits,
         NEW goesOn \in BOOLEAN, goesOn => errand.tries + 1 < Tries(errand.connector), NEW left \in Nat,
         errand' = [errand EXCEPT
             !.landed = errand.landed + 1, !.unheard = errand.unheard + 1,
             !.tries = left, !.at = IF goesOn THEN "write" ELSE "failed"],
         goesOn => left = errand.tries + 1, left <= Attempts
  PROVE  VendorInv'
<1> DEFINE stage == IF goesOn THEN "write" ELSE "failed"
<1>1. errand' \in Errands
  <2>1. errand \in Errands /\ stage \in {"write", "failed"}
    BY DEF VendorInv, ErrandTypes, Errands
  <2>2. errand' = [errand EXCEPT !.landed = errand.landed + 1, !.unheard = errand.unheard + 1,
                                 !.tries = left, !.at = stage]
    OBVIOUS
  <2> HIDE DEF stage
  <2>3. errand' = [connector |-> errand.connector, tool |-> errand.tool, does |-> errand.does,
                   wanted |-> errand.wanted, there |-> errand.there, at |-> stage,
                   left |-> errand.left, tries |-> left,
                   seen |-> errand.seen, landed |-> errand.landed + 1, unheard |-> errand.unheard + 1,
                   broken |-> errand.broken, restored |-> errand.restored]
    BY <2>1, <2>2 DEF Errands
  <2> QED
    BY <2>1, <2>3 DEF Errands
<1>2. /\ errand'.at = (IF goesOn THEN "write" ELSE "failed")
      /\ errand'.connector = errand.connector /\ errand'.tool = errand.tool
      /\ errand'.does = errand.does /\ errand'.wanted = errand.wanted /\ errand'.seen = errand.seen
      /\ errand'.landed = errand.landed + 1 /\ errand'.unheard = errand.unheard + 1 /\ errand'.tries = left
      /\ errand'.there = errand.there /\ errand'.broken = errand.broken
      /\ errand'.restored = errand.restored
      /\ errand.landed \in Nat /\ errand.tries \in Nat /\ errand.unheard \in Nat
  BY DEF VendorInv, ErrandTypes, Errands
<1>3. ErrandTypes' /\ AsDeclared' /\ Cautious' /\ Traced'
  BY <1>1, <1>2, LandingStep
<1>4. Tries(errand.connector) \in 1..Attempts /\ Attempts \in Nat
  BY TriesAreFew, AttemptsAssumption
<1>5. Counted'
  BY <1>2, <1>4 DEF VendorInv, Counted
<1> QED
  BY <1>3, <1>5 DEF VendorInv

(* A landing whose answer is lost is repeated only by a client that may. *)
LEMMA UnheardStep == VendorInv /\ WriteUnheard => VendorInv'
<1> SUFFICES ASSUME VendorInv, WriteUnheard PROVE VendorInv'
  OBVIOUS
<1> DEFINE goesOn == errand.tries + 1 < Tries(errand.connector)
           left == IF goesOn THEN errand.tries + 1 ELSE errand.tries
           heard == [Lands(errand) EXCEPT !.unheard = @ + 1, !.tries = errand.tries]
<1>1. PICK r \in ServerLeaves : target' = r /\ errand' = TriedAgain(heard)
  BY DEF WriteUnheard
<1>2. errand.at = "write" /\ UNCHANGED colleagueEdits
  BY DEF WriteUnheard
<1>3. errand \in Errands /\ errand.tries \in Nat /\ errand.tries < Tries(errand.connector)
      /\ Tries(errand.connector) \in 1..Attempts /\ Attempts \in Nat
  BY <1>2, TriesAreFew, AttemptsAssumption DEF VendorInv, ErrandTypes, Errands, Counted
<1>4. heard = [errand EXCEPT !.landed = errand.landed + 1, !.unheard = errand.unheard + 1,
                             !.tries = errand.tries]
  BY <1>3 DEF Lands, Errands
<1>5. heard.tries = errand.tries /\ heard.connector = errand.connector /\ heard.at = "write"
  BY <1>2, <1>3, <1>4 DEF Errands
<1>6. errand' = [errand EXCEPT !.landed = errand.landed + 1, !.unheard = errand.unheard + 1,
                               !.tries = left, !.at = IF goesOn THEN "write" ELSE "failed"]
  <2>1. CASE goesOn
    BY <1>1, <1>2, <1>3, <1>4, <1>5, <2>1 DEF TriedAgain, Errands
  <2>2. CASE ~goesOn
    BY <1>1, <1>2, <1>3, <1>4, <1>5, <2>2 DEF TriedAgain, Errands
  <2> QED
    BY <2>1, <2>2
<1>7. left \in Nat /\ left <= Attempts /\ (goesOn => left = errand.tries + 1) /\ goesOn \in BOOLEAN
  BY <1>3
<1> HIDE DEF left
<1> QED
  BY <1>1, <1>2, <1>6, <1>7, UnheardLanding

(* An answer that cannot be read ends the errand. *)
LEMMA GarbledStep == VendorInv /\ WriteGarbled => VendorInv'
<1> SUFFICES ASSUME VendorInv, WriteGarbled PROVE VendorInv'
  OBVIOUS
<1>1. PICK r \in ServerLeaves :
        target' = r /\ errand' = [Lands(errand) EXCEPT !.unheard = @ + 1, !.at = "failed"]
  BY DEF WriteGarbled
<1>2. errand.at = "write" /\ UNCHANGED colleagueEdits /\ errand \in Errands
  BY DEF WriteGarbled, VendorInv, ErrandTypes
<1>3. errand' = [errand EXCEPT !.landed = errand.landed + 1, !.unheard = errand.unheard + 1,
                               !.tries = 0, !.at = IF FALSE THEN "write" ELSE "failed"]
  BY <1>1, <1>2 DEF Lands, Errands
<1>4. 0 <= Attempts
  BY AttemptsAssumption
<1> QED
  BY <1>1, <1>2, <1>3, <1>4, UnheardLanding

(* A document that is left half made is reported as one that failed. *)
LEMMA BrokenStep == VendorInv /\ WriteBroken => VendorInv'
<1> SUFFICES ASSUME VendorInv, WriteBroken PROVE VendorInv'
  OBVIOUS
<1> USE DEF VendorInv
<1>1. /\ errand.at = "write" /\ errand.connector = "documents" /\ target' \in ServerLeaves
      /\ errand' = [errand EXCEPT !.broken = TRUE, !.at = "failed"] /\ colleagueEdits' = colleagueEdits
  BY DEF WriteBroken
<1>2. target' \in Records /\ target'.notes <= target.notes + 1
  BY <1>1, WhatIsLeft
<1>3. errand' \in Errands
  BY <1>1 DEF ErrandTypes, Errands
<1>4. /\ errand'.at = "failed" /\ errand'.connector = errand.connector /\ errand'.tool = errand.tool
      /\ errand'.does = errand.does /\ errand'.wanted = errand.wanted /\ errand'.seen = errand.seen
      /\ errand'.landed = errand.landed /\ errand'.unheard = errand.unheard
      /\ errand'.tries = errand.tries /\ errand'.broken = TRUE /\ errand'.restored = errand.restored
      /\ errand.tries \in Nat /\ errand.landed \in Nat /\ errand.unheard \in Nat
  BY <1>1 DEF ErrandTypes, Errands
<1>5. Tries(errand.connector) = 1
  BY <1>1 DEF Tries
<1>6. errand.landed = 0
  BY <1>1, <1>4, <1>5 DEF Counted
<1>7. ErrandTypes' /\ AsDeclared' /\ Cautious'
  BY <1>1, <1>2, <1>3, <1>4 DEF ErrandTypes, AsDeclared, IsTool, Cautious
<1>8. Counted'
  BY <1>1, <1>4, <1>5, <1>6 DEF Counted
<1>9. target.notes \in Nat /\ target'.notes \in Nat
  BY <1>2 DEF ErrandTypes, Records
<1>10. Traced'
  BY <1>1, <1>2, <1>4, <1>6, <1>9 DEF Traced, Counted
<1> QED
  BY <1>7, <1>8, <1>10

(* The landings of an errand are counted, declared, cautious and traced in *)
(* every reachable state, for any number of attempts and of edits by       *)
(* colleagues.                                                             *)
THEOREM VendorInductive == VendorSpec => []VendorInv
<1>1. VendorInit => VendorInv
  <2> SUFFICES ASSUME VendorInit PROVE VendorInv
    OBVIOUS
  <2> USE DEF VendorInit, Unbegun
  <2>1. ErrandTypes
    BY AttemptsAssumption DEF ErrandTypes, Errands, Records, RecordStates, Deeds, Fresh
  <2>2. Counted
    BY TriesAreFew, AttemptsAssumption DEF Counted
  <2>3. Traced
    BY DEF Traced, Fresh
  <2> QED
    BY <2>1, <2>2, <2>3 DEF VendorInv, AsDeclared, Cautious
<1>2. VendorInv /\ [VendorNext]_vendorVars => VendorInv'
  <2> SUFFICES ASSUME VendorInv, [VendorNext]_vendorVars PROVE VendorInv'
    OBVIOUS
  <2>1. CASE LookRefused
    BY <2>1, EndStep DEF LookRefused
  <2>2. CASE WriteRefused
    BY <2>2, EndStep DEF WriteRefused
  <2>3. CASE NameFetched
    BY <2>3, EndStep DEF NameFetched
  <2>4. CASE NameRefused
    BY <2>4, EndStep DEF NameRefused
  <2>5. CASE UNCHANGED vendorVars
    BY <2>5 DEF vendorVars, VendorInv, ErrandTypes, AsDeclared, IsTool, Counted, Cautious, Traced, Borne
  <2> QED
    BY <2>1, <2>2, <2>3, <2>4, <2>5, ColleagueStep, BeginStep, LookStep, TroubledStep, AnsweredStep,
       UnheardStep, GarbledStep, BrokenStep DEF VendorNext
<1> QED
  BY <1>1, <1>2, PTL DEF VendorSpec

(* Every variable of the errands keeps its type (the clients of            *)
(* connectors/).                                                           *)
THEOREM VendorTypesHold == VendorSpec => []VendorTypes
BY VendorInductive, VendorInvSuffices, PTL

(* A write that is reported done is borne out by the record or contradicted*)
(* by its read-back, a call that is reported failed leaves no trace, and   *)
(* nothing is written twice but for a lost answer, with the exceptions the *)
(* three name (the vendors' clients, the retries of http.py, the read-backs*)
(* the verifier has learnt, the risk each tool declares).                  *)
THEOREM WritesKeepFaithHolds == VendorSpec => []WritesKeepFaith
BY VendorInductive, VendorInvSuffices, PTL
=============================================================================
