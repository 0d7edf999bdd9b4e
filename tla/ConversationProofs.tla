-------------------------- MODULE ConversationProofs --------------------------
(* Theorems about Conversation, for every set of runs, every step and call *)
(* budget and every history budget.                                        *)
EXTENDS Conversation, TLAPS

(* In a conversation of whole turns the highest number is an answer's, and *)
(* zero where there is none.                                               *)
LEMMA HighestIsEven ==
  ASSUME TypeOK, TurnInv
  PROVE  Highest(rows) \in Nat /\ Highest(rows) % 2 = 0 /\ \A x \in rows : x.seq <= Highest(rows)
<1>1. CASE rows = {}
  BY <1>1 DEF Highest
<1>2. CASE rows # {}
  <2>1. PICK m \in rows : \A x \in rows : x.seq <= m.seq
    BY <1>2 DEF TurnInv, Last
  <2>2. m.seq \in {x.seq : x \in rows} /\ \A x \in rows : m.seq >= x.seq
    BY <2>1 DEF TypeOK, Message
  <2>3. Highest(rows) \in {x.seq : x \in rows} /\ \A x \in rows : x.seq <= Highest(rows)
    BY <1>2, <2>2, <2>1 DEF Highest
  <2>4. PICK k \in rows : k.seq = Highest(rows)
    BY <2>3
  <2>5. k.seq \in Nat /\ k.role \in {"user", "assistant"}
    BY DEF TypeOK, Message
  <2>6. k.seq % 2 # 1
    <3>1. SUFFICES ASSUME k.seq % 2 = 1 PROVE FALSE
      OBVIOUS
    <3>2. k.role = "user"
      BY <3>1 DEF TurnInv, WholeTurns, Whole
    <3>3. PICK y \in rows : y.seq = k.seq + 1
      BY <3>2 DEF TurnInv, WholeTurns, Whole
    <3> QED
      BY <3>3, <2>3, <2>4, <2>5
  <2> QED
    BY <2>3, <2>4, <2>5, <2>6
<1> QED
  BY <1>1, <1>2

(* A turn is whole and holds its question and its answer.                  *)
LEMMA TurnIsWhole ==
  ASSUME TypeOK, NEW r \in Runs, top[r] % 2 = 0
  PROVE  /\ Turn(r) \subseteq Message
         /\ Whole(Turn(r))
         /\ \A x \in Turn(r) : x.seq \in {top[r] + 1, top[r] + 2}
         /\ Last(Turn(r))
<1> DEFINE taintOf == IF r \in Streaming THEN saw[r] ELSE taint[r]
           q == [seq |-> top[r] + 1, role |-> "user", by |-> r,
                 tainted |-> RowTainted(taintOf, "user")]
           a == [seq |-> top[r] + 2, role |-> "assistant", by |-> r,
                 tainted |-> RowTainted(taintOf, "assistant")]
<1>1. Turn(r) = {q, a}
  BY DEF Turn
<1>2. q.tainted = FALSE /\ a.tainted = FALSE
  BY DEF RowTainted
<1>3. top[r] \in Nat
  BY DEF TypeOK
<1>4. q \in Message /\ a \in Message
  <2>1. q.tainted \in BOOLEAN /\ a.tainted \in BOOLEAN
    BY <1>2
  <2> QED
    BY <2>1, <1>3 DEF Message
<1>5. /\ q.seq = top[r] + 1 /\ q.role = "user" /\ q.by = r
      /\ a.seq = top[r] + 2 /\ a.role = "assistant" /\ a.by = r
  OBVIOUS
<1>6. (top[r] + 1) % 2 = 1 /\ (top[r] + 2) % 2 = 0
  BY <1>3
<1> HIDE DEF q, a
<1>7. Whole({q, a})
  BY <1>3, <1>5, <1>6 DEF Whole
<1>8. Last({q, a})
  BY <1>3, <1>5 DEF Last
<1> QED
  BY <1>1, <1>4, <1>5, <1>7, <1>8

(* Two sets of whole turns with no number in common are whole together.    *)
LEMMA WholeUnion ==
  ASSUME NEW S, NEW T, Whole(S), Whole(T),
         \A x \in S, y \in T : x.seq # y.seq
  PROVE  Whole(S \cup T)
BY DEF Whole

(* Whole turns are left when whole turns go.                               *)
LEMMA WholeDifference ==
  ASSUME NEW S \in SUBSET Message, NEW T \in SUBSET S, Whole(S), Whole(T)
  PROVE  Whole(S \ T)
<1> SUFFICES ASSUME NEW x \in S \ T
             PROVE  \E y \in S \ T :
                      y.by = x.by /\ y.seq = (IF x.role = "user" THEN x.seq + 1 ELSE x.seq - 1)
  BY DEF Whole
<1>1. PICK y \in S : y.by = x.by /\ y.seq = (IF x.role = "user" THEN x.seq + 1 ELSE x.seq - 1)
  BY DEF Whole
<1>2. y \notin T
  <2> SUFFICES ASSUME y \in T PROVE FALSE
    OBVIOUS
  <2>1. PICK z \in T : z.seq = (IF y.role = "user" THEN y.seq + 1 ELSE y.seq - 1)
    BY DEF Whole
  <2>2. x.seq \in Nat /\ y.seq \in Nat
    BY DEF Message
  <2>3. /\ x.role = (IF x.seq % 2 = 1 THEN "user" ELSE "assistant")
        /\ y.role = (IF y.seq % 2 = 1 THEN "user" ELSE "assistant")
    BY DEF Whole
  <2>4. z.seq = x.seq
    BY <1>1, <2>1, <2>2, <2>3
  <2>5. z = x
    BY <2>1, <2>4 DEF Whole
  <2> QED
    BY <2>1, <2>5
<1> QED
  BY <1>1, <1>2

(* The types of the state and the count of calls left survive every step.  *)
LEMMA TypesKept ==
  ASSUME TypeOK, CallInv, TurnInv, [Next]_vars
  PROVE  TypeOK' /\ CallInv'
<1> USE ConversationAssumption
    DEF TypeOK, CallInv, PCs, ToolKinds, Goto, Ends, runVars, taintVars, clearVars
<1>1. ASSUME NEW r \in Runs, Start(r) PROVE TypeOK' /\ CallInv'
  BY <1>1 DEF Start
<1>2. ASSUME NEW r \in Runs, Answers(r) PROVE TypeOK' /\ CallInv'
  BY <1>2 DEF Answers
<1>3. ASSUME NEW r \in Runs, NoAnswer(r) PROVE TypeOK' /\ CallInv'
  BY <1>3 DEF NoAnswer
<1>4. ASSUME NEW r \in Runs, NEW n \in 1..MaxCalls, AsksForTools(r, n) PROVE TypeOK' /\ CallInv'
  <2>1. steps' \in [Runs -> 0..MaxSteps]
    BY <1>4 DEF AsksForTools, InBudget, StepSpent
  <2>2. calls' \in [Runs -> 0..MaxCalls] /\ CallInv'
    BY <1>4 DEF AsksForTools
  <2> QED
    BY <1>4, <2>1, <2>2 DEF AsksForTools
<1>5. ASSUME NEW r \in Runs, CallFails(r) PROVE TypeOK' /\ CallInv'
  BY <1>5 DEF CallFails
<1>6. ASSUME NEW r \in Runs, NEW t \in ToolKinds, CallSucceeds(r, t) PROVE TypeOK' /\ CallInv'
  <2>1. loose' \in [Runs -> BOOLEAN]
    BY <1>6, Zenon DEF CallSucceeds
  <2> QED
    BY <1>6, <2>1 DEF CallSucceeds
<1>7. ASSUME NEW r \in Runs, Rendered(r) PROVE TypeOK' /\ CallInv'
  <2>1. /\ saw' \in [Runs -> BOOLEAN] /\ taint' \in [Runs -> BOOLEAN]
        /\ heard' \in [Runs -> BOOLEAN] /\ carries' \in [Runs -> BOOLEAN]
    BY <1>7 DEF Rendered, Observed, Untrusted
  <2>2. calls[r] \in 1..MaxCalls
    BY <1>7 DEF Rendered
  <2>3. calls' \in [Runs -> 0..MaxCalls] /\ pc' \in [Runs -> PCs] /\ CallInv'
    BY <1>7, <2>2 DEF Rendered
  <2> QED
    BY <1>7, <2>1, <2>3 DEF Rendered
<1>8. ASSUME NEW r \in Runs, Disconnects(r) PROVE TypeOK' /\ CallInv'
  BY <1>8 DEF Disconnects
<1>9. ASSUME NEW r \in Runs, AppendRead(r) PROVE TypeOK' /\ CallInv'
  <2>1. Highest(rows) \in Nat
    BY HighestIsEven
  <2> QED
    BY <1>9, <2>1 DEF AppendRead
<1>10. ASSUME NEW r \in Runs, AppendWrite(r) PROVE TypeOK' /\ CallInv'
  <2>1. Turn(r) \subseteq Message
    BY <1>10, TurnIsWhole DEF AppendWrite, TurnInv
  <2> QED
    BY <1>10, <2>1 DEF AppendWrite
<1>11. ASSUME NEW r \in Runs, AppendFails(r) PROVE TypeOK' /\ CallInv'
  BY <1>11 DEF AppendFails
<1>12. CASE ClearRead
  BY <1>12 DEF ClearRead
<1>13. CASE ClearWrite
  BY <1>13 DEF ClearWrite
<1>14. CASE UNCHANGED vars
  BY <1>14 DEF vars
<1> QED
  BY <1>1, <1>2, <1>3, <1>4, <1>5, <1>6, <1>7, <1>8, <1>9, <1>10, <1>11, <1>12, <1>13, <1>14
     DEF Next, RunStep

(* Turns stay whole through every step: appends, clears and all others.    *)
LEMMA TurnsKept ==
  ASSUME TypeOK, TurnInv, [Next]_vars
  PROVE  TurnInv'
<1>1. ASSUME NEW r \in Runs, AppendRead(r) PROVE TurnInv'
  BY <1>1, HighestIsEven DEF AppendRead, Goto, TurnInv, WholeTurns, clearVars, TypeOK
<1>2. ASSUME NEW r \in Runs, AppendWrite(r) PROVE TurnInv'
  <2>1. top[r] % 2 = 0 /\ rows' = rows \cup Turn(r) /\ UNCHANGED clearing /\ ~Clash(r)
    BY <1>2 DEF AppendWrite, TurnInv, clearVars
  <2>2. /\ Turn(r) \subseteq Message /\ Whole(Turn(r)) /\ Last(Turn(r))
        /\ \A x \in Turn(r) : x.seq \in {top[r] + 1, top[r] + 2}
    BY <2>1, TurnIsWhole
  <2>3. Whole(rows')
    BY <2>1, <2>2, WholeUnion DEF Clash, TurnInv, WholeTurns
  <2>4. ASSUME NEW S \in SUBSET rows', S # {} PROVE Last(S)
    <3>1. ASSUME NEW Q, Q # {}, Q \subseteq Turn(r) PROVE Last(Q)
      <4>1. \A x \in Q : x.seq \in {top[r] + 1, top[r] + 2}
        BY <2>2, <3>1
      <4>2. top[r] \in Nat
        BY DEF TypeOK
      <4>3. PICK x \in Q : TRUE
        BY <3>1
      <4>4. CASE \E y \in Q : y.seq = top[r] + 2
        BY <4>1, <4>2, <4>4 DEF Last
      <4>5. CASE \A y \in Q : y.seq = top[r] + 1
        BY <4>2, <4>3, <4>5 DEF Last
      <4> QED
        BY <4>1, <4>4, <4>5
    <3>2. CASE S \cap rows = {}
      BY <2>1, <2>4, <3>1, <3>2
    <3>3. CASE S \cap Turn(r) = {}
      BY <2>1, <2>4, <3>3 DEF TurnInv
    <3>4. CASE S \cap rows # {} /\ S \cap Turn(r) # {}
      <4>1. PICK x \in S \cap rows : \A y \in S \cap rows : y.seq <= x.seq
        BY <3>4 DEF TurnInv, Last
      <4>2. PICK z \in S \cap Turn(r) : \A y \in S \cap Turn(r) : y.seq <= z.seq
        BY <3>1, <3>4 DEF Last
      <4>3. \A y \in S : y \in Message
        BY <2>1, <2>2 DEF TypeOK
      <4>4. \A y \in S : y.seq \in Nat
        BY <4>3 DEF Message
      <4>5. \A y \in S : y.seq <= x.seq \/ y.seq <= z.seq
        BY <2>1, <4>1, <4>2
      <4> QED
        BY <4>1, <4>2, <4>4, <4>5 DEF Last
    <3> QED
      BY <3>2, <3>3, <3>4
  <2>5. \A q \in Runs : pc'[q] = "appending" => top'[q] % 2 = 0
    BY <1>2 DEF AppendWrite, Ends, Goto, TurnInv, TypeOK
  <2> QED
    BY <2>1, <2>3, <2>4, <2>5 DEF TurnInv, WholeTurns
<1>3. CASE ClearRead
  BY <1>3 DEF ClearRead, TurnInv, WholeTurns
<1>4. CASE ClearWrite
  <2>1. rows' = rows \ clearing /\ clearing' = {} /\ UNCHANGED <<pc, top>>
    BY <1>4 DEF ClearWrite
  <2>2. Whole(rows')
    BY <2>1, WholeDifference DEF TurnInv, WholeTurns, TypeOK
  <2>3. Whole(clearing')
    BY <2>1 DEF Whole
  <2> QED
    BY <2>1, <2>2, <2>3 DEF TurnInv, WholeTurns
<1>5. ASSUME UNCHANGED <<rows, clearing>>,
             \A r \in Runs : pc'[r] = "appending" => pc[r] = "appending" /\ top'[r] = top[r]
      PROVE TurnInv'
  BY <1>5 DEF TurnInv, WholeTurns
<1>6. ASSUME NEW r \in Runs, AppendFails(r) PROVE TurnInv'
  BY <1>5, <1>6 DEF AppendFails, Ends, Goto, clearVars, TypeOK
<1>7. ASSUME NEW r \in Runs, Start(r) \/ Answers(r) \/ NoAnswer(r) PROVE TurnInv'
  BY <1>5, <1>7 DEF Start, Answers, NoAnswer, Ends, Goto, clearVars, TypeOK
<1>8. ASSUME NEW r \in Runs, NEW n \in 1..MaxCalls, AsksForTools(r, n) PROVE TurnInv'
  BY <1>5, <1>8 DEF AsksForTools, Goto, clearVars, TypeOK
<1>9. ASSUME NEW r \in Runs, CallFails(r) \/ Rendered(r) \/ Disconnects(r) PROVE TurnInv'
  BY <1>5, <1>9 DEF CallFails, Rendered, Disconnects, Ends, Goto, clearVars, TypeOK
<1>10. ASSUME NEW r \in Runs, NEW t \in ToolKinds, CallSucceeds(r, t) PROVE TurnInv'
  BY <1>5, <1>10 DEF CallSucceeds, Goto, clearVars, TypeOK
<1>11. CASE UNCHANGED vars
  BY <1>5, <1>11 DEF vars
<1> QED
  BY <1>1, <1>2, <1>3, <1>4, <1>6, <1>7, <1>8, <1>9, <1>10, <1>11 DEF Next, RunStep

(* A run that has put untrusted content before the model stays tainted, so *)
(* no step of it writes without a person.                                  *)
LEMMA TaintKept ==
  ASSUME TypeOK, TaintInv, [Next]_vars
  PROVE  TaintInv'
<1> USE DEF TaintInv, NoUnattendedAfterRead, TypeOK, Goto, Ends, taintVars, runVars, clearVars
<1>1. ASSUME NEW r \in Runs, Start(r) PROVE TaintInv'
  BY <1>1 DEF Start
<1>2. ASSUME NEW r \in Runs, Answers(r) \/ NoAnswer(r) PROVE TaintInv'
  BY <1>2 DEF Answers, NoAnswer
<1>3. ASSUME NEW r \in Runs, NEW n \in 1..MaxCalls, AsksForTools(r, n) PROVE TaintInv'
  BY <1>3 DEF AsksForTools
<1>4. ASSUME NEW r \in Runs, CallFails(r) \/ Disconnects(r) PROVE TaintInv'
  BY <1>4 DEF CallFails, Disconnects
<1>5. ASSUME NEW r \in Runs, NEW t \in ToolKinds, CallSucceeds(r, t) PROVE TaintInv'
  <2>1. t = "write" => ~heard[r]
    BY <1>5 DEF CallSucceeds
  <2>2. \A q \in Runs : ~loose'[q]
    BY <1>5, <2>1, Zenon DEF CallSucceeds
  <2> QED
    BY <1>5, <2>2 DEF CallSucceeds
<1>6. ASSUME NEW r \in Runs, Rendered(r) PROVE TaintInv'
  BY <1>6 DEF Rendered, Observed, Untrusted
<1>7. ASSUME NEW r \in Runs, AppendRead(r) \/ AppendWrite(r) \/ AppendFails(r) PROVE TaintInv'
  BY <1>7 DEF AppendRead, AppendWrite, AppendFails
<1>8. CASE ClearRead \/ ClearWrite
  BY <1>8 DEF ClearRead, ClearWrite
<1>9. CASE UNCHANGED vars
  BY <1>9 DEF vars
<1> QED
  BY <1>1, <1>2, <1>3, <1>4, <1>5, <1>6, <1>7, <1>8, <1>9 DEF Next, RunStep

(* The inductive invariant of the stored conversation.                     *)
THEOREM StoreCorrect == Spec => [](TypeOK /\ CallInv /\ TurnInv)
<1>1. Init => TypeOK /\ CallInv /\ TurnInv
  BY ConversationAssumption
     DEF Init, TypeOK, CallInv, TurnInv, WholeTurns, Whole, PCs, ToolKinds
<1>2. TypeOK /\ CallInv /\ TurnInv /\ [Next]_vars => (TypeOK /\ CallInv /\ TurnInv)'
  BY TypesKept, TurnsKept
<1> QED
  BY <1>1, <1>2, PTL DEF Spec

(* The types of the state, for every set of runs and every budget.         *)
COROLLARY ConversationTypes == Spec => []TypeOK
<1>1. TypeOK /\ CallInv /\ TurnInv => TypeOK
  OBVIOUS
<1> QED
  BY <1>1, StoreCorrect, PTL

(* The stored conversation is always a sequence of whole turns, however    *)
(* many tabs append and start again at once (ConversationStore).           *)
THEOREM TurnsStayWhole == Spec => []WholeTurns
<1>1. TypeOK /\ CallInv /\ TurnInv => WholeTurns
  BY DEF TurnInv
<1> QED
  BY <1>1, StoreCorrect, PTL

(* No run writes without a person once it has put untrusted content before *)
(* the model (TaintTracker, and the order of calls and results in run).    *)
THEOREM NeverLoose == Spec => []NoUnattendedAfterRead
<1>1. Init => TaintInv
  BY DEF Init, TaintInv, NoUnattendedAfterRead
<1>2. TypeOK /\ TaintInv /\ [Next]_vars => TaintInv'
  BY TaintKept
<1>3. TaintInv => NoUnattendedAfterRead
  BY DEF TaintInv
<1> QED
  BY <1>1, <1>2, <1>3, ConversationTypes, PTL DEF Spec
=============================================================================
