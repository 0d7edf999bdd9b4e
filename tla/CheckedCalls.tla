---------------------------- MODULE CheckedCalls ----------------------------
(***************************************************************************)
(* What a gateway promises of the calls that go through it, without policy,*)
(* limits, circuits or clocks.  A call is asked of the other side once or  *)
(* not at all, and ends once: it returns with a record, which says whether *)
(* it was asked, or it is given up before it was.  A write may be checked  *)
(* by a read-back, which is a call inside the write: it starts when the    *)
(* write has been answered and is over before the write is.  It sees what  *)
(* stands, which others may change, and the verdict is on what it saw.     *)
(*                                                                         *)
(* The promise has a hole: a call that was asked may still end without a   *)
(* record.  LetGo and Lose are that hole, and no other step has it.        *)
(***************************************************************************)
CONSTANTS Calls, Writes, Checks, CheckOf, Refusals, Outcomes

VARIABLES
    stage,    \* of each call and each check
    asked,    \* those the other side was asked for
    standing, \* writes whose record is now as asked
    found,    \* what the check of a write saw
    verdict,  \* on each write
    record    \* of each call and each check

callVars == <<stage, asked, standing, found, verdict, record>>

Init ==
    /\ stage = [c \in Calls \cup Checks |-> IF c \in Calls THEN "open" ELSE "asleep"]
    /\ asked = {} /\ standing = {}
    /\ found = [w \in Writes |-> "nothing"]
    /\ verdict = [w \in Writes |-> "none"]
    /\ record = [c \in Calls \cup Checks |-> "none"]

-----------------------------------------------------------------------------
Ask(c) ==
    /\ stage[c] = "open" /\ c \notin asked
    /\ asked' = asked \cup {c}
    /\ UNCHANGED <<stage, standing, found, verdict, record>>

(* A write is answered: whatever the answer, it may have taken effect, and *)
(* is checked or not                                                       *)
Unchecked(w) ==
    /\ stage[w] = "open" /\ w \in asked
    /\ verdict[w] = "none" /\ stage[CheckOf[w]] = "asleep"

Answer(w) ==
    /\ Unchecked(w)
    /\ standing' \in {standing, standing \cup {w}}
    /\ \/ UNCHANGED <<stage, verdict>>
       \/ /\ \E v \in {"unverifiable", "unavailable"} : verdict' = [verdict EXCEPT ![w] = v]
          /\ UNCHANGED stage
       \/ /\ stage' = [stage EXCEPT ![CheckOf[w]] = "open"]
          /\ UNCHANGED verdict
    /\ UNCHANGED <<asked, found, record>>

(* What stands is changed by others too *)
Change(w) ==
    /\ stage[w] = "open" /\ w \in asked
    /\ standing' = IF w \in standing THEN standing \ {w} ELSE standing \cup {w}
    /\ UNCHANGED <<stage, asked, found, verdict, record>>

Look(w) ==
    /\ stage[CheckOf[w]] = "open" /\ CheckOf[w] \in asked /\ found[w] = "nothing"
    /\ found' = [found EXCEPT ![w] = IF w \in standing THEN "asked" ELSE "other"]
    /\ UNCHANGED <<stage, asked, standing, verdict, record>>

Judge(w) ==
    /\ stage[w] = "open" /\ verdict[w] = "none" /\ stage[CheckOf[w]] = "returned"
    /\ \E v \in {"confirmed", "contradicted", "unavailable"} :
          /\ v # "unavailable" => record[CheckOf[w]] = "allowed"
          /\ v = "confirmed" => found[w] = "asked"
          /\ v = "contradicted" => found[w] = "other"
          /\ verdict' = [verdict EXCEPT ![w] = v]
    /\ UNCHANGED <<stage, asked, standing, found, record>>

Return(c) ==
    /\ stage[c] = "open"
    /\ c \in Writes => stage[CheckOf[c]] # "open"
    /\ stage' = [stage EXCEPT ![c] = "returned"]
    /\ \E o \in Outcomes :
          /\ o \in Refusals <=> c \notin asked
          /\ o = "unconfirmed" <=> c \in Writes /\ verdict[c] = "contradicted"
          /\ record' = [record EXCEPT ![c] = o]
    /\ UNCHANGED <<asked, standing, found, verdict>>

GiveUp(c) ==
    /\ stage[c] = "open" /\ c \notin asked
    /\ stage' = [stage EXCEPT ![c] = "gone"]
    /\ UNCHANGED <<asked, standing, found, verdict, record>>

-----------------------------------------------------------------------------
(* A check that takes too long is dropped, asked or not *)
LetGo(w) ==
    /\ stage[w] = "open" /\ verdict[w] = "none" /\ stage[CheckOf[w]] = "open"
    /\ stage' = [stage EXCEPT ![CheckOf[w]] = "gone"]
    /\ verdict' = [verdict EXCEPT ![w] = "unavailable"]
    /\ UNCHANGED <<asked, standing, found, record>>

(* A call that was asked ends without a record, and so does its check *)
Lose(c) ==
    /\ stage[c] = "open" /\ c \in asked
    /\ stage' = [x \in Calls \cup Checks |->
                   IF x = c \/ (c \in Writes /\ x = CheckOf[c] /\ stage[x] = "open")
                   THEN "gone" ELSE stage[x]]
    /\ UNCHANGED <<asked, standing, found, verdict, record>>

Next ==
    \/ \E c \in Calls \cup Checks : Ask(c) \/ Return(c)
    \/ \E w \in Writes : Answer(w) \/ Change(w) \/ Look(w) \/ Judge(w) \/ LetGo(w)
    \/ \E c \in Calls : GiveUp(c) \/ Lose(c)

Spec == Init /\ [][Next]_callVars
=============================================================================
