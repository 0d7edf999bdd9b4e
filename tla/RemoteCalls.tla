----------------------------- MODULE RemoteCalls -----------------------------
(***************************************************************************)
(* What a client of a server nobody trusts promises those who call it,     *)
(* without ids, futures, locks or tasks.  A call has at most one word from *)
(* the other side, the first, and only while it waits; what it comes to    *)
(* agrees with that word.  A caller may be made to quit at any moment, and *)
(* nothing is said to it after.  When the server is gone everybody who     *)
(* waits without a word is told at once; after a shutdown nobody waits for *)
(* one and nobody is let in.  One call may be lost, through an answer that *)
(* is none: nothing is said to it, then or later, until it quits; and so is*)
(* the line, over which nobody hears a word any more.                      *)
(***************************************************************************)
CONSTANT Callers

VARIABLES
    stage,    \* of each call
    word,     \* the other side's, to each call
    outcome,  \* what each call came to
    shut,
    lost      \* the call, if any, that will be told nothing

callVars == <<stage, word, outcome, shut, lost>>

Init ==
    /\ stage = [c \in Callers |-> "unasked"]
    /\ word = [c \in Callers |-> "none"]
    /\ outcome = [c \in Callers |-> "none"]
    /\ shut = FALSE /\ lost = {}

-----------------------------------------------------------------------------
Ask(c) ==
    /\ stage[c] = "unasked" /\ ~shut
    /\ stage' = [stage EXCEPT ![c] = "waiting"]
    /\ UNCHANGED <<word, outcome, shut, lost>>

Say(c, w) ==
    /\ stage[c] = "waiting" /\ word[c] = "none" /\ lost = {}
    /\ word' = [word EXCEPT ![c] = w]
    /\ UNCHANGED <<stage, outcome, shut, lost>>

Lose(c) ==
    /\ stage[c] = "waiting" /\ word[c] = "none" /\ lost = {}
    /\ lost' = {c}
    /\ UNCHANGED <<stage, word, outcome, shut>>

TellEverybody ==
    /\ word' = [c \in Callers |->
                  IF stage[c] = "waiting" /\ word[c] = "none" /\ c \notin lost THEN "error" ELSE word[c]]
    /\ UNCHANGED <<stage, outcome, lost>>

Gone     == TellEverybody /\ lost = {} /\ UNCHANGED shut
ShutDown == TellEverybody /\ ~shut /\ shut' = TRUE

Quit(c) ==
    /\ stage[c] = "waiting"
    /\ stage' = [stage EXCEPT ![c] = "quitting"]
    /\ UNCHANGED <<word, outcome, shut, lost>>

End(c, as) ==
    /\ stage' = [stage EXCEPT ![c] = "over"]
    /\ outcome' = [outcome EXCEPT ![c] = as]
    /\ UNCHANGED <<word, shut, lost>>

Answered(c)  == stage[c] = "waiting" /\ word[c] = "result" /\ End(c, "answered")
Failed(c)    == stage[c] \in {"unasked", "waiting"} /\ End(c, "failed")
TimedOut(c)  == stage[c] = "quitting" /\ End(c, "timed_out")
Cancelled(c) == stage[c] \in {"waiting", "quitting"} /\ End(c, "cancelled")

Next ==
    \/ Gone \/ ShutDown
    \/ \E c \in Callers :
          \/ Ask(c) \/ Say(c, "result") \/ Say(c, "error") \/ Lose(c)
          \/ Quit(c)
          \/ Answered(c) \/ Failed(c) \/ TimedOut(c) \/ Cancelled(c)

Spec == Init /\ [][Next]_callVars
=============================================================================
