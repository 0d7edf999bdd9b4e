---------------------------- MODULE PrioritySlots ----------------------------
(***************************************************************************)
(* What an admission gate promises, without its heap and its futures.  A   *)
(* caller holds one of Limit slots or, when none is free, waits until one  *)
(* is given to it; a slot that is given up goes at once to the waiter      *)
(* nobody is ahead of.  Interactive callers are ahead of the others,       *)
(* equals in the order they came.                                          *)
(***************************************************************************)
EXTENDS Naturals

CONSTANTS
    Callers,
    Interactive,  \* callers with somebody waiting
    Limit,        \* slots there are
    Leaky         \* whether a holder may go without giving its slot up

VARIABLES
    using,    \* the callers with a slot
    waiting,  \* those without one
    ahead,    \* pairs of these: the first is served before the second
    free      \* how many slots are free

slotVars == <<using, waiting, ahead, free>>

Init == using = {} /\ waiting = {} /\ ahead = {} /\ free = Limit

-----------------------------------------------------------------------------
Comes(r) == r \notin using \cup waiting

Enter(r) ==
    /\ Comes(r) /\ free > 0
    /\ using' = using \cup {r} /\ free' = free - 1
    /\ UNCHANGED <<waiting, ahead>>

GivesWay(v, r) == v \notin Interactive /\ r \in Interactive

Join(r) ==
    /\ Comes(r) /\ free = 0
    /\ waiting' = waiting \cup {r}
    /\ ahead' = ahead \cup {<<v, r>> : v \in {x \in waiting : ~GivesWay(x, r)}}
                      \cup {<<r, v>> : v \in {x \in waiting : GivesWay(x, r)}}
    /\ UNCHANGED <<using, free>>

NoLongerWaits(w) ==
    /\ waiting' = waiting \ {w}
    /\ ahead' = {p \in ahead : w \notin {p[1], p[2]}}

GiveUp(r) == r \in waiting /\ NoLongerWaits(r) /\ UNCHANGED <<using, free>>

Free(r) ==
    /\ r \in using /\ waiting = {}
    /\ using' = using \ {r} /\ free' = free + 1
    /\ UNCHANGED <<waiting, ahead>>

HandOn(r, w) ==
    /\ r \in using /\ w \in waiting
    /\ \A v \in waiting : <<v, w>> \notin ahead
    /\ using' = (using \ {r}) \cup {w}
    /\ NoLongerWaits(w)
    /\ UNCHANGED free

Lose(r) ==
    /\ Leaky /\ r \in using
    /\ using' = using \ {r}
    /\ UNCHANGED <<waiting, ahead, free>>

Next ==
    \E r \in Callers :
        \/ Enter(r) \/ Join(r) \/ GiveUp(r) \/ Free(r) \/ Lose(r)
        \/ \E w \in Callers : HandOn(r, w)

Spec == Init /\ [][Next]_slotVars
=============================================================================
