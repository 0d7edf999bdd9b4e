---------------------------- MODULE ActionLedger ----------------------------
(***************************************************************************)
(* What an approval queue promises of each held action, whatever the order *)
(* of requests: it is settled at most once, in one of four ways, and it is *)
(* executed only by the approval that settled it.                          *)
(***************************************************************************)
CONSTANT Actions

VARIABLE phase   \* phase[a]

Phases == {"none", "held", "executed", "stranded", "rejected", "forgotten"}

TypeOK == phase \in [Actions -> Phases]

Init == phase = [a \in Actions |-> "none"]

Move(a, from, to) == phase[a] = from /\ phase' = [phase EXCEPT ![a] = to]

Hold(a) == Move(a, "none", "held")

(* Approved: executed at once, or refused on the way and never executed    *)
Approve(a) == Move(a, "held", "executed") \/ Move(a, "held", "stranded")

Reject(a) == Move(a, "held", "rejected")

(* A restart of an in-memory queue *)
Forget ==
    phase' = [a \in Actions |-> IF phase[a] = "held" THEN "forgotten" ELSE phase[a]]

Next == Forget \/ \E a \in Actions : Hold(a) \/ Approve(a) \/ Reject(a)

Spec == Init /\ [][Next]_phase
=============================================================================
