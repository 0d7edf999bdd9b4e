------------------------------ MODULE Inbound ------------------------------
(***************************************************************************)
(* The inbox of a channel that pushes: the webhook and the table it fills. *)
(* The vendor delivers a payload of messages, again for as long as it has  *)
(* no answer of 200, possibly while an earlier delivery is still being     *)
(* worked on, and gives up in the end.  Each message is looked up and      *)
(* stored in a transaction of its own; the process or the database may     *)
(* fail between any two.                                                   *)
(***************************************************************************)
EXTENDS Naturals, Sequences

CONSTANTS
    Payloads,      \* what the vendor pushes
    Contents,      \* of a payload: its messages, in order
    Texts,         \* the messages of type text
    Deliveries,    \* requests that carry a payload
    NoPayload

ASSUME InboundAssumption ==
    /\ NoPayload \notin Payloads
    /\ \A p \in Payloads : Contents[p] \in Seq({Contents[p][i] : i \in DOMAIN Contents[p]})

VARIABLES
    delivery,   \* the payload of each request, NoPayload before it is made
    step,       \* where the request stands
    place,      \* the message of its payload it is at
    inbox,      \* the rows, by the id of their message
    answered    \* history: payloads the vendor has been told 200 for

inboundVars == <<delivery, step, place, inbox, answered>>

InboundTypes ==
    /\ delivery \in [Deliveries -> Payloads \cup {NoPayload}]
    /\ step \in [Deliveries -> {"none", "looking", "storing", "over"}]
    /\ place \in [Deliveries -> Nat]
    /\ inbox \subseteq Texts
    /\ answered \subseteq Payloads

InboundInit ==
    /\ delivery = [d \in Deliveries |-> NoPayload]
    /\ step = [d \in Deliveries |-> "none"]
    /\ place = [d \in Deliveries |-> 1]
    /\ inbox = {} /\ answered = {}

-----------------------------------------------------------------------------
(* A delivery that carries the vendor's signature; any other is refused    *)
(* and changes nothing.                                                    *)
Arrive(d, p) ==
    /\ delivery[d] = NoPayload /\ p \notin answered
    /\ delivery' = [delivery EXCEPT ![d] = p]
    /\ step' = [step EXCEPT ![d] = "looking"]
    /\ UNCHANGED <<place, inbox, answered>>

At(d) == Contents[delivery[d]][place[d]]
Done(d) == place[d] > Len(Contents[delivery[d]])

Proceed(d) ==
    /\ place' = [place EXCEPT ![d] = @ + 1]
    /\ step' = [step EXCEPT ![d] = "looking"]

(* What is no text is passed by; what is stored already is not stored again*)
LookUp(d) ==
    /\ step[d] = "looking" /\ ~Done(d)
    /\ IF At(d) \notin Texts \/ At(d) \in inbox
       THEN Proceed(d)
       ELSE step' = [step EXCEPT ![d] = "storing"] /\ UNCHANGED place
    /\ UNCHANGED <<delivery, inbox, answered>>

(* The commit.  Its key is the message's id: of two that looked before     *)
(* either stored, the second is an error.                                  *)
Commit(d) ==
    /\ step[d] = "storing" /\ At(d) \notin inbox
    /\ inbox' = inbox \cup {At(d)}
    /\ Proceed(d)
    /\ UNCHANGED <<delivery, answered>>

(* variant: an error of the database counts as a message that is known     *)
FailQuietly(d) ==
    /\ step[d] \in {"looking", "storing"} /\ ~Done(d)
    /\ Proceed(d)
    /\ UNCHANGED <<delivery, inbox, answered>>

(* An error of the database, a payload of an unforeseen shape, or the end  *)
(* of the process: the request ends without a 200                          *)
FailDelivery(d) ==
    /\ step[d] \in {"looking", "storing"}
    /\ step' = [step EXCEPT ![d] = "over"]
    /\ UNCHANGED <<delivery, place, inbox, answered>>

(* 200, which the vendor may or may not hear *)
Answer(d) ==
    /\ step[d] = "looking" /\ Done(d)
    /\ step' = [step EXCEPT ![d] = "over"]
    /\ answered' \in {answered, answered \cup {delivery[d]}}
    /\ UNCHANGED <<delivery, place, inbox>>

InboundNext ==
    \/ \E d \in Deliveries, p \in Payloads : Arrive(d, p)
    \/ \E d \in Deliveries : LookUp(d) \/ Commit(d) \/ FailDelivery(d) \/ Answer(d)

InboundSpec == InboundInit /\ [][InboundNext]_inboundVars

-----------------------------------------------------------------------------
(* Properties *)

(* Once the vendor has been told that a payload arrived, and will not send *)
(* it again, every text in it is in the inbox, whatever failed and however *)
(* often and how close together it was delivered (InboundMessageRow: if    *)
(* this row is not written, the message is gone).                          *)
AnsweredIsKept ==
    \A p \in answered : \A i \in DOMAIN Contents[p] :
        Contents[p][i] \in Texts => Contents[p][i] \in inbox

=============================================================================
