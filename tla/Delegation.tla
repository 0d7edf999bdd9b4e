------------------------------- MODULE Delegation -------------------------------
(***************************************************************************)
(* Assistants that ask one another, and the contract by which a person     *)
(* says what theirs may reveal.  A request passes three gates: what the    *)
(* assistant answers at all, what the contract lets this requester see,    *)
(* and, where answering would bind the owner, the owner.  The contract is  *)
(* the owner's to change at any time, in two browser tabs at once too: it  *)
(* is one object in the process, which every change assigns to and stores. *)
(***************************************************************************)
EXTENDS Naturals, Sequences

CONSTANTS
    Agents,       \* assistants that ask or pass a request on
    Colleague,    \* the one the contract may name
    Outsider,     \* the one of another organisation
    Offered,      \* kinds of request the asked assistant answers
    Grants,       \* the sets of facets a contract is made of
    NoContract,        \* the owner has no row in the database
    MaxUpdates, MaxForwards     \* bounds

Facets == {"free_busy", "out_of_office", "contact", "workload", "task_status",
           "meeting_subjects", "task_detail"}
NoEntry == {"no entry"}    \* the contract says nothing of the role, or of the person
DefaultInternal == {"free_busy", "out_of_office", "contact"}
Kinds == {"ask_availability", "ask_workload", "ask_task_status", "propose_meeting", "delegate_task"}
Commitments == {"propose_meeting", "delegate_task"}
RequiredFacets ==
    [ask_availability |-> {"free_busy", "out_of_office"}, ask_workload |-> {"workload"},
     ask_task_status |-> {"task_status"}, propose_meeting |-> {"free_busy"},
     delegate_task |-> {"workload"}]

Contracts == [default : SUBSET Facets, role : (SUBSET Facets) \cup {NoEntry},
              user : (SUBSET Facets) \cup {NoEntry}]

ASSUME DelegationAssumption ==
    /\ Colleague \in Agents /\ Outsider \in Agents /\ Colleague # Outsider
    /\ Offered \subseteq Kinds /\ Grants \subseteq SUBSET Facets /\ NoContract \notin Contracts
    /\ MaxUpdates \in Nat /\ MaxForwards \in Nat

VARIABLES
    live,       \* the contract in the registry
    kept,       \* the row in the database
    told,       \* history: the contract the owner was last shown as theirs
    doubts,     \* history: what has come between that answer and the contract since
    saves,      \* of each change asked for: how far its storing is
    updates,    \* changes asked for
    inquiry     \* the request on the bus

contractVars == <<live, kept, told, doubts, saves, updates>>
delegationVars == <<live, kept, told, doubts, saves, updates, inquiry>>

FreshContract == [default |-> DefaultInternal, role |-> NoEntry, user |-> NoEntry]

\* A grant to the person wins over their role's, a role's that grants anything over the default.
FacetsFor(c, who, hasRole) ==
    IF who = Colleague /\ c.user # NoEntry THEN c.user
    ELSE IF hasRole /\ c.role # NoEntry /\ c.role # {} THEN c.role
    ELSE IF who = Outsider THEN {} ELSE c.default

NoInquiry == [at |-> "none", kind |-> "ask_workload", sender |-> Colleague, origin |-> Colleague,
              chain |-> <<>>, hasRole |-> FALSE, granted |-> {}, left |-> <<>>, shared |-> {},
              outcome |-> "none", pending |-> FALSE, recorded |-> FALSE, moved |-> FALSE,
              known |-> TRUE]

\* A save reads the row, writes what the contract then says, and is answered.
NoSave == [at |-> "none", base |-> NoContract, written |-> FreshContract, crossed |-> FALSE]

\* The owner has stored a contract before, or never.
DelegationInit ==
    /\ live = FreshContract /\ kept \in {NoContract, FreshContract} /\ told = FreshContract
    /\ doubts = {} /\ saves = [u \in 1..MaxUpdates |-> NoSave]
    /\ updates = 0 /\ inquiry = NoInquiry

-----------------------------------------------------------------------------
\* known: the directory has the assistant that is asked.
Putting(kind, who, hasRole, known) ==
    /\ inquiry.at = "none"
    /\ inquiry' = [NoInquiry EXCEPT !.at = "made", !.kind = kind, !.sender = who, !.origin = who,
                                    !.hasRole = hasRole, !.known = known]
    /\ UNCHANGED contractVars

\* An assistant passes a request on in its own name; one that had it before is refused.
ForwardedBy(agent) ==
    /\ inquiry.at = "made" /\ Len(inquiry.chain) < MaxForwards
    /\ \A i \in 1..Len(inquiry.chain) : inquiry.chain[i] # agent
    /\ agent # inquiry.sender
    /\ inquiry' = [inquiry EXCEPT !.chain = Append(@, inquiry.sender), !.sender = agent]
    /\ UNCHANGED contractVars

\* What the owner's assistant reads, one connector after the other, of what was granted.
Readable(granted) ==
    LET If(f) == IF f \in granted THEN <<f>> ELSE <<>>
    IN  If("free_busy") \o If("workload") \o If("task_status")

Granted(c, q) == RequiredFacets[q.kind] \cap FacetsFor(c, q.sender, q.hasRole)

\* The first two gates, in one go: no other coroutine runs between them.  A refusal is recorded, but for
\* that of an assistant nobody knows, which returns at once.
Considered ==
    LET q == inquiry
        g == Granted(live, q)
    IN  /\ q.at = "made"
        /\ inquiry' =
             IF ~q.known THEN [q EXCEPT !.at = "over", !.outcome = "refused"]
             ELSE IF q.kind \notin Offered \/ g = {} THEN [q EXCEPT !.at = "recording", !.outcome = "refused"]
             ELSE IF q.kind \in Commitments THEN [q EXCEPT !.at = "holding", !.granted = g]
             ELSE [q EXCEPT !.at = "answering", !.granted = g, !.left = Readable(g)]
        /\ UNCHANGED contractVars

\* The third gate: the owner's queue.
HeldForOwner ==
    /\ inquiry.at = "holding"
    /\ inquiry' = [inquiry EXCEPT !.at = "recording", !.outcome = "held", !.pending = TRUE]
    /\ UNCHANGED contractVars

\* A facet is read through the gateway as the owner; of the number of tasks nothing is said
\* when the read fails, of the others something is.
FacetRead ==
    /\ inquiry.at = "answering" /\ inquiry.left # <<>>
    /\ \E ok \in BOOLEAN :
         inquiry' = [inquiry EXCEPT !.left = Tail(@),
                                    !.shared = IF ok \/ Head(inquiry.left) # "task_status"
                                               THEN @ \cup {Head(inquiry.left)} ELSE @]
    /\ UNCHANGED contractVars

Answered ==
    /\ inquiry.at = "answering" /\ inquiry.left = <<>>
    /\ inquiry' = [inquiry EXCEPT !.at = "recording",
                     !.outcome = IF RequiredFacets[inquiry.kind] \ inquiry.granted # {} THEN "partial"
                                 ELSE "answered"]
    /\ UNCHANGED contractVars

\* The record is written, and the answer goes out.
Recorded ==
    /\ inquiry.at = "recording"
    /\ inquiry' = [inquiry EXCEPT !.at = "over", !.recorded = TRUE]
    /\ UNCHANGED contractVars

\* It is read and forgotten; or the request is dropped while it waits, and nobody is told anything.
Dismissed ==
    /\ inquiry.at \in {"holding", "answering", "recording", "over"}
    /\ inquiry' = NoInquiry
    /\ UNCHANGED contractVars

-----------------------------------------------------------------------------
(* A change of the contract names some of its parts.  The parts are parsed *)
(* and assigned one after the other, in the contract that is in force; a   *)
(* name no build knows ends the request there.                             *)

Omitted == {"omitted"}
Unknown == {"a name nobody knows"}
Parts == Grants \cup {Omitted, Unknown}

\* The request fails at its first part with a name nobody knows; the parts before it have been assigned.
AssignedUpTo(c, default, role, user) ==
    LET d == IF default = Omitted THEN c ELSE [c EXCEPT !.default = default]
        r == IF role = Omitted THEN d ELSE [d EXCEPT !.role = role]
    IN  IF default = Unknown THEN c
        ELSE IF role = Unknown THEN d
        ELSE IF user = Unknown THEN r
        ELSE IF user = Omitted THEN r ELSE [r EXCEPT !.user = user]

UnderWay == {u \in 1..MaxUpdates : saves[u].at # "none"}

\* Nothing keeps two changes of one owner apart.
SetDisclosure(default, role, user) ==
    LET c       == AssignedUpTo(live, default, role, user)
        refused == Unknown \in {default, role, user}
        others  == [u \in 1..MaxUpdates |-> IF u \in UnderWay THEN [saves[u] EXCEPT !.crossed = TRUE]
                                            ELSE saves[u]]
    IN  /\ updates < MaxUpdates /\ updates' = updates + 1
        /\ live' = c
        /\ saves' = IF refused THEN others
                    ELSE [others EXCEPT ![updates + 1] =
                             [NoSave EXCEPT !.at = "reading", !.crossed = UnderWay # {}]]
        /\ doubts' = doubts \cup (IF UnderWay # {} THEN {"crossed"} ELSE {})
                            \cup (IF refused /\ c # live THEN {"half"} ELSE {})
        /\ inquiry' = [inquiry EXCEPT !.moved = @ \/ (c # live /\ inquiry.at \notin {"none", "made"})]
        /\ UNCHANGED <<kept, told>>

\* The row is there; what is to be in it is what the contract says by now.
RowRead(u) ==
    /\ saves[u].at = "reading"
    /\ saves' = [saves EXCEPT ![u].at = "writing", ![u].base = kept, ![u].written = live]
    /\ UNCHANGED <<live, kept, told, doubts, updates, inquiry>>

\* A row is inserted, unless another was first; of one that was there, the columns that are to be others.
RowWritten(u) ==
    LET old == saves[u].base
        new == saves[u].written
    IN  /\ saves[u].at = "writing" /\ (old = NoContract => kept = NoContract)
        /\ kept' = IF old = NoContract THEN new
                   ELSE [part \in DOMAIN new |-> IF new[part] # old[part] THEN new[part] ELSE kept[part]]
        /\ saves' = [saves EXCEPT ![u].at = "stored"]
        /\ UNCHANGED <<live, told, doubts, updates, inquiry>>

\* The answer shows the contract that is in force.
OwnerTold(u) ==
    /\ saves[u].at = "stored"
    /\ told' = live
    /\ doubts' = IF saves[u].crossed THEN doubts ELSE {}
    /\ saves' = [saves EXCEPT ![u] = NoSave]
    /\ UNCHANGED <<live, kept, updates, inquiry>>

\* The database refuses, or the request is dropped: the change stays in force, and nobody hears of it.
SaveLost(u) ==
    /\ saves[u].at # "none"
    /\ saves' = [saves EXCEPT ![u] = NoSave]
    /\ doubts' = doubts \cup {"unanswered"}
    /\ UNCHANGED <<live, kept, told, updates, inquiry>>

(* variant: the grants to persons are left behind *)
LoadedWithoutPersons == IF kept = NoContract THEN FreshContract ELSE [kept EXCEPT !.user = NoEntry]

\* What load_into makes of the rows.
LoadedContract == IF kept = NoContract THEN FreshContract ELSE kept

\* The process stops, with whatever was under way, and starts again from the rows.
AssistantRestarts ==
    /\ live' = LoadedContract /\ inquiry' = NoInquiry
    /\ saves' = [u \in 1..MaxUpdates |-> NoSave]
    /\ doubts' = IF UnderWay = {} THEN doubts ELSE doubts \cup {"unanswered"}
    /\ UNCHANGED <<kept, told, updates>>

DelegationNext ==
    \/ \E kind \in Kinds, who \in Agents, hasRole, known \in BOOLEAN : Putting(kind, who, hasRole, known)
    \/ \E agent \in Agents : ForwardedBy(agent)
    \/ Considered \/ HeldForOwner \/ FacetRead \/ Answered \/ Recorded \/ Dismissed
    \/ \E default, role, user \in Parts : SetDisclosure(default, role, user)
    \/ \E u \in 1..MaxUpdates : RowRead(u) \/ RowWritten(u) \/ OwnerTold(u) \/ SaveLost(u)
    \/ AssistantRestarts

DelegationSpec == DelegationInit /\ [][DelegationNext]_delegationVars

-----------------------------------------------------------------------------
Inquiries ==
    [at : {"none", "made", "holding", "answering", "recording", "over"}, kind : Kinds, sender : Agents,
     origin : Agents, chain : Seq(Agents), hasRole : BOOLEAN, granted : SUBSET Facets,
     left : Seq(Facets), shared : SUBSET Facets, pending : BOOLEAN, recorded : BOOLEAN,
     outcome : {"none", "refused", "held", "partial", "answered"}, moved : BOOLEAN, known : BOOLEAN]

Saves == [at : {"none", "reading", "writing", "stored"}, base : Contracts \cup {NoContract},
          written : Contracts, crossed : BOOLEAN]

DelegationTypes ==
    /\ {live, told} \subseteq Contracts /\ kept \in Contracts \cup {NoContract}
    /\ doubts \subseteq {"half", "unanswered", "crossed"}
    /\ saves \in [1..MaxUpdates -> Saves] /\ updates \in 0..MaxUpdates /\ inquiry \in Inquiries

\* The contract an owner was last shown is in force and stored, through restarts, until they ask for
\* another; unless a change since was refused halfway, or was not answered, or two were under way at
\* once.  One change that is answered, and that no other crosses, ends all of these.
PromiseHolds == doubts = {} /\ UnderWay = {} => live = told /\ LoadedContract = told

\* What is revealed is what the contract revealed to this requester for this kind of question when the
\* request was considered: more than the contract in force does only if that has changed since.
RevealedWasGranted ==
    /\ inquiry.shared \subseteq inquiry.granted
    /\ inquiry.shared \subseteq Granted(live, inquiry) \/ inquiry.moved

\* What was withheld is said, what would bind the owner is never answered, only put before them, and who
\* leaves no record has learnt nothing but that there is no such assistant.
OutcomesAreHonest ==
    /\ inquiry.outcome = "answered" => inquiry.granted = RequiredFacets[inquiry.kind]
    /\ inquiry.outcome \in {"answered", "partial"} => inquiry.kind \notin Commitments
    /\ inquiry.outcome = "held" => inquiry.pending
    /\ inquiry.at = "over" /\ ~inquiry.recorded => ~inquiry.known /\ inquiry.outcome = "refused"
    /\ ~inquiry.known \/ inquiry.pending => inquiry.shared = {}

\* The chain names everybody the request went through, the first who asked first, and nobody twice.
ChainTellsAll ==
    LET path == Append(inquiry.chain, inquiry.sender)
    IN  /\ path[1] = inquiry.origin
        /\ \A i, j \in 1..Len(path) : path[i] = path[j] => i = j

\* Assistants reveal what their owner's contract lets them, and the contract is the one its owner was
\* told of (bus.py:78, contracts.py:80, assistant.py:719, state.py:122).
DisclosureKept == PromiseHolds /\ RevealedWasGranted /\ OutcomesAreHonest /\ ChainTellsAll

\* "Everything is audited with the full delegation chain" (bus.py:13).
EverythingAudited == inquiry.at = "over" => inquiry.recorded
=============================================================================
