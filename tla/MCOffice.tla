------------------------------ MODULE MCOffice ------------------------------
(* Small instances of the parts of the service that decide what is done and*)
(* shown for a person: the approval queue over either of its stores, what  *)
(* colleagues' assistants are told, search, calendar, desk, figures and    *)
(* access, and what is made of a model's calls.  They share no state:      *)
(* which of them a behaviour is about is settled at its start, and the     *)
(* others stand still.                                                     *)
EXTENDS Governance, Delegation, Retrieval, Calendar, Desk, Figures, Access,
        Reliability, VendorWrites, TLC

CONSTANTS
    rev, ext, com,             \* a tool that may earn autonomy, an external one, an A2A commitment
    ann, guest                 \* assistants

VARIABLE topic

officeVars == <<topic, vars, delegationVars, retrievalVars, calendarVars, deskVars, figuresVars,
                accessVars, reliabilityVars, vendorVars>>

(* Governance: a commitment is outside the catalog.  The same variables    *)
(* serve the deployment whose stores are in memory.                        *)
ThreeTools == {rev, ext, com}
TwoListed  == {rev, ext}
OneTool    == {rev}
RiskOf == [t \in Tools |-> IF t = ext THEN "external_facing" ELSE "reversible_write"]

InMemory == INSTANCE Governance WITH Durable <- FALSE

(* Actions, calls and requests are numbers, interchangeable, and taken in  *)
(* order.                                                                  *)
InOrder(taken, S) == \A n \in S : n \in taken => 1..n \subseteq taken
TakenInOrder ==
    /\ InOrder({a \in Actions : status[a] # "none"}, Actions)
    /\ InOrder({c \in Calls : callPC[c] # "idle"}, Calls)
    /\ InOrder({r \in Requests : pc[r] # "idle"}, Requests)

(* Delegation *)
Assistants == {ann, guest}
TwoGrants == {{}, {"free_busy", "workload"}}

(* Calendar *)
ThreeMonths == <<10, 7, 10>>

(* Desk *)
TwoDeployments ==
    { {"tasks.my_open_issues", "incidents.active", "bi.firing_alerts"},
      {"incidents.my_incidents", "mail.list_unread", "tasks.my_issues", "claims.my_claims"} }
FromOutside == {"mail.list_unread"}

(* Access: chains that end, and loops that leave the node asked about on    *)
(* them or below them; nestings without a loop, with one, and too deep.    *)
Pointers(two, three) == [n \in 1..4 |-> CASE n = 1 -> 2 [] n = 2 -> two [] n = 3 -> three [] n = 4 -> 0]
ChainsAndLoops == {Pointers(two, 4) : two \in 0..3} \union {Pointers(3, three) : three \in 0..3}
Nested(all, eng, pay) ==
    [g \in {"all", "eng", "pay"} |-> CASE g = "all" -> all [] g = "eng" -> eng [] g = "pay" -> pay]
NestedGroups == {Nested({"pay"}, {}, {}), Nested({"pay"}, {}, {"all"}), Nested({"eng"}, {"pay"}, {})}
States(inherits, grants) == [inherits : inherits, denies : BOOLEAN, grants : grants]
SomeImports ==
    { << leaf, above, far, root >> :
        leaf  \in States(BOOLEAN, {"nothing"}),
        above \in States(BOOLEAN, {"nothing", "principal", "all"}),
        far   \in States({TRUE}, {"nothing", "eng"}),
        root  \in States({TRUE}, {"nothing"}) }
Mode(read, enter) == [stat |-> TRUE, read |-> read, enter |-> enter]
SomeModes ==
    {Mode(c, c) : c \in {{}, {"owner"}, {"owner", "group"}, Classes}} \union {Mode({"owner"}, Classes)}
SomeMappings == {Owners \union Gangs, {"u2", "g1"}}

(* Reliability: every name against every choice of tools, and every object *)
(* against every schema.                                                   *)
Named(s, t, w) == [server |-> s, tool |-> t, written |-> w]
FiveTools ==
    { Named("mail", "search", {}), Named("mail", "search", {"cased"}), Named("files", "search", {}),
      Named("tasks", "my_list", {}), Named("tasks", "my_list", {"dashed"}) }
Spoken ==
    {Named(s, t, w) : s \in {"", "mail", "tasks"}, t \in {"search", "my_list"},
                      w \in {{}, {"cased"}, {"padded"}, {"dashed"}, {"cased", "dashed"}}}

Scalar(types) ==
    [types |-> types, enum |-> {}, items |-> {}, fields |-> <<>>, required |-> {}, depth |-> 0]
Counted == [Scalar({"object"}) EXCEPT !.fields = "count" :> Scalar({"integer"}),
                                      !.required = {"count"}, !.depth = 1]
ListOf(schema) == [Scalar({"array"}) EXCEPT !.items = {schema}, !.depth = schema.depth + 1]
Declared ==
    {Scalar(types) : types \in {{}, {"boolean"}, {"integer"}, {"number"}, {"string"},
                                {"array"}, {"integer", "string"}}}
    \union { [Scalar({"string"}) EXCEPT !.enum = {"open", "closed"}],
             Counted, ListOf(Scalar({"integer"})), ListOf(Counted) }
ParametersOf ==
    { [Scalar({"object"}) EXCEPT !.fields = [a |-> d, b |-> Scalar({"string"})],
                                 !.required = needed, !.depth = 3] :
        d \in Declared, needed \in {{}, {"a"}, {"a", "b"}} }
SomeSchemas == Declared \union ParametersOf

Scalars == { Null, <<"bool", "yes">>, <<"int", "1">>, <<"float", "1.0">>, <<"float", "1.5">>,
             <<"str", "yes">>, <<"str", "1">>, <<"str", "1.5">>, <<"str", "OPEN">> }
Totalled == <<"dict", [total |-> <<"int", "1">>]>>
Pieces == Scalars \union { <<"list", <<>>>>, <<"list", << <<"str", "1">>, Null >> >>,
                          <<"dict", [count |-> <<"str", "1">>]>>, <<"dict", [count |-> Null]>>,
                          <<"list", <<Totalled>> >> }
Objects == {Empty} \union {<<"dict", [a |-> p]>> : p \in Pieces}
           \union {<<"dict", [a |-> p, b |-> q, c |-> Null]>> : p \in Pieces, q \in {Null, <<"int", "1">>}}
AnObject == <<"dict", [a |-> <<"str", "1">>]>>
SomeTexts == { <<>>, <<NoObject>>, <<NoObject, <<"list", <<>>>>, AnObject>>,
               <<NoObject, AnObject, Empty>> }

(* What is written is read, and what the repair makes of it, which is then *)
(* closed under repair.                                                    *)
Written == [s \in SomeSchemas |-> IF s \in ParametersOf THEN Objects ELSE Pieces \union {Totalled}]
Mended[s \in SomeSchemas] == [v \in Written[s] |-> RepairedOn(Mended, v, s)]
SomeReadings == [s \in SomeSchemas |-> Written[s] \union {Mended[s][v] : v \in Written[s]}]
SomeCalls == {<<n, AnObject>> : n \in Spoken}
             \union {<<Named("mail", "search", {}), o>> : o \in Objects}
             \union {<<Named("", "my_list", {"cased"}), <<"text", t>> >> : t \in SomeTexts}
AnySchema == CHOOSE s \in ParametersOf : TRUE
SomeDeployments == ((SUBSET FiveTools) \X {AnySchema}) \union ({FiveTools} \X ParametersOf)

-----------------------------------------------------------------------------
Topics == {"durable", "in memory", "delegation", "contract", "retrieval", "vectors", "calendar",
           "desk", "figures", "access", "reliability", "vendor"}

AnyRule == CHOOSE r \in RRules : TRUE
AnyFit  == CHOOSE f \in Fits : TRUE
AnyPath == CHOOSE p \in Paths : TRUE
AnyDeployment == CHOOSE d \in Deployments : TRUE

(* A part with many initial states has all of them in the behaviours that  *)
(* are about it, and one in the others.  Owners and groups are             *)
(* interchangeable: a share's file is u1's and g1's.                       *)
OfficeInit ==
    /\ topic \in Topics
    /\ topic = "calendar" \/ rule = AnyRule
    /\ topic = "desk" \/ (errandOf = "queue" /\ fitted = AnyFit /\ gathered = <<>>)
    /\ topic = "access" \/ (progress = "walking" /\ mapped = Owners \union Gangs /\ share = [i \in 1..Depth + 1 |-> AnyPath])
    /\ topic = "reliability" \/ (known = AnyDeployment[1] /\ parameters = AnyDeployment[2])
    /\ Init /\ DelegationInit /\ RetrievalInit /\ CalendarInit /\ DeskInit /\ FiguresInit
    /\ AccessInit /\ ReliabilityInit /\ VendorInit
    /\ topic = "access" /\ progress = "walking" => share[1].owner = "u1" /\ share[1].group = "g1"

OfficeNext ==
    /\ UNCHANGED topic
    /\ CASE topic = "durable"   -> Next /\ TakenInOrder'
         [] topic = "in memory" -> InMemory!Next /\ TakenInOrder'
         [] OTHER -> UNCHANGED vars
    /\ CASE topic = "delegation" -> DelegationNext /\ updates' <= 1
         [] topic = "contract"   -> DelegationNext /\ UNCHANGED inquiry
         [] OTHER -> UNCHANGED delegationVars
    /\ CASE topic = "retrieval" -> RetrievalNext /\ changes' <= 2 /\ embedding'["s2"] = Idle
         [] topic = "vectors"   -> RetrievalNext /\ corpus'[2] = Absentee
         [] OTHER -> UNCHANGED retrievalVars
    /\ IF topic = "calendar" THEN CalendarNext ELSE UNCHANGED calendarVars
    /\ IF topic = "desk" THEN DeskNext ELSE UNCHANGED deskVars
    /\ IF topic = "figures" THEN FiguresNext ELSE UNCHANGED figuresVars
    /\ IF topic = "access" THEN AccessNext ELSE UNCHANGED accessVars
    /\ IF topic = "reliability" THEN ReliabilityNext ELSE UNCHANGED reliabilityVars
    /\ IF topic = "vendor" THEN VendorNext ELSE UNCHANGED vendorVars

OfficeSpec == OfficeInit /\ [][OfficeNext]_officeVars

-----------------------------------------------------------------------------
(* What KeepsLedger says of the in-memory queue, in the behaviours that    *)
(* are about it: one decision per held action, and execution only by the   *)
(* approval that settled it.                                               *)
LedgerInMemory ==
    INSTANCE ActionLedger
    WITH phase <- IF topic = "in memory" THEN Phase ELSE [a \in Actions |-> "none"]
MemoryKeepsLedger == LedgerInMemory!Spec
=============================================================================
