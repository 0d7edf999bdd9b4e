------------------------------ MODULE ToolPins ------------------------------
(***************************************************************************)
(* What a third-party MCP server may put in the catalog.  At boot the      *)
(* supervisor starts the server, asks for its tools and compares them with *)
(* the stored pin; an operator approves or forgets a pin from another      *)
(* process, which asks the server for itself.  The server may declare      *)
(* something else whenever it is asked, and either process may die, or be  *)
(* refused by the database, between two steps.                             *)
(*                                                                         *)
(* A declaration gives each tool a version: what it says of itself.        *)
(***************************************************************************)
EXTENDS Naturals

CONSTANTS
    Tools, Versions,
    Fingerprint,      \* of a version: its description and parameters
    Poisoned,         \* versions whose description reads like an instruction
    Hints,            \* the annotations of a version, a set of hint names
    Overrides         \* the operator's risk of a tool, Unset where there is none

CONSTANTS Absent, Unset, Unseen

ASSUME PinsAssumption ==
    /\ Poisoned \subseteq Versions
    /\ Absent \notin Versions \cup { Fingerprint[v] : v \in Versions }
    /\ Unseen \notin [Tools -> { Fingerprint[v] : v \in Versions } \cup {Absent}]

VARIABLES
    declared,   \* what the server says now
    pin,        \* the row of McpPinStore, Unseen when there is none
    boot,       \* where start_all stands
    listed,     \* the tools it was told of, those that were vetted
    offered,    \* what MCPToolSource serves: the tools in the catalog
    cli,        \* where the operator's command stands
    shown,      \* the tools it was told of
    reviewed    \* history: (tool, fingerprint) approved or seen at first use

pinsVars == <<declared, pin, boot, listed, offered, cli, shown, reviewed>>

Declarations == [Tools -> Versions \cup {Absent}]
Nothing == [t \in Tools |-> Absent]
Prints == { Fingerprint[v] : v \in Versions } \cup {Absent}

PinsTypes ==
    /\ {declared, listed, offered, shown} \subseteq Declarations
    /\ pin \in [Tools -> Prints] \cup {Unseen}
    /\ boot \in {"down", "listed", "first", "up", "failed"}
    /\ cli \in {"idle", "approving"}
    /\ reviewed \subseteq Tools \X Prints

PinsInit ==
    /\ declared = Nothing /\ pin = Unseen
    /\ boot = "down" /\ listed = Nothing /\ offered = Nothing
    /\ cli = "idle" /\ shown = Nothing /\ reviewed = {}

-----------------------------------------------------------------------------
(* A tool whose description carries an instruction is left out of a list   *)
Vetted(d) == [t \in Tools |-> IF d[t] \in Poisoned THEN Absent ELSE d[t]]

PrintOf(v) == IF v = Absent THEN Absent ELSE Fingerprint[v]

PrintsOf(d) == [t \in Tools |-> PrintOf(d[t])]

(* classify_risk *)
RiskOf(t, v) ==
    IF Overrides[t] # Unset THEN Overrides[t]
    ELSE IF "openWorld" \in Hints[v] /\ "destructive" \notin Hints[v]
         THEN "external_facing" ELSE "irreversible"

(* variant: a tool the pin does not name is let through *)
AllowedNew(d) ==
    [t \in Tools |-> IF pin[t] \in {PrintOf(d[t]), Absent} THEN d[t] ELSE Absent]

(* apply_pin, for a server that was seen before *)
Allowed(d) == [t \in Tools |-> IF pin[t] = PrintOf(d[t]) THEN d[t] ELSE Absent]

Recorded(d) == { <<t, PrintOf(d[t])>> : t \in { x \in Tools : d[x] # Absent } }

-----------------------------------------------------------------------------
(* The server releases something, or somebody has got into it *)
Release ==
    /\ declared' \in Declarations
    /\ UNCHANGED <<pin, boot, listed, offered, cli, shown, reviewed>>

(* start_all: a server that does not start, or does not list, is passed by *)
BootPassedBy ==
    /\ boot = "down" /\ boot' = "failed"
    /\ UNCHANGED <<declared, pin, listed, offered, cli, shown, reviewed>>

BootLists ==
    /\ boot = "down" /\ boot' = "listed"
    /\ listed' = Vetted(declared)
    /\ UNCHANGED <<declared, pin, offered, cli, shown, reviewed>>

(* The pin is loaded.  A first sighting is saved before it is served; for  *)
(* a server seen before nothing is stored, whatever was withheld or gone.  *)
BootComparesFirst ==
    /\ boot = "listed" /\ pin = Unseen
    /\ boot' = "first"
    /\ UNCHANGED <<declared, pin, listed, offered, cli, shown, reviewed>>

BootCompares ==
    /\ boot = "listed" /\ pin # Unseen
    /\ boot' = "up" /\ offered' = Allowed(listed)
    /\ UNCHANGED <<declared, pin, listed, cli, shown, reviewed>>

BootSavesFirst ==
    /\ boot = "first"
    /\ pin' = PrintsOf(listed)
    /\ boot' = "up" /\ offered' = listed
    /\ reviewed' = reviewed \cup Recorded(listed)
    /\ UNCHANGED <<declared, listed, cli, shown>>

(* The process ends, or the database refuses it, which ends its start-up   *)
BootEnds ==
    /\ boot # "down" /\ boot' = "down"
    /\ listed' = Nothing /\ offered' = Nothing
    /\ UNCHANGED <<declared, pin, cli, shown, reviewed>>

-----------------------------------------------------------------------------
(* The operator's command: approve asks the server anew and records what   *)
(* it declares, whether or not that is what diff had shown                 *)
ApproveAsks ==
    /\ cli = "idle" /\ cli' = "approving"
    /\ shown' = Vetted(declared)
    /\ UNCHANGED <<declared, pin, boot, listed, offered, reviewed>>

ApproveSaves ==
    /\ cli = "approving" /\ cli' = "idle" /\ shown' = Nothing
    /\ pin' = PrintsOf(shown)
    /\ reviewed' = reviewed \cup Recorded(shown)
    /\ UNCHANGED <<declared, boot, listed, offered>>

ApproveFails ==
    /\ cli = "approving" /\ cli' = "idle" /\ shown' = Nothing
    /\ UNCHANGED <<declared, pin, boot, listed, offered, reviewed>>

Forget ==
    /\ cli = "idle" /\ pin # Unseen
    /\ pin' = Unseen
    /\ UNCHANGED <<declared, boot, listed, offered, cli, shown, reviewed>>

PinsNext ==
    \/ Release \/ BootPassedBy \/ BootLists \/ BootComparesFirst \/ BootCompares
    \/ BootSavesFirst \/ BootEnds
    \/ ApproveAsks \/ ApproveSaves \/ ApproveFails \/ Forget

PinsSpec == PinsInit /\ [][PinsNext]_pinsVars

-----------------------------------------------------------------------------
(* Properties *)

(* Nothing is in the catalog that was neither approved by the operator nor *)
(* there when the server was first seen, through any number of releases,   *)
(* restarts, withdrawals, approvals and forgotten pins; and nothing a      *)
(* server says of itself makes a tool fit to run unattended (apply_pin     *)
(* withholds what changed, and classify_risk ignores the hints that lower  *)
(* a risk).                                                                *)
OfferedWasReviewed ==
    \A t \in Tools : offered[t] # Absent =>
        /\ <<t, PrintOf(offered[t])>> \in reviewed
        /\ offered[t] \notin Poisoned
        /\ RiskOf(t, offered[t]) \in {"read", "reversible_write"} => Overrides[t] # Unset

=============================================================================
