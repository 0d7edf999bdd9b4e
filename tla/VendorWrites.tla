------------------------------ MODULE VendorWrites ------------------------------
(***************************************************************************)
(* One call of a connector's tool against the system it reads and writes,  *)
(* while a colleague works on the same record.  The calls of a connector   *)
(* built on connectors/http.py are repeated after any trouble the client   *)
(* takes for passing, whatever their method; the answer to a write may be  *)
(* lost after the write has happened.  The vendors are what                *)
(* src/uione/vendormocks says they are, and what the connectors say they   *)
(* may be: one may acknowledge a write and not do it.                      *)
(***************************************************************************)
EXTENDS Naturals, Sequences

CONSTANTS
    Attempts,     \* DEFAULT_ATTEMPTS: the first try and the repeated ones
    MaxColleagueEdits      \* bound: edits of the colleague

ASSUME AttemptsAssumption == Attempts \in Nat \ {0} /\ MaxColleagueEdits \in Nat

VARIABLES
    target,    \* the record the call is about: its status, and how many notes it has
    errand,    \* the call
    colleagueEdits      \* edits the colleague has made

vendorVars == <<target, errand, colleagueEdits>>

RecordStates == {"open", "closed", "reopened"}
Records  == [status : RecordStates, notes : Nat]

-----------------------------------------------------------------------------
(* A tool by what it asks of the vendor: how many reads come before its    *)
(* write, what the write may do, and how many reads follow it.             *)

Reads(looks)        == [before |-> looks, does |-> {"nothing"}, after |-> 0]
Writes(looks, does) == [before |-> looks, does |-> does, after |-> 0]

ClaimsTools == [my_claims |-> Reads(1), get_claim |-> Reads(2),
                add_note |-> Writes(1, {"append"}), set_status |-> Writes(2, {"set"})]
IncidentTools == [my_incidents |-> Reads(1), get_incident |-> Reads(1),
                  update_incident |-> Writes(1, {"set", "append", "both"})]
TaskTools == [my_open_issues |-> Reads(2), get_issue |-> Reads(2),
              update_issue |-> Writes(0, {"set"}), comment_on_issue |-> Writes(0, {"append"})]
ChatTools == [unread_messages |-> Reads(3), read_channel |-> Reads(2),
              send_message |-> [Writes(2, {"append"}) EXCEPT !.after = 1]]
AlertTools == [firing_alerts |-> Reads(2), list_dashboards |-> Reads(1)]
WhatsAppTools == [send_message |-> Writes(0, {"append"})]
MailTools == [list_unread |-> Reads(1), search |-> Reads(1), get_message |-> Reads(1),
              mark_read |-> Writes(0, {"set"}), send_reply |-> Writes(0, {"append"})]
CalendarTools == [today |-> Reads(1), upcoming |-> Reads(1), availability |-> Reads(1),
                  propose_meeting |-> Writes(1, {"append"})]
DocumentTools == [write_document |-> Writes(0, {"create"})]

ClaimsRisks == [my_claims |-> "read", get_claim |-> "read",
                add_note |-> "irreversible", set_status |-> "irreversible"]
IncidentRisks == [my_incidents |-> "read", get_incident |-> "read", update_incident |-> "irreversible"]
TaskRisks == [my_open_issues |-> "read", get_issue |-> "read",
              update_issue |-> "reversible_write", comment_on_issue |-> "irreversible"]
ChatRisks == [unread_messages |-> "read", read_channel |-> "read", send_message |-> "irreversible"]
AlertRisks == [firing_alerts |-> "read", list_dashboards |-> "read"]
WhatsAppRisks == [send_message |-> "external_facing"]
MailRisks == [list_unread |-> "read", search |-> "read", get_message |-> "read",
              mark_read |-> "reversible_write", send_reply |-> "external_facing"]
CalendarRisks == [today |-> "read", upcoming |-> "read", availability |-> "read",
                  propose_meeting |-> "external_facing"]
DocumentRisks == [write_document |-> "reversible_write"]

Connectors ==
    [claims |-> ClaimsTools, incidents |-> IncidentTools, tasks |-> TaskTools, chat |-> ChatTools,
     bi |-> AlertTools, whatsapp |-> WhatsAppTools, mail |-> MailTools,
     calendar |-> CalendarTools, documents |-> DocumentTools]
ConnectorRisks ==
    [claims |-> ClaimsRisks, incidents |-> IncidentRisks, tasks |-> TaskRisks, chat |-> ChatRisks,
     bi |-> AlertRisks, whatsapp |-> WhatsAppRisks, mail |-> MailRisks,
     calendar |-> CalendarRisks, documents |-> DocumentRisks]

\* The tools the verifier has learnt to read back.
ReadBack == {<<"claims", "set_status">>, <<"incidents", "update_incident">>,
             <<"tasks", "update_issue">>, <<"mail", "mark_read">>}

\* Mail, the calendar and the share are not behind the repeating client.
Tries(connector) == IF connector \in {"mail", "calendar", "documents"} THEN 1 ELSE Attempts

-----------------------------------------------------------------------------
(* What the vendor makes of a write: the records it may leave, none when   *)
(* it refuses.                                                             *)

SetTo(s)   == [target EXCEPT !.status = s]
OneMore(r) == [r EXCEPT !.notes = @ + 1]

\* The claim is written only under the checksum that was read, a digest of what it holds.
ClaimsServer ==
    CASE errand.does = "append" -> {OneMore(target)}
      [] errand.does = "set"    -> IF errand.seen = target THEN {SetTo(errand.wanted)} ELSE {}
\* A note is journalled; an instance may keep the state it has and answer with that.
IncidentServer ==
    LET moved == IF errand.does = "append" THEN {target} ELSE {target, SetTo(errand.wanted)}
    IN  IF errand.does = "set" THEN moved ELSE {OneMore(r) : r \in moved}
TaskServer == IF errand.does = "set" THEN {SetTo(errand.wanted)} ELSE {OneMore(target)}
ChatServer == {OneMore(target)}
WhatsAppServer == {OneMore(target)}
\* To flag a message that is not there is no error.  Of the recipients of a message some may be
\* refused, which nobody is told; target is the mailbox of one of them.
MailServer ==
    CASE errand.does = "append" -> {target, OneMore(target)}
      [] errand.does = "set"    -> {IF errand.there THEN SetTo(errand.wanted) ELSE target}
\* The identifier of a proposed meeting is new: the precondition of the PUT holds.
CalendarServer == {OneMore(target)}
\* A title is taken as soon as a file has it.
DocumentServer == IF target.notes = 0 THEN {OneMore(target)} ELSE {}

ServerLeaves ==
    CASE errand.connector = "claims"    -> ClaimsServer
      [] errand.connector = "incidents" -> IncidentServer
      [] errand.connector = "tasks"     -> TaskServer
      [] errand.connector = "chat"      -> ChatServer
      [] errand.connector = "whatsapp"  -> WhatsAppServer
      [] errand.connector = "mail"      -> MailServer
      [] errand.connector = "calendar"  -> CalendarServer
      [] errand.connector = "documents" -> DocumentServer

-----------------------------------------------------------------------------
Fresh == [status |-> "open", notes |-> 0]

\* landed counts the writes the vendor has acknowledged or would have, unheard those of them whose answer
\* went missing; there: the message of a mail tool exists; broken: the document's file was left behind.
Unbegun == [connector |-> "none", tool |-> "none", does |-> "nothing", wanted |-> "open", there |-> TRUE,
            at |-> "idle", left |-> 0, tries |-> 0, seen |-> Fresh,
            landed |-> 0, unheard |-> 0, broken |-> FALSE, restored |-> FALSE]

VendorInit ==
    /\ target = Fresh
    /\ errand = Unbegun
    /\ colleagueEdits = 0

\* Somebody else changes the record.
ColleagueEdits ==
    /\ colleagueEdits < MaxColleagueEdits /\ errand.at \notin {"told", "failed", "raised"}
    /\ colleagueEdits' = colleagueEdits + 1
    /\ \E r \in {SetTo(s) : s \in RecordStates} \cup {OneMore(target)} :
          /\ target' = r
          /\ errand' = [errand EXCEPT !.restored = @ \/ (r = errand.seen /\ errand.landed > 0)]

\* The stage that follows the reads, or follows the write.
Onward(e) == IF e.does = "nothing" THEN "told" ELSE "write"
Closing(e) == IF Connectors[e.connector][e.tool].after > 0 THEN "after" ELSE "told"

\* The gateway calls the tool with arguments it accepts.
BeginErrand ==
    /\ errand.at = "idle"
    /\ \E c \in DOMAIN Connectors : \E t \in DOMAIN Connectors[c] :
         \E d \in Connectors[c][t].does, w \in RecordStates, x \in BOOLEAN :
            LET looks == Connectors[c][t].before
                begun == [Unbegun EXCEPT !.connector = c, !.tool = t, !.does = d, !.wanted = w, !.left = looks,
                                         !.there = x \/ ~(c = "mail" /\ d = "set")]
            IN  errand' = [begun EXCEPT !.at = IF looks > 0 THEN "look" ELSE Onward(begun)]
    /\ UNCHANGED <<target, colleagueEdits>>

\* A read is answered; the last one is what a conditional write refers to.
LookAnswered ==
    /\ errand.at = "look"
    /\ errand' = [errand EXCEPT !.left = @ - 1, !.tries = 0, !.seen = target,
                                !.at = IF errand.left = 1 THEN Onward(errand) ELSE "look"]
    /\ UNCHANGED <<target, colleagueEdits>>

\* Nothing of that name, no checksum to write under, a slot that is taken, a refusal, a page that is no JSON.
LookRefused ==
    /\ errand.at = "look"
    /\ errand' = [errand EXCEPT !.at = "failed"]
    /\ UNCHANGED <<target, colleagueEdits>>

(* variant: the client gives up without an error *)
TriedInSilence(e) ==
    IF e.tries + 1 < Tries(e.connector) THEN [e EXCEPT !.tries = @ + 1] ELSE [e EXCEPT !.at = "told"]

\* The loop of the client: once more while attempts are left, then the error.
TriedAgain(e) ==
    IF e.tries + 1 < Tries(e.connector) THEN [e EXCEPT !.tries = @ + 1]
    ELSE [e EXCEPT !.at = IF e.at = "after" THEN "raised" ELSE "failed"]

\* No connection, a time-out, a 429 or a 5xx, and nothing has happened at the vendor.
RequestTroubled ==
    /\ errand.at \in {"look", "write", "after"}
    /\ errand' = TriedAgain(errand)
    /\ UNCHANGED <<target, colleagueEdits>>

Lands(e) == [e EXCEPT !.landed = @ + 1, !.tries = 0]

\* The vendor takes the write, and says so.
WriteAnswered ==
    /\ errand.at = "write"
    /\ \E r \in ServerLeaves :
          /\ target' = r
          /\ errand' = [Lands(errand) EXCEPT !.at = Closing(errand)]
    /\ UNCHANGED colleagueEdits

\* The vendor takes it and the client hears of trouble: it asks again, or gives up.
WriteUnheard ==
    /\ errand.at = "write" /\ errand.connector # "documents"
    /\ \E r \in ServerLeaves :
          /\ target' = r
          /\ errand' = TriedAgain([Lands(errand) EXCEPT !.unheard = @ + 1, !.tries = errand.tries])
    /\ UNCHANGED colleagueEdits

\* The vendor takes it and answers with something that cannot be read: an error, and not repeated.
WriteGarbled ==
    /\ errand.at = "write" /\ Tries(errand.connector) > 1
    /\ \E r \in ServerLeaves :
          /\ target' = r
          /\ errand' = [Lands(errand) EXCEPT !.unheard = @ + 1, !.at = "failed"]
    /\ UNCHANGED colleagueEdits

\* open(..., "x") has made the file when the writing of it fails, or finding out who may read it.
WriteBroken ==
    /\ errand.at = "write" /\ errand.connector = "documents"
    /\ target' \in ServerLeaves
    /\ errand' = [errand EXCEPT !.broken = TRUE, !.at = "failed"]
    /\ UNCHANGED colleagueEdits

\* The vendor refuses: a conflict, a permission, a value it does not take.
WriteRefused ==
    /\ errand.at = "write"
    /\ errand' = [errand EXCEPT !.at = "failed"]
    /\ UNCHANGED <<target, colleagueEdits>>

\* send_message asks who it is after it has posted, outside of the handler's try.
NameFetched ==
    /\ errand.at = "after"
    /\ errand' = [errand EXCEPT !.at = "told"]
    /\ UNCHANGED <<target, colleagueEdits>>
NameRefused ==
    /\ errand.at = "after"
    /\ errand' = [errand EXCEPT !.at = "raised"]
    /\ UNCHANGED <<target, colleagueEdits>>

VendorNext ==
    \/ ColleagueEdits \/ BeginErrand
    \/ LookAnswered \/ LookRefused \/ RequestTroubled
    \/ WriteAnswered \/ WriteUnheard \/ WriteGarbled \/ WriteBroken \/ WriteRefused
    \/ NameFetched \/ NameRefused

VendorSpec == VendorInit /\ [][VendorNext]_vendorVars

-----------------------------------------------------------------------------
VendorTypes ==
    /\ target \in Records /\ colleagueEdits \in 0..MaxColleagueEdits
    /\ errand.at \in {"idle", "look", "write", "after", "told", "failed", "raised"}
    /\ errand.tries \in 0..Attempts /\ errand.landed \in 0..Attempts /\ errand.unheard \in 0..Attempts
    /\ errand.seen \in Records /\ {errand.there, errand.broken, errand.restored} \subseteq BOOLEAN

RiskOfErrand == ConnectorRisks[errand.connector][errand.tool]

\* The record is as the call asked.
Shows ==
    /\ errand.does \in {"set", "both"} => target.status = errand.wanted
    /\ errand.does \in {"append", "both", "create"} => target.notes > 0

\* The verifier has a read-back for the call, and what it would compare disagrees.
Contradicted ==
    /\ <<errand.connector, errand.tool>> \in ReadBack /\ errand.does # "append"
    /\ target.status # errand.wanted

\* A write that is reported done and that the record does not bear out is one its read-back contradicts; but
\* for a message that was not there, and one that is sent to several, of which nobody can be asked.
SuccessIsBorneOut ==
    errand.at = "told" /\ errand.does # "nothing" /\ colleagueEdits = 0 /\ ~Shows =>
        Contradicted \/ ~errand.there \/ errand.tool = "send_reply"

\* A call that is reported failed has left the record as it was, unless the answer to a write went missing,
\* a document was left half made, or a message was posted and its sender's name could not be had.
FailureLeavesNoTrace ==
    errand.at \in {"failed", "raised"} /\ colleagueEdits = 0 /\ target # Fresh =>
        errand.unheard > 0 \/ errand.broken \/ errand.at = "raised"

\* Nothing is written twice but for an answer that went missing; and a claim's status not even then, unless
\* it already was the one wanted or somebody has put the claim back to what was read.
OncePerAnswer ==
    /\ colleagueEdits = 0 => target.notes <= errand.unheard + 1
    /\ errand.connector = "claims" /\ errand.does = "set" /\ errand.landed > 1
          => errand.restored \/ errand.wanted = errand.seen.status

\* A read changes nothing, and a tool that may come to run unattended leaves the record as one
\* call would have left it, however often the client repeats it.
UnattendedIsRepeatable ==
    errand.at # "idle" =>
        /\ RiskOfErrand = "read" => errand.landed = 0
        /\ RiskOfErrand = "reversible_write" /\ errand.landed > 1 => errand.does = "set"

\* The tools of the connectors keep faith with the systems they write to (http.py:156, gwclaims.py:126).
WritesKeepFaith == SuccessIsBorneOut /\ FailureLeavesNoTrace /\ OncePerAnswer /\ UnattendedIsRepeatable
=============================================================================
