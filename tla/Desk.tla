---------------------------------- MODULE Desk ----------------------------------
(***************************************************************************)
(* What the assistant puts before a person: the work queue of              *)
(* proactive/queue.py, asked of one system after another, and the brief of *)
(* proactive/brief.py, asked of all at once.  Either goes on without the   *)
(* systems that do not answer, and says which.                             *)
(*                                                                         *)
(* Of a row only its key and the source system's priority are kept; rows   *)
(* that tie are told apart by the order they were gathered in, which       *)
(* stands for their age.                                                   *)
(***************************************************************************)
EXTENDS Naturals, Sequences, FiniteSetsExt, Functions, Orders

CONSTANTS
    Fits,         \* sets of tools a deployment may have
    Untrusted,    \* tools that return untrusted content
    Keys,         \* identifiers two systems may share
    MaxRows,      \* bound: rows a system answers with
    HeldTools,    \* tools the actions waiting for approval may call
    MaxHeld,      \* bound: actions waiting for approval
    Shown         \* items a queue shows (DEFAULT_LIMIT)

ASSUME DeskAssumption == MaxHeld \in Nat /\ MaxRows \in Nat /\ Shown \in Nat \ {0}

VARIABLES
    errandOf,     \* what is being put together: a queue or a brief
    fitted,       \* the tools of this deployment
    asked,        \* queue: how many sources have been asked
    gathered,     \* queue: the items so far, in order
    heard,        \* history: the sources that answered
    mute,         \* systems that did not answer
    queue,        \* the finished queue, or Unfinished
    sections,     \* brief: per section, what its call has come to
    brief         \* the finished brief, or Unfinished

deskVars == <<errandOf, fitted, asked, gathered, heard, mute, queue, sections, brief>>

-----------------------------------------------------------------------------
(* The systems.                                                            *)

Blocking == 0
Critical == 1
Assigned == 2
Awaiting == 3
Unprioritised == 99

Asks(system, tool, band) == [system |-> system, tool |-> tool, band |-> band]
QueueSources ==
    << Asks("tasks", "tasks.my_open_issues", Assigned),
       Asks("incidents", "incidents.my_incidents", Assigned),
       Asks("incidents", "incidents.active", Assigned),
       Asks("mail", "mail.list_unread", Awaiting) >>

(* A section by the tools that can fill it, the first one fitted is taken. *)
BriefSources ==
    [bi        |-> << "bi.firing_alerts" >>,
     incidents |-> << "incidents.active", "incidents.my_incidents" >>,
     mail      |-> << "mail.list_unread" >>,
     chat      |-> << "chat.unread_messages" >>,
     calendar  |-> << "calendar.today" >>,
     tasks     |-> << "tasks.my_open_issues", "tasks.my_issues" >>,
     claims    |-> << "claims.my_claims" >>]
Sections == DOMAIN BriefSources

Priorities == {1, 2, 3, Unprioritised}
Rows       == [key : Keys, priority : Priorities]
Answers    == UNION {[1..n -> Rows] : n \in 0..MaxRows}

Unfinished == [done |-> FALSE]

(* _gather resolves each section to a tool before any is called; a section *)
(* with none is left out, and is not a degraded one.                       *)
FittedFor(s) == {i \in DOMAIN BriefSources[s] : BriefSources[s][i] \in fitted}
Resolved == {s \in Sections : FittedFor(s) # {}}
FilledBy(s) == BriefSources[s][Min(FittedFor(s))]

(* What a queue and a brief are made of.                                   *)
QueueItems ==
    [key : Keys \union HeldTools, band : {Blocking, Critical, Assigned, Awaiting},
     priority : Priorities, sources : SUBSET {"approvals", "tasks", "incidents", "mail"}]
SectionResults == [at : {"asked", "ok", "failed"}, mentions : SUBSET Keys]
Briefs ==
    [done : {TRUE}, body : {"prose", "sections"}, error : BOOLEAN, degraded : SUBSET Sections,
     connections : SUBSET Keys, tainted : BOOLEAN]

DeskTypes ==
    /\ errandOf \in {"queue", "brief"} /\ fitted \in Fits
    /\ asked \in 0..Len(QueueSources) /\ heard \subseteq 1..asked /\ mute \subseteq {"tasks", "incidents", "mail"}
    /\ gathered \in Seq(QueueItems) /\ (queue.done => queue.items \in Seq(QueueItems))
    /\ sections \in [Resolved -> SectionResults]
    /\ brief = Unfinished \/ brief \in Briefs

(* Every pending action is an item, keyed by the tool it would call: two   *)
(* of one tool have one key.                                               *)
HeldItem(tool) == [key |-> tool, band |-> Blocking, priority |-> Unprioritised, sources |-> {"approvals"}]

DeskInit ==
    /\ errandOf \in {"queue", "brief"}
    /\ fitted \in Fits
    /\ asked = 0
    /\ \E n \in 0..MaxHeld : \E held \in [1..n -> HeldTools] :
         gathered = [i \in 1..n |-> HeldItem(held[i])]
    /\ heard = {} /\ mute = {}
    /\ queue = Unfinished
    /\ sections = [s \in Resolved |-> [at |-> "asked", mentions |-> {}]]
    /\ brief = Unfinished

-----------------------------------------------------------------------------
(* The queue.                                                              *)

RowToItem(row, source) ==
    [key |-> row.key, band |-> IF row.priority \in {1, 2} THEN Critical ELSE source.band,
     priority |-> row.priority, sources |-> {source.system}]

NextSource == QueueSources[asked + 1]

Gather ==
    /\ errandOf = "queue" /\ asked < Len(QueueSources)
    /\ asked' = asked + 1
    /\ IF NextSource.tool \notin fitted
       THEN UNCHANGED <<gathered, heard, mute>>
       ELSE \/ mute' = mute \union {NextSource.system} /\ UNCHANGED <<gathered, heard>>
            \/ \E answer \in Answers :
                 /\ gathered' = gathered \o [i \in DOMAIN answer |-> RowToItem(answer[i], NextSource)]
                 /\ heard' = heard \union {asked + 1}
                 /\ UNCHANGED mute
    /\ UNCHANGED <<errandOf, fitted, queue, sections, brief>>

(* Items of one key become the first of them, with the systems of all and  *)
(* the most urgent band of any; its priority stays its own.                *)
Same(items, i) == {j \in DOMAIN items : items[j].key = items[i].key}
Firsts(items)  == {i \in DOMAIN items : \A j \in Same(items, i) : i <= j}
Deduplicated(items) ==
    LET firsts == Sorted(Firsts(items), Rising(Firsts(items)))
    IN  [n \in DOMAIN firsts |->
           [items[firsts[n]] EXCEPT
              !.sources = UNION {items[j].sources : j \in Same(items, firsts[n])},
              !.band = Min({items[j].band : j \in Same(items, firsts[n])})]]

(* sorted is stable: what ties stays in the order it came.                 *)
Before(a, b) == a.band < b.band \/ (a.band = b.band /\ a.priority < b.priority)
InTurn(items) ==
    {ij \in (DOMAIN items) \X (DOMAIN items) :
       \/ Before(items[ij[1]], items[ij[2]])
       \/ (~Before(items[ij[2]], items[ij[1]]) /\ ij[1] < ij[2])}
Ranked(items) ==
    LET places == Sorted(DOMAIN items, InTurn(items))
    IN  [n \in DOMAIN places |-> items[places[n]]]

Top(items) == SubSeq(items, 1, Min({Shown, Len(items)}))

(* variant: the cap comes before the ranking *)
PresentedInOrder(items) ==
    LET merged == Deduplicated(items)
    IN  [done |-> TRUE, items |-> Ranked(Top(merged)), dropped |-> Len(merged) - Len(Top(merged))]

Presented(items) ==
    LET ranked == Ranked(Deduplicated(items))
    IN  [done |-> TRUE, items |-> Top(ranked), dropped |-> Len(ranked) - Len(Top(ranked))]

Present ==
    /\ errandOf = "queue" /\ asked = Len(QueueSources) /\ ~queue.done
    /\ queue' = Presented(gathered)
    /\ UNCHANGED <<errandOf, fitted, asked, gathered, heard, mute, sections, brief>>

-----------------------------------------------------------------------------
(* The brief.                                                              *)

Fetch(s) ==
    /\ errandOf = "brief" /\ s \in DOMAIN sections /\ sections[s].at = "asked"
    /\ \/ \E found \in SUBSET Keys :
            sections' = [sections EXCEPT ![s] = [at |-> "ok", mentions |-> found]]
       \/ sections' = [sections EXCEPT ![s].at = "failed"]
    /\ UNCHANGED <<errandOf, fitted, asked, gathered, heard, mute, queue, brief>>

Answering == {s \in DOMAIN sections : sections[s].at = "ok"}
Failing   == {s \in DOMAIN sections : sections[s].at = "failed"}

(* WorkGraph.cross_system_clusters: a section is of the system its tool is *)
(* of.                                                                     *)
Connections == {k \in Keys : Cardinality({s \in Answering : k \in sections[s].mentions}) > 1}

(* The summary is written by the model, or is the sections as they came.   *)
Compose ==
    /\ errandOf = "brief" /\ ~brief.done
    /\ Answering \union Failing = DOMAIN sections
    /\ \E modelAnswers \in BOOLEAN :
         brief' = [done |-> TRUE, body |-> IF modelAnswers THEN "prose" ELSE "sections",
                   error |-> ~modelAnswers, degraded |-> Failing, connections |-> Connections,
                   tainted |-> \E s \in Answering : FilledBy(s) \in Untrusted]
    /\ UNCHANGED <<errandOf, fitted, asked, gathered, heard, mute, queue, sections>>

DeskNext == Gather \/ Present \/ (\E s \in Sections : Fetch(s)) \/ Compose
DeskSpec == DeskInit /\ [][DeskNext]_deskVars

-----------------------------------------------------------------------------
(* Every key that was gathered is shown once, with every system that named *)
(* it among its sources, or is counted as dropped.                         *)
NothingHidden ==
    queue.done =>
        /\ Len(queue.items) + queue.dropped = Cardinality({gathered[i].key : i \in DOMAIN gathered})
        /\ \A i, j \in DOMAIN queue.items : queue.items[i].key = queue.items[j].key => i = j
        /\ \A i \in DOMAIN gathered : \A j \in DOMAIN queue.items :
             queue.items[j].key = gathered[i].key => gathered[i].sources \subseteq queue.items[j].sources

(* What the cap leaves out is in no more urgent band than what it keeps,   *)
(* by any system's reading of it; and what one reading alone named does    *)
(* not rank before it by priority either.                                  *)
CapKeepsTheUrgent ==
    queue.done =>
        \A i \in DOMAIN gathered :
            (\A j \in DOMAIN queue.items : queue.items[j].key # gathered[i].key) =>
                \A j \in DOMAIN queue.items :
                    /\ queue.items[j].band <= gathered[i].band
                    /\ Same(gathered, i) = {i} => ~Before(gathered[i], queue.items[j])

(* A queue names the systems of the sources that did not answer and no     *)
(* others, also when another source of the same system did answer, and     *)
(* holds nothing from a source that did not; a section some tool of the    *)
(* deployment could fill is in the brief or named as missing from it.      *)
GapsAreNamed ==
    /\ mute = {QueueSources[n].system : n \in {m \in 1..asked \ heard : QueueSources[m].tool \in fitted}}
    /\ \A i \in DOMAIN gathered : gathered[i].sources # {"approvals"} =>
           \E n \in heard : gathered[i].sources = {QueueSources[n].system}
    /\ brief.done =>
         \A s \in Sections : \/ s \in DOMAIN sections /\ sections[s].at = "ok"
                            \/ s \in brief.degraded
                            \/ Range(BriefSources[s]) \intersect fitted = {}

(* What a queue or a brief leaves out, and how it says so.                 *)
DeskKept == NothingHidden /\ CapKeepsTheUrgent /\ GapsAreNamed

-----------------------------------------------------------------------------
(* The rule queue.py:24 states: what was dropped is reported rather than   *)
(* silently truncated.  Every held action is shown or counted.             *)
HeldActionsCounted ==
    LET held == {i \in DOMAIN gathered : gathered[i].sources = {"approvals"}}
        rows == {gathered[i].key : i \in DOMAIN gathered \ held}
    IN  queue.done => Len(queue.items) + queue.dropped >= Cardinality(held) + Cardinality(rows \ HeldTools)

(* The rule queue.py:111 states: within the critical band a P1 outranks a  *)
(* P2.  What some system calls P1 is before what no system does.           *)
WorstComesFirst ==
    queue.done =>
        \A i \in DOMAIN gathered, j \in DOMAIN queue.items :
            /\ gathered[i].priority = 1 /\ queue.items[j].band = Critical
            /\ \A k \in DOMAIN gathered : gathered[k].key = queue.items[j].key => gathered[k].priority # 1
            => \E n \in 1..(j - 1) : queue.items[n].key = gathered[i].key
=============================================================================
