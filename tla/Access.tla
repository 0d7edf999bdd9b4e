--------------------------------- MODULE Access ---------------------------------
(***************************************************************************)
(* Who may read what: a node's permissions flattened up its ancestry       *)
(* (knowledge/hierarchy.py), a principal's groups expanded up their        *)
(* nesting (knowledge/groups.py), the verdict on one principal             *)
(* (knowledge/documents.py); and the permissions of a file derived down    *)
(* its directories (connectors/files/acl.py).                              *)
(***************************************************************************)
EXTENDS Naturals, FiniteSets, Sequences

CONSTANTS
    Nodes, LeafNode,      \* permission nodes, and the one asked about
    Orphan,            \* no parent, or one the import did not bring
    Trees,             \* parent pointers an import can bring, loops among them
    Groups, Role,      \* groups, and the one the principal carries
    Nestings,          \* which groups each group directly contains
    MaxAncestry,       \* MAX_ANCESTRY
    MaxDepth,          \* MAX_DEPTH
    Imports,           \* what the nodes of an import can state
    Depth,             \* directories between the share's root and the file
    Modes,             \* modes a path can have: which classes may read it, and enter it
    Mappings           \* which owners and groups a deployment's IdentityMap names

(* What a node states of the principal: what it grants, to a group, or to  *)
(* the principal, by name or with the whole organisation.                  *)
Statements == [inherits : BOOLEAN, denies : BOOLEAN, grants : {"nothing", "principal"} \union Groups]

(* A path: its owner and group, and its mode; or nothing that stat would  *)
(* say.                                                                    *)
Owners   == {"u1", "u2"}
Gangs    == {"g1", "g2"}
Classes  == {"owner", "group", "others"}
Unstated == [stat |-> FALSE, read |-> {}, enter |-> {}]
Paths    == [owner : Owners, group : Gangs, mode : Modes \union {Unstated}]

ASSUME AccessAssumption ==
    /\ IsFiniteSet(Nodes) /\ IsFiniteSet(Groups)
    /\ LeafNode \in Nodes /\ Orphan \notin Nodes /\ Role \in Groups
    /\ Trees \subseteq [Nodes -> Nodes \union {Orphan}]
    /\ Imports \subseteq [Nodes -> Statements]
    /\ Nestings \subseteq [Groups -> SUBSET Groups]
    /\ Mappings \subseteq SUBSET (Owners \union Gangs)
    /\ Modes \subseteq [stat : {TRUE}, read : SUBSET Classes, enter : SUBSET Classes]
    /\ MaxAncestry \in Nat /\ MaxDepth \in Nat /\ Depth \in Nat

VARIABLES
    parent, nodes,      \* the hierarchy: pointers, and what each node states
    nesting,            \* the directory's nesting of groups
    chain,              \* the ancestry so far, nearest first
    frontier, visited,     \* expand: groups to visit and visited
    rounds,
    share, level,       \* the paths of a file, itself first, and how many were read
    others, gids, uids, \* derive_acl: what is left of each kind of grant
    mapped,             \* the ids the identity map names
    progress

accessVars == <<parent, nodes, nesting, chain, frontier, visited, rounds,
                share, level, others, gids, uids, mapped, progress>>

(* Which groups a group directly contains, circles not excluded.           *)
GroupGraphs == [Groups -> SUBSET Groups]

Bare == [n \in Nodes |-> [inherits |-> TRUE, denies |-> FALSE, grants |-> "nothing"]]

AccessTypes ==
    /\ progress \in {"climbing", "expanding", "walking", "done"}
    /\ chain \in Seq(Nodes) /\ visited \subseteq Groups /\ rounds \in 0..MaxDepth
    /\ nodes \in [Nodes -> Statements] /\ nesting \in GroupGraphs
    /\ level \in 0..Depth + 1 /\ gids \subseteq Gangs /\ uids \subseteq Owners
    /\ mapped \subseteq Owners \union Gangs

AccessInit ==
    /\ chain = <<>> /\ frontier = {Role} /\ visited = {} /\ rounds = 0 /\ level = 0
    /\ others = FALSE /\ gids = {} /\ uids = {}
    /\ \/ /\ progress = "climbing"
          /\ parent \in Trees /\ nodes \in Imports /\ nesting \in Nestings
          /\ share = <<>> /\ mapped = {}
       \/ /\ progress = "walking"
          /\ share \in [1..Depth + 1 -> Paths] /\ mapped \in Mappings
          /\ parent = [n \in Nodes |-> Orphan] /\ nodes = Bare /\ nesting = [g \in Groups |-> {}]

-----------------------------------------------------------------------------
(* Hierarchy.ancestry: to the root, a loop, or the bound.                  *)

NextUp(c) == IF c = <<>> THEN LeafNode ELSE parent[c[Len(c)]]
InChain(n) == \E i \in DOMAIN chain : chain[i] = n

Climb ==
    /\ progress = "climbing"
    /\ IF /\ NextUp(chain) # Orphan /\ ~InChain(NextUp(chain))
          /\ Len(chain) < MaxAncestry
       THEN chain' = Append(chain, NextUp(chain)) /\ UNCHANGED progress
       ELSE progress' = "expanding" /\ UNCHANGED chain
    /\ UNCHANGED <<parent, nodes, nesting, frontier, visited, rounds, share, level, others, gids, uids, mapped>>

(* Hierarchy.resolve: grants as far as the nearest break, denials all the  *)
(* way.                                                                    *)
Collected == {chain[i] : i \in {j \in DOMAIN chain : \A k \in 1..j - 1 : nodes[chain[k]].inherits}}

(* variant: nothing above a break counts, its denials neither *)
DeniedBelowBreak == \E n \in Collected : nodes[n].denies

Denied    == \E i \in DOMAIN chain : nodes[chain[i]].denies
Conferred   == {nodes[n].grants : n \in Collected}

(* GroupGraph.expand: upward, a round at a time.                           *)
ParentsOf(g) == {p \in Groups : g \in nesting[p]}
Expand ==
    /\ progress = "expanding"
    /\ IF frontier # {} /\ rounds < MaxDepth
       THEN /\ visited' = visited \union frontier
            /\ frontier' = UNION {ParentsOf(g) : g \in frontier \ visited}
            /\ rounds' = rounds + 1
            /\ UNCHANGED progress
       ELSE progress' = "done" /\ UNCHANGED <<visited, frontier, rounds>>
    /\ UNCHANGED <<parent, nodes, nesting, chain, share, level, others, gids, uids, mapped>>

(* What was still to visit when the rounds were used up is warned of, also *)
(* when all of it had been visited before.                                 *)
Warned == frontier # {}

(* AccessControl.permits: a denial wins outright.                          *)
Permits == ~Denied /\ (Conferred \intersect ({"principal"} \union visited)) # {}

-----------------------------------------------------------------------------
(* derive_acl: the file's own mode, then each directory up to the root     *)
(* takes from it what it does not itself allow, whosever it is.  A path    *)
(* that cannot be inspected ends the walk with nobody.                     *)

ReadBy(path, directory) == IF directory THEN path.mode.read \intersect path.mode.enter ELSE path.mode.read

Narrow ==
    /\ progress = "walking"
    /\ level' = level + 1
    /\ LET path    == share[level + 1]
           classes == ReadBy(path, level > 0)
       IN  \/ /\ ~path.mode.stat
              /\ others' = FALSE /\ gids' = {} /\ uids' = {}
              /\ progress' = "done"
           \/ /\ path.mode.stat
              /\ others' = ("others" \in classes /\ (level = 0 \/ others))
              /\ gids' = IF "group" \notin classes THEN {} ELSE IF level = 0 THEN {path.group} ELSE gids
              /\ uids' = IF level = 0 THEN (IF "owner" \in classes THEN {path.owner} ELSE {})
                         ELSE IF classes = {} THEN {} ELSE uids
              /\ progress' = IF level = Depth THEN "done" ELSE "walking"
    /\ UNCHANGED <<parent, nodes, nesting, chain, frontier, visited, rounds, share, mapped>>

(* An id that has no name is no grant.                                     *)
ShareAllows(u, roles) ==
    \/ others
    \/ u \in uids \intersect mapped
    \/ gids \intersect mapped \intersect roles # {}

AccessNext == Climb \/ Expand \/ Narrow
AccessSpec == AccessInit /\ [][AccessNext]_accessVars

-----------------------------------------------------------------------------
(* What should come of it: every ancestor by the pointers, every group by  *)
(* the nesting, and the file system's own rule at each path.               *)

(* The least set that holds start and whatever is directly above a member. *)
Upward(all, start, above) ==
    {x \in all : \A S \in SUBSET all : start \in S /\ (\A y \in S : above[y] \subseteq S) => x \in S}

ParentOf(n) == {parent[n]} \ {Orphan}
Ancestors == Upward(Nodes, LeafNode, [n \in Nodes |-> ParentOf(n)])
Uncut     == Upward(Nodes, LeafNode, [n \in Nodes |-> IF nodes[n].inherits THEN ParentOf(n) ELSE {}])
Effective == Upward(Groups, Role, [g \in Groups |-> ParentsOf(g)])

ShouldRead ==
    /\ \A n \in Ancestors : ~nodes[n].denies
    /\ \E n \in Uncut : nodes[n].grants \in {"principal"} \union Effective

(* The class of a user at a path is the first that fits; a file is read, a *)
(* directory is entered.                                                   *)
ClassAt(path, u, roles) ==
    IF u = path.owner THEN "owner" ELSE IF path.group \in roles THEN "group" ELSE "others"
MayPass(i, u, roles) ==
    ClassAt(share[i], u, roles) \in IF i = 1 THEN share[i].mode.read ELSE share[i].mode.enter

(* A principal reads a node exactly when some ancestor no break cuts off   *)
(* grants it, to a group it is in however deeply, and no ancestor denies   *)
(* it, behind a break or not; loops of pointers and of groups end the walk *)
(* and change nothing.  Where a bound cuts a walk off, no grant is added;  *)
(* groups are missed only beyond MaxDepth of them, and then it is warned   *)
(* of; and one who is denied is let in only past MaxAncestry nodes.        *)
HierarchyIsExact ==
    share = <<>> /\ progress = "done" =>
        /\ Permits => \E n \in Uncut : nodes[n].grants \in {"principal"} \union Effective
        /\ visited = Effective \/ (Warned /\ Cardinality(Effective) > MaxDepth)
        /\ Permits /\ ~ShouldRead => Cardinality(Ancestors) > MaxAncestry
        /\ ShouldRead /\ ~Permits => Warned \/ Cardinality(Ancestors) > MaxAncestry

(* Modes that give no wider class what they keep from a narrower one.      *)
Falls(classes) ==
    /\ "others" \in classes => "group" \in classes
    /\ "group" \in classes => "owner" \in classes
Stepwise == \A i \in DOMAIN share : Falls(share[i].mode.read) /\ Falls(share[i].mode.enter)

Directories == DOMAIN share \ {1}

(* Directories that anyone may enter, or that are of the file's own hand.  *)
OpenOrOwn ==
    \A i \in Directories :
        \/ "others" \in share[i].mode.enter
        \/ share[i].owner = share[1].owner /\ share[i].group = share[1].group

(* Directories entered by whom they are read, and ids that have names.     *)
EnteredAsRead ==
    /\ \A i \in Directories : share[i].mode.read = share[i].mode.enter
    /\ {share[1].owner, share[1].group} \subseteq mapped

(* On a share of such modes, whoever is let in may read the file by its    *)
(* own, and every path was inspected and lets someone through.  Where each *)
(* directory is open to all or of the file's own owner and group, whoever  *)
(* is let in could have come to the file and read it; and whoever could is *)
(* let in, if directories are read by whom they are entered and the file's *)
(* owner and group have names.                                             *)
ShareIsExact ==
    share # <<>> /\ progress = "done" /\ Stepwise =>
        \A u \in Owners, roles \in SUBSET Gangs :
            /\ ShareAllows(u, roles) =>
                  MayPass(1, u, roles) /\ \A i \in DOMAIN share : ReadBy(share[i], i > 1) # {}
            /\ OpenOrOwn /\ ShareAllows(u, roles) => \A i \in DOMAIN share : MayPass(i, u, roles)
            /\ OpenOrOwn /\ EnteredAsRead /\ (\A i \in DOMAIN share : MayPass(i, u, roles)) => ShareAllows(u, roles)

(* What is derived from a source's permissions is what the source permits. *)
AccessIsExact == HierarchyIsExact /\ ShareIsExact

-----------------------------------------------------------------------------
(* The rule acl.py:15 and 98 state: the effective ACL is the intersection  *)
(* down the chain.  Nobody is let in whom a path on the way keeps out.     *)
IntersectionDownTheChain ==
    share # <<>> /\ progress = "done" =>
        \A u \in Owners, roles \in SUBSET Gangs :
            ShareAllows(u, roles) => \A i \in DOMAIN share : MayPass(i, u, roles)

(* The rule hierarchy.py:20 and 114 state: denials always inherit, the     *)
(* whole way to the root.                                                  *)
DenialsReachTheRoot ==
    share = <<>> /\ progress = "done" /\ Permits => \A n \in Ancestors : ~nodes[n].denies
=============================================================================
