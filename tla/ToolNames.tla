------------------------------- MODULE ToolNames -------------------------------
(***************************************************************************)
(* ToolNameResolver of agent/reliability.py: which tool on offer a name    *)
(* that a model wrote stands for.                                          *)
(*                                                                         *)
(* A name is its server, its bare name and the ways in which it is written *)
(* unlike the plain one: other letters in capitals, blanks round it,       *)
(* dashes for its underscores.  No tool has blanks round its name.         *)
(***************************************************************************)
EXTENDS Naturals, FiniteSets

CONSTANT Catalogue      \* tool names a deployment may know

ToolName(server, tool, written) == [server |-> server, tool |-> tool, written |-> written]
Nameless == ToolName("", "", {"nothing"})

ASSUME CatalogueAssumption ==
    /\ IsFiniteSet(Catalogue) /\ Nameless \notin Catalogue
    /\ \A k \in Catalogue :
          /\ k = ToolName(k.server, k.tool, k.written)
          /\ k.written \subseteq {"cased", "dashed"}

Stripped(n) == [n EXCEPT !.written = @ \ {"padded"}]

(* Lower-cased, two names are the same letter for letter, dashes included; *)
(* of their last parts, with dashes for underscores.                       *)
SameButCase(known, n) ==
    {k \in known : k.server = n.server /\ k.tool = n.tool /\ ("dashed" \in k.written <=> "dashed" \in n.written)}
SameBare(known, n) == {k \in known : k.tool = n.tool}

(* variant: the first of several matches is taken *)
ResolutionByGuess(known, name) ==
    LET n == Stripped(name)
    IN  IF n \in known THEN n
        ELSE IF SameButCase(known, n) # {} THEN CHOOSE k \in SameButCase(known, n) : TRUE
        ELSE IF SameBare(known, n) # {} THEN CHOOSE k \in SameBare(known, n) : TRUE ELSE Nameless

Resolution(known, name) ==
    LET n == Stripped(name)
    IN  CASE name \in known -> name
          [] name \notin known /\ n \in known -> n
          [] n \notin known /\ Cardinality(SameButCase(known, n)) = 1 ->
                CHOOSE k \in SameButCase(known, n) : TRUE
          [] n \notin known /\ Cardinality(SameButCase(known, n)) # 1
                            /\ Cardinality(SameBare(known, n)) = 1 ->
                CHOOSE k \in SameBare(known, n) : TRUE
          [] OTHER -> Nameless

-----------------------------------------------------------------------------
(* In what a name differs from a tool's.                                   *)
Strays(name, k) ==
    (name.written \ k.written) \union (k.written \ name.written)
    \union {x \in {"server"} : k.server # name.server}

Namesakes(tools, name) == {k \in tools : k.tool = name.tool}

(* Ambiguity is an error, never a guess.  Of the tools on offer with its   *)
(* bare name, a name goes to one from which it differs in less than from   *)
(* any other, or to none; it is refused only if it is nobody's own and the *)
(* bare name is not one tool's alone; and had the deployment one tool      *)
(* more, the name would go to the same tool, to the new one or to none,    *)
(* never to a third.                                                       *)
NeverAGuess(known, name, tool) ==
    /\ tool # Nameless =>
         /\ tool \in Namesakes(known, name)
         /\ \A k \in Namesakes(known, name) \ {tool} : ~(Strays(name, k) \subseteq Strays(name, tool))
         /\ \A t \in Catalogue : Resolution(known \union {t}, name) \in {tool, t, Nameless}
    /\ tool = Nameless /\ name # Nameless =>
         Stripped(name) \notin known /\ Cardinality(Namesakes(known, name)) # 1
=============================================================================
