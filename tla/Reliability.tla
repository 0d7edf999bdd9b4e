------------------------------ MODULE Reliability ------------------------------
(***************************************************************************)
(* What stands between a model's tool call and the gateway: the resolver   *)
(* of tool names and the repair of arguments of agent/reliability.py, as   *)
(* AgentRuntime._invoke of agent/runtime.py uses them.                     *)
(*                                                                         *)
(* A JSON value is a pair of its kind and what it holds.  What a scalar    *)
(* holds is its text, so that <<"str", "1">>, <<"int", "1">> and           *)
(* <<"float", "1.0">> are three values.  A schema has the declared types,  *)
(* an enumeration, the schema of a list's items (none or one), those of an *)
(* object's keys, the keys it requires, and a depth to which it nests at   *)
(* most.  Names are those of ToolNames.                                    *)
(***************************************************************************)
EXTENDS Integers, Sequences, ToolNames

CONSTANTS
    Schemas,        \* the schemas of the parameters, and of their parts
    Nesting,        \* how deep they nest
    Readings,       \* Readings[s]: the values that are read under schema s
    Deployments,    \* pairs: the tools on offer, the schema of their parameters
    WrittenCalls           \* pairs: the name a model wrote, the arguments it wrote

VARIABLES
    known,          \* the tools on offer
    parameters,     \* the schema their arguments are held to
    invoked         \* the call in hand and what became of it

reliabilityVars == <<known, parameters, invoked>>

Null     == <<"null", "">>
NoObject == <<"broken", "">>
Empty    == <<"dict", <<>>>>
NoInvocation == [name |-> Nameless, form |-> NoObject, resolved |-> Nameless,
                 ok |-> FALSE, arguments |-> NoObject]

ReliabilityInit ==
    /\ \E d \in Deployments : known = d[1] /\ parameters = d[2]
    /\ invoked = NoInvocation

-----------------------------------------------------------------------------
Whole   == {"1"}                        \* what int() reads
Numeric == {"1", "1.0", "1.5"}          \* what float() reads
Truths  == {"yes", "no"}                \* what stands for a boolean
Lower(text) == IF text = "OPEN" THEN "open" ELSE text
AsFloat(text) == IF text = "1" THEN "1.0" ELSE text

Entry(schema, text) == {e \in schema.enum : Lower(e) = Lower(text)}

(* The rules are tried in this order and the first that applies is taken.  *)
Coerced(v, schema) ==
    LET kind == v[1]
        declares(t) == t \in schema.types
    IN  IF schema.types = {} THEN v
        ELSE IF schema.enum # {} /\ ~(kind = "str" /\ v[2] \in schema.enum)
        THEN IF kind = "str" /\ Cardinality(Entry(schema, v[2])) = 1
             THEN <<"str", CHOOSE e \in Entry(schema, v[2]) : TRUE>> ELSE v
        ELSE IF declares("boolean") /\ kind = "str" /\ v[2] \in Truths THEN <<"bool", v[2]>>
        ELSE IF declares("integer") /\ kind = "str" /\ v[2] \in Whole THEN <<"int", v[2]>>
        ELSE IF declares("integer") /\ v = <<"float", "1.0">> THEN <<"int", "1">>
        ELSE IF declares("number") /\ kind = "str" /\ v[2] \in Numeric THEN <<"float", AsFloat(v[2])>>
        ELSE IF declares("string") /\ kind \in {"int", "float"} THEN <<"str", v[2]>>
        ELSE IF declares("array") /\ kind \notin {"list", "null"} THEN <<"list", <<v>>>>
        ELSE v

(* variant: keys the schema does not know are dropped *)
PassedKnown(o, schema) ==
    {k \in DOMAIN o \intersect DOMAIN schema.fields : o[k] = Null => k \in schema.required}

(* Keys the schema does not know are passed on; a null nobody requires is  *)
(* left out.                                                               *)
Passed(o, schema) ==
    {k \in DOMAIN o : k \in DOMAIN schema.fields /\ o[k] = Null => k \in schema.required}

ItemOf(schema) == CHOOSE s \in schema.items : TRUE

(* A value is repaired on what f makes of its parts.                       *)
RepairedParts(f, o, schema) ==
    [k \in Passed(o, schema) |->
        IF k \in DOMAIN schema.fields THEN f[schema.fields[k]][o[k]] ELSE o[k]]
RepairedOn(f, v, schema) ==
    IF v[1] = "dict" /\ "object" \in schema.types
    THEN <<"dict", RepairedParts(f, v[2], schema)>>
    ELSE LET c == Coerced(v, schema)
         IN  IF c[1] = "list" /\ schema.items # {}
             THEN <<"list", [i \in DOMAIN c[2] |-> f[ItemOf(schema)][c[2][i]]]>> ELSE c
RepairedValue[schema \in Schemas] ==
    [v \in Readings[schema] |-> RepairedOn(RepairedValue, v, schema)]
RepairedObject(o, schema) == RepairedParts(RepairedValue, o, schema)

(* Some required key, at whatever depth the repair looks, has no value.    *)
MissingParts(f, o, schema) ==
    \/ \E k \in schema.required :
          k \notin Passed(o, schema) \/ RepairedObject(o, schema)[k] = Null
    \/ \E k \in Passed(o, schema) \intersect DOMAIN schema.fields : f[schema.fields[k]][o[k]]
MissingOn(f, v, schema) ==
    IF v[1] = "dict" /\ "object" \in schema.types
    THEN MissingParts(f, v[2], schema)
    ELSE LET c == Coerced(v, schema)
         IN  /\ c[1] = "list" /\ schema.items # {}
             /\ \E i \in DOMAIN c[2] : f[ItemOf(schema)][c[2][i]]
MissingInValue[schema \in Schemas] ==
    [v \in Readings[schema] |-> MissingOn(MissingInValue, v, schema)]
MissingInObject(o, schema) == MissingParts(MissingInValue, o, schema)

(* Arguments come as an object, or as text: what the text parses to as it  *)
(* stands, within its fence and in its first balanced braces, those there  *)
(* are in that order.  A blank text is an empty object.                    *)
Extracted(candidates) ==
    LET objects == {i \in DOMAIN candidates : candidates[i][1] = "dict"}
    IN  IF candidates = <<>> THEN Empty
        ELSE IF objects = {} THEN NoObject
        ELSE candidates[CHOOSE i \in objects : \A j \in objects : i <= j]
Parsed(form) == IF form[1] = "text" THEN Extracted(form[2]) ELSE form

(* _invoke: what is refused goes back to the model, the rest to the        *)
(* gateway.                                                                *)
Invoke(name, form) ==
    LET tool   == Resolution(known, name)
        parsed == Parsed(form)
    IN  /\ invoked = NoInvocation
        /\ invoked' =
             IF tool = Nameless \/ parsed = NoObject
             THEN [NoInvocation EXCEPT !.name = name, !.form = form, !.resolved = tool]
             ELSE [name |-> name, form |-> form, resolved |-> tool,
                   ok |-> ~MissingInObject(parsed[2], parameters),
                   arguments |-> <<"dict", RepairedObject(parsed[2], parameters)>>]
        /\ UNCHANGED <<known, parameters>>

ReliabilityNext == \E c \in WrittenCalls : Invoke(c[1], c[2])
ReliabilitySpec == ReliabilityInit /\ [][ReliabilityNext]_reliabilityVars

-----------------------------------------------------------------------------
(* Schemas come from JSON, hence are finite trees.  Under a schema are     *)
(* read the arguments of the calls, the parts of what is read, a value     *)
(* that is made a list, and whatever has been repaired.                    *)
Smaller(s, t) == s \in Schemas /\ s.depth < t.depth

ASSUME SchemaAssumption ==
    /\ Nesting \in Nat
    /\ \A s \in Schemas :
          /\ s.depth \in 0..Nesting
          /\ \A t \in s.items : Smaller(t, s)
          /\ \A k \in DOMAIN s.fields : Smaller(s.fields[k], s)

ASSUME ReadingAssumption ==
    \A s \in Schemas : \A v \in Readings[s] :
        /\ v[1] = "dict" => \A k \in DOMAIN v[2] \intersect DOMAIN s.fields :
                               v[2][k] \in Readings[s.fields[k]]
        /\ s.items # {} => IF v[1] = "list" THEN \A i \in DOMAIN v[2] : v[2][i] \in Readings[ItemOf(s)]
                           ELSE v \in Readings[ItemOf(s)]
        /\ RepairedValue[s][v] \in Readings[s]

IsCall(c, schema) ==
    /\ c[1] = ToolName(c[1].server, c[1].tool, c[1].written)
    /\ c[1].written \subseteq {"cased", "padded", "dashed"}
    /\ \/ c[2][1] = "dict" /\ c[2] \in Readings[schema]
       \/ LET texts == c[2][2]
          IN  /\ c[2][1] = "text" /\ DOMAIN texts = 1..Len(texts) /\ Len(texts) \in Nat
              /\ Empty \in Readings[schema]
              /\ \A i \in DOMAIN texts : texts[i][1] = "dict" => texts[i] \in Readings[schema]

ASSUME CallAssumption ==
    \A d \in Deployments :
        d[1] \subseteq Catalogue /\ d[2] \in Schemas /\ \A c \in WrittenCalls : IsCall(c, d[2])

-----------------------------------------------------------------------------
(* What a scalar says, whatever its kind and casing.                       *)
Gist(text) == IF text \in {"1", "1.0"} THEN "1" ELSE Lower(text)
Compound == {"list", "dict"}

(* r says what v says: the same scalar, in a list of its own perhaps, or   *)
(* the same parts, without the nulls of keys the schema knows.  What the   *)
(* schema does not describe is as it was.                                  *)
SameParts(f, r, o, schema) ==
    /\ DOMAIN r \subseteq DOMAIN o
    /\ \A k \in DOMAIN o :
          IF k \notin DOMAIN schema.fields THEN k \in DOMAIN r /\ r[k] = o[k]
          ELSE IF k \in DOMAIN r THEN f[schema.fields[k]][r[k]][o[k]] ELSE o[k] = Null
SameOn(f, r, v, schema) ==
    \/ r = v
    \/ {r[1], v[1]} \intersect Compound = {} /\ Null \notin {r, v} /\ Gist(r[2]) = Gist(v[2])
    \/ r[1] = "list" /\ v[1] # "list" /\ r[2] = <<v>>
    \/ /\ r[1] = "list" /\ v[1] # "list" /\ schema.items # {} /\ DOMAIN r[2] = {1}
       /\ f[ItemOf(schema)][r[2][1]][v]
    \/ /\ r[1] = "list" /\ v[1] = "list" /\ schema.items # {} /\ DOMAIN r[2] = DOMAIN v[2]
       /\ \A i \in DOMAIN r[2] : f[ItemOf(schema)][r[2][i]][v[2][i]]
    \/ r[1] = "dict" /\ v[1] = "dict" /\ SameParts(f, r[2], v[2], schema)
SaysTheSame[schema \in Schemas] ==
    [r \in Readings[schema] |-> [v \in Readings[schema] |-> SameOn(SaysTheSame, r, v, schema)]]

(* Nothing a schema requires is left open anywhere in v.                   *)
SuppliedParts(f, o, schema) ==
    /\ \A k \in schema.required : k \in DOMAIN o /\ o[k] # Null
    /\ \A k \in DOMAIN o \intersect DOMAIN schema.fields : f[schema.fields[k]][o[k]]
SuppliedOn(f, v, schema) ==
    /\ v[1] = "dict" /\ "object" \in schema.types => SuppliedParts(f, v[2], schema)
    /\ v[1] = "list" /\ schema.items # {} => \A i \in DOMAIN v[2] : f[ItemOf(schema)][v[2][i]]
Supplied[schema \in Schemas] ==
    [v \in Readings[schema] |-> SuppliedOn(Supplied, v, schema)]

(* Every declaration is of one type, and of the values it enumerates.      *)
OneTypeOn(f, schema) ==
    /\ \A t, u \in schema.types : t = u
    /\ schema.enum # {} => "array" \notin schema.types
    /\ schema.items # {} => f[ItemOf(schema)]
    /\ \A k \in DOMAIN schema.fields : f[schema.fields[k]]
OneType[schema \in Schemas] == OneTypeOn(OneType, schema)

(* Never invent data.  What reaches the gateway says what the model wrote, *)
(* in one of the objects its text holds, with all that the schema requires *)
(* at every depth; and where each value has one type, arguments sent back  *)
(* to be repaired again are as they were.                                  *)
NothingMadeUp ==
    invoked.ok =>
        LET repaired == invoked.arguments[2]
        IN  /\ \E o \in IF invoked.form[1] = "text"
                         THEN {Empty} \union {invoked.form[2][i] : i \in DOMAIN invoked.form[2]}
                         ELSE {invoked.form} :
                   o[1] = "dict" /\ SameParts(SaysTheSame, repaired, o[2], parameters)
            /\ SuppliedParts(Supplied, repaired, parameters)
            /\ OneType[parameters] => RepairedObject(repaired, parameters) = repaired

(* A call goes to the tool its name is nearest to, with the arguments that *)
(* were written, or it is not carried out.                                 *)
CallsAsMeant == NeverAGuess(known, invoked.name, invoked.resolved) /\ NothingMadeUp

-----------------------------------------------------------------------------
(* The rule reliability.py:258 states: picking the wrong search searches   *)
(* the wrong system.  A name that says its server is not taken for a tool  *)
(* of another.                                                             *)
NamedServerIsKept ==
    invoked.resolved # Nameless /\ invoked.name.server # "" => invoked.resolved.server = invoked.name.server
=============================================================================
