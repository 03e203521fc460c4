----------------------------- MODULE ToolSchema -----------------------------
(* The data checks of tool_bridge.py: the bounded copy of what the host or  *)
(* the model hands over, the schemas a bridge accepts, the arguments it     *)
(* lets through, and the text it hands back.  Each is a function of its     *)
(* input; a behaviour is one input.                                         *)
EXTENDS Integers, Sequences, FiniteSets, SequencesExt

CONSTANTS MaxDepth,     \* _MAX_JSON_DEPTH
          MaxNodes,     \* _MAX_JSON_NODES
          MaxBytes,     \* the limit on the bytes of all strings
          TextLimits,   \* bound: limits a text is cut to
          MaxChars      \* bound: characters of a text

VARIABLE datum          \* the input: a graph, a schema with a value, a text

-----------------------------------------------------------------------------
(* _copy_plain_json(): objects by identity, 1 the root.  A "str" is one     *)
(* byte long; the kids of a "dict" are its values, each with a key of one   *)
(* byte; an object may be shared, or contain itself.                        *)
Ids == 1 .. 3
KidSeqs == UNION {[1 .. n -> Ids] : n \in 0 .. 2}
Objects ==
  {[kind |-> "str", kids |-> <<>>], [kind |-> "odd", kids |-> <<>>]}
    \cup [kind : {"list", "dict"}, kids : KidSeqs]
Graphs == [Ids -> Objects]

Refused == [ok |-> FALSE, nodes |-> 0, bytes |-> 0]
Started == [ok |-> TRUE, nodes |-> 0, bytes |-> 0]

(* The counters after a node, and after a string.                           *)
Counted(acc, depth) ==
  IF acc.nodes + 1 > MaxNodes \/ depth > MaxDepth THEN Refused
  ELSE [acc EXCEPT !.nodes = @ + 1]
CountedString(acc, depth) ==
  LET n == Counted(acc, depth)
  IN  IF ~n.ok \/ n.bytes + 1 > MaxBytes THEN Refused
      ELSE [n EXCEPT !.bytes = @ + 1]

(* The objects that are being copied around the kids of one of them, and    *)
(* around its next sibling.                                                 *)
Around(active, id) == active \cup {id}
(* Mutant: an object stays active after its copy. *)
AfterCopyKept(active, id) == active \cup {id}
AfterCopy(active, id) == active

RECURSIVE Copy(_, _, _, _, _), CopyKids(_, _, _, _, _)
Copy(g, id, depth, active, acc) ==
  IF g[id].kind = "str" THEN CountedString(acc, depth)
  ELSE LET n == Counted(acc, depth)
       IN  IF ~n.ok \/ g[id].kind = "odd" \/ id \in active THEN Refused
           ELSE CopyKids(g, id, 1, [depth |-> depth + 1,
                                    active |-> Around(active, id)], n)
CopyKids(g, id, i, at, acc) ==
  IF ~acc.ok \/ i > Len(g[id].kids) THEN acc
  ELSE LET key == IF g[id].kind = "dict" THEN CountedString(acc, at.depth)
                                         ELSE acc
           kid == g[id].kids[i]
       IN  IF ~key.ok THEN Refused
           ELSE CopyKids(g, id, i + 1,
                         [at EXCEPT !.active = AfterCopy(@, kid)],
                         Copy(g, kid, at.depth, at.active, key))
CopyAccepts(g) == Copy(g, 1, 0, {}, Started).ok

(* The tree a graph unfolds to, as the paths of kid positions from the      *)
(* root, down to one level below the limit.                                 *)
RECURSIVE ObjectAt(_, _)
ObjectAt(g, path) ==
  IF path = <<>> THEN 1
  ELSE LET up == ObjectAt(g, Front(path))
       IN  IF up # 0 /\ Last(path) \in DOMAIN g[up].kids
           THEN g[up].kids[Last(path)] ELSE 0
PathsIn(g) ==
  {p \in UNION {[1 .. n -> {1, 2}] : n \in 0 .. MaxDepth + 1} :
     ObjectAt(g, p) # 0}
Strings(g) == {p \in PathsIn(g) : g[ObjectAt(g, p)].kind = "str"}
KeyPaths(g) ==
  {p \in PathsIn(g) \ {<<>>} : g[ObjectAt(g, Front(p))].kind = "dict"}

(* A value is copied exactly when the tree it stands for is plain and       *)
(* within the limits on depth, nodes and bytes: what is shared is copied as *)
(* often as it occurs, and what contains itself never                       *)
(* (tool_bridge.py:179-246).                                                *)
CopyIsExact ==
  datum.of = "graph" =>
    LET g == datum.graph
    IN  CopyAccepts(g) <=>
          /\ \A p \in PathsIn(g) : Len(p) <= MaxDepth
          /\ \A p \in PathsIn(g) : g[ObjectAt(g, p)].kind # "odd"
          /\ Cardinality(PathsIn(g)) + Cardinality(KeyPaths(g)) <= MaxNodes
          /\ Cardinality(Strings(g)) + Cardinality(KeyPaths(g)) <= MaxBytes

-----------------------------------------------------------------------------
(* JSON values: a string is its length, a dict the sequence of its items.   *)
J(kind, val) == [kind |-> kind, val |-> val]
Scalars == {J("null", 0), J("bool", 1), J("int", 0), J("int", 1),
            J("float", 1), J("nan", 0), J("str", 0), J("str", 1), J("str", 2)}
Members == {J("int", 1), J("str", 1)}
Lists == {J("list", s) : s \in UNION {[1 .. n -> Members] : n \in 0 .. 2}}
Dicts == {J("dict", f) : f \in UNION {[d -> Members] :
                                        d \in SUBSET {"a", "b", "c"}}}
Values == Scalars \cup Lists \cup Dicts

Int1 == [type |-> "int"]
Str1 == [type |-> "str"]
Types == {"dict", "list", "str", "number", "int", "bool", "null"}

(* Schemas by keyword: a type, or none, and up to three other keywords.     *)
Keywords ==
  {<<"minLength", 1>>, <<"minLength", 2>>, <<"maxLength", 1>>,
   <<"minimum", 1>>, <<"maximum", 0>>, <<"minItems", 1>>, <<"maxItems", 0>>,
   <<"maxItems", 1>>, <<"enum", {J("int", 1)}>>, <<"enum", {J("str", 1)}>>,
   <<"anyOf", {}>>, <<"anyOf", {Int1, Str1}>>, <<"items", Int1>>,
   <<"properties", [x \in {"a"} |-> Int1]>>,
   <<"properties", [x \in {"a", "b"} |-> IF x = "a" THEN Int1 ELSE Str1]>>,
   <<"required", {"a"}>>, <<"required", {"b"}>>,
   <<"additionalProperties", FALSE>>}
SchemaOf(type, ks) ==
  [k \in {x[1] : x \in ks} \cup (IF type = "none" THEN {} ELSE {"type"}) |->
     IF k = "type" THEN type ELSE (CHOOSE x \in ks : x[1] = k)[2]]
KeywordSets ==
  {ks \in UNION {{{x, y, z} : x, y, z \in Keywords}, {{}}} :
     \A x, y \in ks : x[1] = y[1] => x = y}
Schemas == {SchemaOf(t, ks) : t \in Types \cup {"none"}, ks \in KeywordSets}

Has(s, k) == k \in DOMAIN s
Opt(s, k, default) == IF Has(s, k) THEN s[k] ELSE default
OnlyFor(s, types, ks) ==
  (\E k \in ks : Has(s, k)) => Has(s, "type") /\ s.type \in types
InOrder(s, lo, hi) == Has(s, lo) /\ Has(s, hi) => s[lo] <= s[hi]

(* _valid_schema(): the children here are valid schemas.                    *)
ValidSchema(s) ==
  /\ Has(s, "type") \/ Has(s, "anyOf")
  /\ Has(s, "anyOf") => s.anyOf # {}
  /\ ~Has(s, "type") => DOMAIN s = {"anyOf"}
  /\ InOrder(s, "minLength", "maxLength")
  /\ InOrder(s, "minItems", "maxItems")
  /\ InOrder(s, "minimum", "maximum")
  /\ Opt(s, "required", {}) \subseteq DOMAIN Opt(s, "properties", <<>>)
  /\ OnlyFor(s, {"dict"}, {"properties", "required", "additionalProperties"})
  /\ OnlyFor(s, {"str"}, {"minLength", "maxLength"})
  /\ OnlyFor(s, {"list"}, {"minItems", "maxItems"})
  /\ OnlyFor(s, {"number", "int"}, {"minimum", "maximum"})

(* Mutant: one of the two limits is enough. *)
FitsEither(n, s, lo, hi) ==
  IF Has(s, lo) THEN n >= s[lo] ELSE Has(s, hi) => n <= s[hi]
(* The checks of _matches_schema() for each type.                           *)
Fits(n, s, lo, hi) ==
  (Has(s, lo) => n >= s[lo]) /\ (Has(s, hi) => n <= s[hi])
InEnum(v, s) == Has(s, "enum") => v \in s.enum

RECURSIVE Matches(_, _)
Matches(v, s) ==
  /\ Has(s, "anyOf") => \E child \in s.anyOf : Matches(v, child)
  /\ Has(s, "type") =>
       CASE s.type = "dict" ->
              /\ v.kind = "dict"
              /\ Opt(s, "required", {}) \subseteq DOMAIN v.val
              /\ Has(s, "additionalProperties") =>
                   DOMAIN v.val \subseteq DOMAIN Opt(s, "properties", <<>>)
              /\ \A x \in DOMAIN v.val \cap DOMAIN Opt(s, "properties", <<>>) :
                   Matches(v.val[x], s.properties[x])
         [] s.type = "list" ->
              /\ v.kind = "list" /\ Fits(Len(v.val), s, "minItems", "maxItems")
              /\ Has(s, "items") =>
                   \A i \in DOMAIN v.val : Matches(v.val[i], s.items)
         [] s.type = "str" ->
              /\ v.kind = "str" /\ Fits(v.val, s, "minLength", "maxLength")
              /\ InEnum(v, s)
         [] s.type = "number" ->
              /\ v.kind \in {"int", "float"}
              /\ Fits(v.val, s, "minimum", "maximum") /\ InEnum(v, s)
         [] s.type = "int" ->
              /\ v.kind = "int" /\ Fits(v.val, s, "minimum", "maximum")
              /\ InEnum(v, s)
         [] OTHER -> v.kind = s.type /\ InEnum(v, s)

(* What each keyword asks of a value, taken by itself; enum is left out for *)
(* objects and arrays, where the bridge does not apply it.                  *)
RECURSIVE Asks(_, _, _)
Asks(v, s, k) ==
  LET All(child, x) == \A q \in DOMAIN child : Asks(x, child, q)
  IN  CASE k = "type" -> \/ v.kind = s.type
                         \/ s.type = "number" /\ v.kind \in {"int", "float"}
        [] k = "anyOf" -> \E child \in s.anyOf : All(child, v)
        [] k = "minLength" -> v.kind = "str" => v.val >= s[k]
        [] k = "maxLength" -> v.kind = "str" => v.val <= s[k]
        [] k = "minimum" -> v.kind \in {"int", "float"} => v.val >= s[k]
        [] k = "maximum" -> v.kind \in {"int", "float"} => v.val <= s[k]
        [] k = "minItems" -> v.kind = "list" => Len(v.val) >= s[k]
        [] k = "maxItems" -> v.kind = "list" => Len(v.val) <= s[k]
        [] k = "items" ->
             v.kind = "list" => \A i \in DOMAIN v.val : All(s[k], v.val[i])
        [] k = "properties" ->
             v.kind = "dict" =>
               \A x \in DOMAIN s[k] \cap DOMAIN v.val : All(s[k][x], v.val[x])
        [] k = "required" -> v.kind = "dict" => s[k] \subseteq DOMAIN v.val
        [] k = "additionalProperties" ->
             v.kind = "dict" =>
               \A x \in DOMAIN v.val : Has(s, "properties")
                                         /\ x \in DOMAIN s.properties
        [] k = "enum" -> v \in s[k] \/ v.kind \in {"dict", "list"}

(* Arguments pass exactly when they meet every keyword of an accepted       *)
(* schema: no check ends before another was made, and none is made of a     *)
(* keyword that a schema of that type could not hold                        *)
(* (tool_bridge.py:285-401, 471-533).                                       *)
MatchMeansEveryKeyword ==
  datum.of = "value" =>
    (Matches(datum.value, datum.schema) <=>
       \A k \in DOMAIN datum.schema : Asks(datum.value, datum.schema, k))

-----------------------------------------------------------------------------
(* _bounded_text(): "k" and the "v"s behind it are a secret, redacted to    *)
(* "r"; "c" is a control character, "w" is two bytes long.  The marker that *)
(* stands for what is cut is "m".                                           *)
Chars == {"k", "v", "w", "c"}
Texts == UNION {[1 .. n -> Chars] : n \in 0 .. MaxChars}
Bytes(t) == Len(t) + Len(SelectSeq(t, LAMBDA c : c = "w"))
Pick(t, keep) ==
  LET kept == SetToSortSeq(keep, <)
  IN  [i \in DOMAIN kept |-> t[kept[i]]]

InSecret(t, i) ==
  /\ t[i] = "v"
  /\ \E j \in 1 .. i - 1 :
       t[j] = "k" /\ \A m \in j + 1 .. i : t[m] = "v"
RedactSecretLike(t) ==
  Pick([i \in DOMAIN t |->
          IF t[i] = "k" /\ i < Len(t) /\ t[i + 1] = "v" THEN "r" ELSE t[i]],
       {i \in DOMAIN t : ~InSecret(t, i)})

(* Control characters become spaces; runs of spaces become one, and none is *)
(* left at either end.                                                      *)
Spaced(t) ==
  LET s == [i \in DOMAIN t |-> IF t[i] = "c" THEN " " ELSE t[i]]
  IN  Pick(s, {i \in DOMAIN s :
                 \/ s[i] # " "
                 \/ /\ i > 1 /\ s[i - 1] # " "
                    /\ \E j \in i + 1 .. Len(s) : s[j] # " "})

Longest(t, limit, Part(_, _)) ==
  LET n == CHOOSE n \in 0 .. Len(t) :
             /\ Bytes(Part(t, n)) <= limit
             /\ n < Len(t) => Bytes(Part(t, n + 1)) > limit
  IN  Part(t, n)
Head0(t, n) == SubSeq(t, 1, n)
Tail0(t, n) == SubSeq(t, Len(t) - n + 1, Len(t))
Cut(t, limit) ==
  IF Bytes(t) <= limit THEN t
  ELSE IF limit <= 1 THEN SubSeq(<<"m">>, 1, limit)
  ELSE Longest(t, (limit - 1) \div 2, Head0) \o <<"m">>
         \o Longest(t, (limit - 1) - (limit - 1) \div 2, Tail0)
(* Mutant: the text is cut before it is redacted. *)
BoundedToolTextLate(t, limit) == Spaced(RedactSecretLike(Cut(t, limit)))
BoundedToolText(t, limit) == Cut(Spaced(RedactSecretLike(t)), limit)

(* A text handed to the CLI keeps to its limit in bytes, whole characters   *)
(* only, and wherever it is cut no part of a secret is left in it           *)
(* (tool_bridge.py:113-173).                                                *)
TextIsSafe ==
  datum.of = "text" =>
    LET out == BoundedToolText(datum.text, datum.limit)
    IN  /\ Bytes(out) <= datum.limit
        /\ (\A i \in DOMAIN datum.text :
              datum.text[i] = "v" => InSecret(datum.text, i))
             => \A i \in DOMAIN out : out[i] # "v"

SchemaInit ==
  \/ \E g \in Graphs : datum = [of |-> "graph", graph |-> g]
  \/ \E s \in {x \in Schemas : ValidSchema(x)}, v \in Values :
       datum = [of |-> "value", schema |-> s, value |-> v]
  \/ \E t \in Texts, n \in TextLimits :
       datum = [of |-> "text", text |-> t, limit |-> n]

(* What a tool is asked, what it is shown and what it answers are all held  *)
(* to their bounds.                                                         *)
BridgeDataIsBounded == CopyIsExact /\ MatchMeansEveryKeyword /\ TextIsSafe
=============================================================================
