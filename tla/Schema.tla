------------------------------- MODULE Schema -------------------------------
(***************************************************************************)
(* decode.Schema (decode/schema.go): a JSON value validated against a JSON  *)
(* schema, which is a value too.                                            *)
(*                                                                          *)
(* The state s of a validation is the memory of paths, the list of errors,  *)
(* and where: the steps that the path stands for.  A keyword of the schema  *)
(* is one character.                                                        *)
(***************************************************************************)
EXTENDS Value, Path, FiniteSetsExt

CONSTANTS
  Float64(_),      (* the number of a text: [ok, n], n a multiple of some   *)
                   (* small unit                                            *)
  Int64(_),        (* the number that strconv.ParseInt gives, also with an  *)
                   (* error                                                 *)
  Runes(_),        (* the number of runes of a text                         *)
  Compiled(_),     (* whether regexp compiles a text                        *)
  Matches(_, _),   (* whether a pattern matches a text                      *)
  Formatted(_, _)  (* whether a text is of the format of a name             *)

Word(keyword)         == <<keyword>>
Asks(schema, keyword) == Has(schema, Word(keyword))
Of(schema, keyword)   == Get(schema, Word(keyword))

TextOf(v)  == IF v.kind = "string" THEN v.text ELSE <<>>
IntOf(v)   == IF v.kind = "number" THEN Int64(v.text) ELSE 0
FloatOf(v) == IF v.kind = "number" THEN Float64(v.text) ELSE [ok |-> FALSE, n |-> 0]
IsTrue(v)  == v.kind = "boolean" /\ v.text = Word("true")
IsFalse(v) == v.kind = "boolean" /\ v.text = Word("false")

(* parser.IsInteger() *)
IsInteger(text) == Range(text) \cap {".", "e", "E"} = {}

-----------------------------------------------------------------------------
RECURSIVE Equal(_, _)

Equal(a, b) ==
  /\ a.kind = b.kind
  /\ CASE a.kind \in {"string", "boolean"} -> a.text = b.text
       [] a.kind = "number" -> FloatOf(a).n = FloatOf(b).n
       [] a.kind = "array"  -> /\ Len(a.kids) = Len(b.kids)
                               /\ \A i \in 1..Len(a.kids) : Equal(a.kids[i], b.kids[i])
       [] a.kind = "object" ->
            /\ Len(a.keys) = Len(b.keys)
            /\ \A i \in 1..Len(a.keys) : Has(b, a.keys[i]) /\ Equal(a.kids[i], Lookup(b, a.keys[i]))
       [] OTHER -> TRUE

(* contains() *)
IsIn(list, v) == list.kind = "array" /\ \E x \in Range(list.kids) : Equal(x, v)

IsOfType(v, name) ==
  IF name = Word("integer") THEN v.kind = "number" /\ IsInteger(v.text) ELSE name = Word(v.kind)

MatchesType(v, want) ==
  \/ want.kind = "string" /\ IsOfType(v, want.text)
  \/ /\ want.kind = "array"
     /\ \E x \in Range(want.kids) : x.kind = "string" /\ IsOfType(v, x.text)

-----------------------------------------------------------------------------
Begin == [paths |-> RootPath, errs |-> <<>>, where |-> <<>>, matches |-> 0]

(* add(), if a keyword is not met. *)
Add(s, code, v) ==
  [s EXCEPT !.paths = Cloned(@), !.errs = Append(@, OnPath(code, s.paths, s.where, v))]
Check(met, s, code, v) == IF met THEN s ELSE Add(s, code, v)

(* One step further down; and back up to where s is, from t. *)
Down(s, step) == [s EXCEPT !.paths = Pushed(@, step), !.where = Append(@, step)]
Up(s, t)      == [t EXCEPT !.paths = Popped(@), !.where = s.where]

(* checkLength() *)
Length(v, n, schema, least, most, s) ==
  LET t == Check(Asks(schema, least) => n >= IntOf(Of(schema, least)), s, "ESchemaRange", v)
  IN Check(Asks(schema, most) => n <= IntOf(Of(schema, most)), t, "ESchemaRange", v)

StringNode(v, schema, s) ==
  LET t == Length(v, Runes(v.text), schema, "minLength", "maxLength", s)
      u == Check(Asks(schema, "pattern") => Matches(TextOf(Of(schema, "pattern")), v.text),
                 t, "ESchemaPattern", v)
  IN Check(Asks(schema, "format") => Formatted(TextOf(Of(schema, "format")), v.text),
           u, "ESchemaPattern", v)

Limits == <<"minimum", "maximum", "exclusiveMinimum", "exclusiveMaximum">>
Compare(name, n, m) ==
  CASE name = "minimum"          -> n >= m
    [] name = "maximum"          -> n <= m
    [] name = "exclusiveMinimum" -> n > m
    [] name = "exclusiveMaximum" -> n < m

Multiple(n, m) == \E q \in (-n * n)..(n * n) : n = q * m       \* in whole units

NumberNode(v, schema, s) ==
  LET n == FloatOf(v).n
      Limited(name) == LET m == FloatOf(Of(schema, name)) IN m.ok => Compare(name, n, m.n)
      limit(t, name) == Check(Limited(name), t, "ESchemaRange", v)
      step == FloatOf(Of(schema, "multipleOf"))
  IN Check(step.ok /\ step.n # 0 => Multiple(n, step.n), FoldLeft(limit, s, Limits), "ESchemaRange", v)

-----------------------------------------------------------------------------
(* validateNode() and what it calls for containers.                         *)
RECURSIVE Node(_, _, _)

ObjectNode(v, schema, s) ==
  LET properties == Of(schema, "properties")
      additional == ~ IsFalse(Of(schema, "additionalProperties"))
      required   == Of(schema, "required")
      demand(t, name) ==
        IF name.kind = "string" /\ ~ Has(v, name.text)
          THEN Up(t, Add(Down(t, KeyStep(name.text)), "ESchemaRange", v)) ELSE t
      member(t, i) ==
        LET u == Down(t, KeyStep(v.keys[i]))
        IN Up(t, IF Has(properties, v.keys[i]) THEN Node(v.kids[i], Lookup(properties, v.keys[i]), u)
                 ELSE Check(additional, u, "ESchemaProperty", v.kids[i]))
  IN FoldLeftDomain(member,
       IF required.kind = "array" THEN FoldLeft(demand, s, required.kids) ELSE s, v.keys)

Repeated(v, i, s) ==
  IF \E j \in 1..(i - 1) : Equal(v.kids[i], v.kids[j])
    THEN Up(s, Add(Down(s, IndexStep(i - 1)), "ESchemaRange", v.kids[i])) ELSE s

ArrayNode(v, schema, s) ==
  LET items == Of(schema, "items")
      repeated(t, i) == Repeated(v, i, t)
      item(t, i) ==
        LET u == Down(t, IndexStep(i - 1))
        IN Up(t, IF items.kind # "array" THEN Node(v.kids[i], items, u)
                 ELSE IF i <= Len(items.kids) THEN Node(v.kids[i], items.kids[i], u) ELSE u)
      checked == Length(v, Len(v.kids), schema, "minItems", "maxItems", s)
      unique  == IF IsTrue(Of(schema, "uniqueItems"))
                   THEN FoldLeftDomain(repeated, checked, v.kids) ELSE checked
  IN IF Asks(schema, "items") THEN FoldLeftDomain(item, unique, v.kids) ELSE unique

(* A branch is tried with an error list of its own, on the path of all.     *)
Trial(v, schema, s) == Node(v, schema, [s EXCEPT !.errs = <<>>])

Mut_Tried(t, u) ==
  [u EXCEPT !.errs = t.errs \o u.errs, !.matches = t.matches + (IF u.errs = <<>> THEN 1 ELSE 0)]

(* What is left of the trial u: whether it had errors, but not which. *)
Tried(t, u) ==
  [u EXCEPT !.errs = t.errs, !.matches = t.matches + (IF u.errs = <<>> THEN 1 ELSE 0)]

Combinations(v, schema, s) ==
  LET try(t, branch) == Tried(t, Trial(v, branch, t))
      combine(t, key) ==
        LET branches == Of(schema, key)
            u == FoldLeft(try, [t EXCEPT !.matches = 0], branches.kids)
            good == CASE key = "allOf" -> u.matches = Len(branches.kids)
                      [] key = "anyOf" -> u.matches > 0
                      [] key = "oneOf" -> u.matches = 1
        IN IF branches.kind = "array" THEN Check(good, u, "ESchemaCombination", v) ELSE t
      all == FoldLeft(combine, s, <<"allOf", "anyOf", "oneOf">>)
      no  == Trial(v, Of(schema, "not"), all)
  IN IF Asks(schema, "not")
       THEN Check(no.errs # <<>>, [all EXCEPT !.paths = no.paths], "ESchemaCombination", v) ELSE all

Node(v, schema, s) ==
  IF schema.kind # "object" THEN s
  ELSE IF Asks(schema, "type") /\ ~ MatchesType(v, Of(schema, "type")) THEN Add(s, "ESchemaType", v)
  ELSE LET t == Check(Asks(schema, "enum") => IsIn(Of(schema, "enum"), v), s, "ESchemaEnum", v)
           u == Check(Asks(schema, "const") => Equal(Of(schema, "const"), v), t, "ESchemaEnum", v)
           combined == Combinations(v, schema, u)
       IN CASE v.kind = "object" -> ObjectNode(v, schema, combined)
            [] v.kind = "array"  -> ArrayNode(v, schema, combined)
            [] v.kind = "string" -> StringNode(v, schema, combined)
            [] v.kind = "number" -> NumberNode(v, schema, combined)
            [] OTHER             -> combined

-----------------------------------------------------------------------------
(* checkPatterns(): the pattern of v, and those of the objects that are     *)
(* members of v or elements of a member. *)
RECURSIVE CheckPatterns(_)

Mut_CheckPatterns(v) ==
  /\ Asks(v, "pattern") => Of(v, "pattern").kind = "string" /\ Compiled(Of(v, "pattern").text)
  /\ \A x \in Range(v.kids) : x.kind = "object" => CheckPatterns(x)

CheckPatterns(v) ==
  /\ Asks(v, "pattern") => Of(v, "pattern").kind = "string" /\ Compiled(Of(v, "pattern").text)
  /\ \A x \in Range(v.kids) :
       /\ x.kind = "object" => CheckPatterns(x)
       /\ x.kind = "array" => \A y \in Range(x.kids) : y.kind = "object" => CheckPatterns(y)

(* CompileSchema() *)
CompileSchema(v) == v.kind = "object" /\ CheckPatterns(v)

=============================================================================
