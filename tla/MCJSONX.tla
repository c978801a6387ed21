------------------------------ MODULE MCJSONX -------------------------------
(***************************************************************************)
(* Model checking of JSONX with its decoder and schema: small values, types *)
(* and schemas, and what the facade's functions should make of them.        *)
(***************************************************************************)
EXTENDS JSONX, Assigning

T1   == <<"1">>               T300 == <<"3", "0", "0">>     \* too large for an int8
T15  == <<"1", ".", "5">>     T10  == <<"1", ".", "0">>
TX   == <<"x">>               T64  == <<"a", "b", "c", "d">>

MCStrconv(kind, text) ==
  CASE kind = "bool"   -> IF text = Word("true") THEN "ok" ELSE "syntax"
    [] kind = "base64" -> IF text = T64 THEN "ok" ELSE "syntax"
    [] kind = "custom" -> IF text = TX THEN "syntax" ELSE "ok"
    [] kind = "float"  -> IF text \in {T1, T300, T15, T10} THEN "ok" ELSE "syntax"
    [] OTHER           -> IF text = T1 THEN "ok" ELSE IF text = T300 THEN "range" ELSE "syntax"

(* Numbers in halves. *)
MCFloat64(text) ==
  [ok |-> TRUE, n |-> CASE text = T1 -> 2 [] text = T10 -> 2 [] text = T15 -> 3 [] OTHER -> 4]
MCInt64(text) == CASE text = T1 -> 1 [] text \in {T15, T10} -> 0 [] OTHER -> 2
MCRunes(text) == Len(text)
MCCompiled(text)        == text # <<"(">>
MCMatches(expr, text)   == expr = <<>> \/ (MCCompiled(expr) /\ expr[1] \in Range(text))
MCFormatted(name, text) == name = Word("email") => "@" \in Range(text)

-----------------------------------------------------------------------------
True == Scalar("boolean", Word("true"))
False == Scalar("boolean", Word("false"))
N(text) == Scalar("number", text)
S(text) == Scalar("string", text)

a == <<"a">>      A == <<"A">>      b == <<"b">>      quote == <<"'", "\\">>

Names  == {a, A, b, quote, <<>>}
AllKeys == Names \cup {<<"a", ".">>, <<"B">>} \cup {Word(k) : k \in
  {"type", "enum", "const", "allOf", "anyOf", "oneOf", "not", "required", "properties", "additionalProperties",
   "items", "minItems", "maxItems", "uniqueItems", "minLength", "maxLength", "pattern", "format",
   "minimum", "maximum", "exclusiveMinimum", "exclusiveMaximum", "multipleOf"}}
MCKeys == AllKeys

Arrays(n, X)    == UNION { {Array(s) : s \in [1..i -> X]} : i \in 0..n }
ObjectsOf(n, K, X) ==
  UNION { {Object(ks, xs) : ks \in [1..i -> K], xs \in [1..i -> X]} : i \in 0..n }

Atoms == {Null, True, N(T1), N(T15), N(T300), S(T1), S(TX), S(T64), S(Word("true"))}
Few   == {Null, N(T1), S(TX)}

F(name, type, required) ==
  [name |-> name, typ |-> type, required |-> required, hidden |-> FALSE, embedded |-> FALSE]
Hidden(f)      == [f EXCEPT !.hidden = TRUE]
Embedded(type) == [F(<<>>, type, FALSE) EXCEPT !.embedded = TRUE]

(* In struct big, the last field takes the key of one of the embedded       *)
(* struct; in clash, one field's lower-case name is the other's name.       *)
Structs ==
  [point |-> <<F(a, "int", TRUE), Hidden(F(b, "int", TRUE)), F(<<"B">>, "string", FALSE)>>,
   big   |-> <<F(quote, "ints", FALSE), Embedded("point"), F(a, "any", TRUE)>>,
   clash |-> <<F(a, "int", TRUE), F(A, "string", TRUE)>>,
   node  |-> <<F(a, "map", TRUE), F(quote, "ints", FALSE), F(b, "pnode", FALSE)>>]

Basic(kind)             == [kind |-> kind, elem |-> "none", length |-> 0, custom |-> "no"]
Holds(kind, elem)       == [kind |-> kind, elem |-> elem, length |-> 2, custom |-> "no"]
WithMethod(kind, takes) == [Basic(kind) EXCEPT !.custom = takes]

Described ==
  [int |-> Basic("int"), uint |-> Basic("uint"), float |-> Basic("float"), string |-> Basic("string"),
   bool |-> Basic("bool"), any |-> Basic("interface"), other |-> Basic("other"),
   custom |-> WithMethod("other", "value"), text |-> WithMethod("string", "text"),
   pint |-> Holds("pointer", "int"), pcustom |-> Holds("pointer", "custom"), ints |-> Holds("slice", "int"),
   pair |-> Holds("array", "int"), bytes |-> Holds("bytes", "uint"), map |-> Holds("map", "pair"),
   point |-> Basic("struct"), big |-> Basic("struct"), clash |-> Basic("struct"), node |-> Basic("struct"),
   pnode |-> Holds("pointer", "node")]

WithFields(d, fields) == Type(d.kind, d.elem, d.length, d.custom, fields)

AllTypes ==
  [t \in DOMAIN Described |->
     WithFields(Described[t], IF t \in DOMAIN Structs THEN Ordered(Structs)[t] ELSE <<>>)]
MCTypes == AllTypes

Simple == {"int", "uint", "float", "string", "bool", "other", "custom", "text", "pint", "pcustom", "bytes"}

(* UNION Xs, faster: of sets that have been sorted, in order to count them. *)
Sorted(X)  == IF Cardinality(X) = 0 THEN {} ELSE X
United(Xs) == FoldSet(LAMBDA X, Y : Sorted(X) \cup Sorted(Y), {}, Xs)

(* Some values for each of the types. *)
Pairs == Arrays(2, {N(T1), S(TX)})
Inner == {N(T1), Array(<<N(T1)>>), Object(<<b, b>>, <<Array(<<N(T1)>>), Array(<<Null, N(T1)>>)>>),
          Object(<<quote>>, <<Array(<<Null, S(TX)>>)>>)}
Middle == Inner \cup ObjectsOf(1, {b, a}, Inner)

RootsFor(t) ==
  CASE t \in Simple             -> Atoms \cup {Array(<<N(T1)>>), Array(<<S(TX), N(T1)>>)}
    [] t \in {"ints", "pair"}   -> Few \cup Arrays(3, Few)
    [] t = "any"                -> ObjectsOf(2, {a, b}, {N(T1), True, Array(<<N(T15)>>)})
    [] t = "map"                -> Few \cup ObjectsOf(2, {a, <<>>}, Pairs)
    [] t \in {"point", "big", "clash"} -> Few \cup ObjectsOf(2, Names, Few)
    [] t = "pnode"              -> Few \cup ObjectsOf(1, {a, b}, Middle)
    [] t = "node"               -> ObjectsOf(2, {a, b, quote}, Middle)

(* What the destination holds before. *)
Held(t) ==
  CASE t = "pint" -> {Nil, Pointer(Go("int", TX))}
    [] t = "ints" -> {Items(<<Go("int", TX)>>)}
    [] t = "pair" -> {Items(<<Go("int", TX), Go("int", TX)>>)}
    [] t = "map"  -> {Nil, Entries(Put(<<>>, a, Items(<<Go("int", TX), Go("int", TX)>>)))}
    [] OTHER      -> {Zero[t]}

-----------------------------------------------------------------------------
Request(entry, options, data) ==
  [entry |-> entry, options |-> options, data |-> data, typ |-> "int", val |-> Nil, pointer |-> TRUE,
   validator |-> "none", path |-> <<>>, schema |-> Null, form |-> "value"]

Into(r, t, held, pointer, validator) ==
  [r EXCEPT !.typ = t, !.val = held, !.pointer = pointer, !.validator = validator]

Modes == {[entry |-> "Decode", options |-> <<>>],
          [entry |-> "DecodeStrict", options |-> <<NilOption>>],
          [entry |-> "DecodeValue", options |-> <<Set("RequireFields", TRUE), Set("NumberAsFloat64", FALSE)>>]}

Decodings ==
  United({ {Into(Request(m.entry, m.options, v), t, held, TRUE, "none") :
              m \in Modes, v \in RootsFor(t), held \in Held(t)} : t \in DOMAIN AllTypes })

(* The options on values that tell them apart. *)
SomeOptions == {NilOption, Set("NoCoerce", FALSE), Set("DisallowUnknown", TRUE), MaxDepth(0), MaxDepth(1),
                Set("RejectDuplicateKeys", TRUE), WithOptions(Defaults),
                WithOptions([Defaults EXCEPT !.MaxDepth = -1, !.flag["RequireFields"] = TRUE])}

Told == {Object(<<b>>, <<N(T1)>>), Object(<<a, a>>, <<S(T1), N(T1)>>), Object(<<a>>, <<Array(<<Null>>)>>)}

OptionRequests ==
  {Into(Request(entry, opts, v), "point", held, TRUE, "none") :
     entry \in {"Decode", "DecodeStrict", "DecodeValue"}, opts \in SeqOf(SomeOptions, 2),
     v \in Told, held \in Held("point")}

OtherRequests ==
  {Into(Request("Decode", <<>>, v), "int", held, p, fails) :
     v \in Few, held \in Held("int"), p \in BOOLEAN, fails \in {"none", "passes", "fails"}}
  \cup {Request("ParseAny", o, v) : v \in RootsFor("any"), o \in {<<>>, <<Set("NumberAsFloat64", FALSE)>>}}

(* A path to each place in some values, and texts that are no path; that of *)
(* the last element of the longest array has the largest index. *)
RECURSIVE Places(_)
Places(v) ==
  {<<>>} \cup UNION { {<<StepTo(v, i)>> \o p : p \in Places(v.kids[i])} : i \in 1..Len(v.kids) }

Walks == {Array([i \in 1..11 |-> N(T1)]), Object(<<quote, <<"a", ".">>, <<>>>>, <<True, Array(<<Null>>), Null>>)}
         \cup ObjectsOf(2, {a, quote}, {Null, Array(<<S(TX)>>)})

NoPaths == {<<>>, a, <<"$", ".">>, <<"$", "[", "]">>, <<"$", "[", "9">>, <<"$", "[", "'", "a">>,
            <<"$", "[", "'", "\\", "a">>, <<"$", "[", "1", "1", "]">>, <<"$", ".", "b">>, <<"$", "a">>}

WalkRequests ==
  UNION { {[Request("PathGet", <<>>, v) EXCEPT !.path = p] :
            p \in {Text(steps) : steps \in Places(v)} \cup NoPaths} : v \in Walks }

-----------------------------------------------------------------------------
Rule(keyword, v) == Object(<<Word(keyword)>>, <<v>>)
Both(x, y)       == Object(x.keys \o y.keys, x.kids \o y.kids)
Name(type)       == S(Word(type))

Typed  == {Rule("type", Name(t)) : t \in {"object", "array", "string", "number", "integer", "null"}}
          \cup {Rule("type", Array(<<Name("string"), Name("integer"), Null>>)), Rule("type", Null)}
Sized  == {Rule(k, N(t)) : k \in {"minItems", "maxItems", "minLength", "maxLength"}, t \in {T1, T10, T300}}
Valued == {Rule(k, N(t)) : k \in Range(Limits) \cup {"multipleOf"}, t \in {T1, T15}} \cup {Rule("minimum", S(T1))}
Listed == {Rule("enum", Array(<<N(T10), Array(<<S(TX)>>), Object(<<a, b>>, <<N(T1), Null>>)>>)),
           Rule("const", Array(<<N(T1)>>)), Rule("const", Object(<<b, a>>, <<Null, N(T1)>>)), Rule("enum", N(T1))}
Formed == {Rule("pattern", S(TX)), Rule("pattern", S(<<"(">>)), Rule("pattern", N(T1)), Rule("format", Name("email"))}
Other  == {Rule("uniqueItems", True), Rule("additionalProperties", False), Rule("required", Array(<<S(a), Null>>))}

Few2  == {Rule("type", Name("integer")), Rule("minItems", N(T300)), Rule("pattern", S(<<"(">>)),
          Rule("required", Array(<<S(quote)>>)), Both(Rule("minimum", N(T15)), Rule("maxLength", N(T10))), True}
Deep  == {Rule("properties", Object(<<a>>, <<x>>)) : x \in Few2} \cup {Rule("items", x) : x \in Few2}
         \cup {Rule("items", Array(<<x>>)) : x \in Few2} \cup {Rule("not", x) : x \in Few2}
Mixed == {Rule(k, Array(<<x, y>>)) : k \in {"allOf", "anyOf", "oneOf"}, x \in Few2, y \in Few2}
         \cup {Both(Rule("properties", Object(<<a>>, <<Rule("type", Name("null"))>>)), Rule("additionalProperties", False))}
         \cup {Rule(k, x) : k \in {"not", "items"}, x \in Deep}
         \cup {Both(Rule("uniqueItems", True), Rule("items", x)) : x \in Few2}

Schemas == Typed \cup Sized \cup Valued \cup Listed \cup Formed \cup Other \cup Deep \cup Mixed

Instances == {Null, True, N(T1), N(T15), N(T300), S(<<>>), S(TX), S(<<"@", "x">>)}
             \cup Arrays(2, {N(T1), N(T10), S(TX)}) \cup {Array(<<x, x, x>>) : x \in {N(T1), Array(<<N(T1)>>)}}
             \cup ObjectsOf(2, {a, b}, {N(T1), Null}) \cup {Object(<<a>>, <<Array(<<N(T15), S(TX)>>)>>)}

SchemaRequests ==
  Sorted({[Request("ValidateSchema", <<>>, v) EXCEPT !.schema = x] : v \in Instances, x \in Schemas})
  \cup {[Request("ValidateSchema", <<MaxDepth(1)>>, N(T1)) EXCEPT !.schema = x, !.form = "text"] : x \in Deep}
  \cup {[Request("ValidateSchema", <<>>, N(T1)) EXCEPT !.schema = Rule("type", Name("null")), !.form = f] :
          f \in {"compiled", "other"}}

(* Defined by a name alone, a constant is evaluated once. *)
AllRequests == United({Decodings, OptionRequests, OtherRequests, WalkRequests, SchemaRequests})
MCRequests  == AllRequests
AllCalls == {CallOf(r) : r \in AllRequests}
MCCalls  == AllCalls

(* All values, and those within them. *)
Kids(X) == {v : v \in X \cup UNION {{w.kids[i] : i \in 1..Len(w.kids)} : w \in X}}
Roots  == United({Told, Walks, Instances, Schemas} \cup {RootsFor(t) : t \in DOMAIN AllTypes})
Lower2 == Kids(Kids(Roots))
Lower4 == Kids(Kids(Lower2))
AllValues == Kids(Kids(Lower4))
MCValues  == AllValues

-----------------------------------------------------------------------------
(* The options that are resolved. *)
Spoken == (IF request.entry = "DecodeStrict" THEN Strict ELSE <<>>) \o request.options
Said(flag) == LastWord(Spoken, flag)

RECURSIVE AnyFor(_, _)
AnyFor(v, float) ==
  CASE v.kind = "null"   -> Nil
    [] v.kind = "array"  -> Items([i \in 1..Len(v.kids) |-> AnyFor(v.kids[i], float)])
    [] v.kind = "object" -> Entries([k \in Range(v.keys) |-> AnyFor(Lookup(v, k), float)])
    [] OTHER             -> Go(CASE v.kind = "number" -> IF float THEN "float64" ELSE "NumberValue"
                                 [] v.kind = "boolean" -> "bool" [] OTHER -> "string", v.text)

(* The last word on every option counts (options.go 15-33: nil options,     *)
(* zero depths, WithOptions; jsonx.go 49-52, value.go 87-102): data is      *)
(* refused if and only if it goes deeper than MaxDepth or repeats a key     *)
(* against RejectDuplicateKeys, the decoder is strict where it is asked to, *)
(* and ParseAny makes numbers of the kind that is asked for.                *)
OptionsAreObeyed ==
  /\ pc # "called" /\ request.entry \notin {"DecodeValue", "ValidateSchema"} =>
       (answer.outcome = "refused" <=>
          \/ \E p \in Places(request.data) : Len(p) > LastDepth(Spoken)
          \/ Said("RejectDuplicateKeys") /\ ~ Distinct[request.data])
  /\ call.opts = [noCoerce |-> Said("NoCoerce"), disallowUnknown |-> Said("DisallowUnknown"),
                  requireFields |-> Said("RequireFields"), numberAsFloat |-> Said("NumberAsFloat64")]
  /\ pc = "answered" /\ request.entry = "ParseAny" /\ answer.outcome # "refused" =>
       val = AnyFor(request.data, Said("NumberAsFloat64"))

-----------------------------------------------------------------------------
(* What Decode should do with v, item by item. *)
RECURSIVE Assigned(_, _, _, _, _), Parts(_)
With(x, i, part) == [x EXCEPT !.inner = Put(@, i, part)]
Result(x)        == [x EXCEPT !.new = Made(x), !.faults = Faults(x)]

Assigned(v, type, place, old, opts) ==
  LET start == [src |-> v, typ |-> type, place |-> place, old |-> old, opts |-> opts,
                inner |-> <<>>, new |-> Nil, faults |-> {}]
      Part(x, i) ==
        Assigned(IF Form(x) = "pointer" THEN v ELSE v.kids[i], Elem(x, i),
                 IF Form(x) = "pointer" THEN place ELSE Append(place, StepTo(v, i)),
                 IF Form(x) = "map" THEN Zero[Elem(x, i)] ELSE Latest(x, Slot(x, i), i), opts)
      add(x, i) == IF i \in Inside(x) THEN With(x, i, Part(x, i)) ELSE x
  IN Result(FoldLeftDomain(add, start, IF Form(start) = "pointer" THEN <<v>> ELSE v.kids))

Parts(x) == {x} \cup UNION {Parts(x.inner[i]) : i \in Inside(x)}

AllAssignments   == [c \in AllCalls |-> Parts(Assigned(c.root, c.typ, <<>>, c.val, c.opts))]
MCAssignments(c) == AllAssignments[c]

ASSUME EveryCallConcerned == \A c \in MCCalls : \E x \in MCAssignments(c) : Concerns(x, c)

-----------------------------------------------------------------------------
(* The place that steps lead to. *)
RECURSIVE At(_, _)
At(v, steps) ==
  IF steps = <<>> THEN v
  ELSE At(IF steps[1].isKey THEN Lookup(v, steps[1].key) ELSE v.kids[steps[1].index + 1], SubSeq(steps, 2, Len(steps)))

(* The text of the path leads from the root to what is being assigned, and  *)
(* that of an error's path to the value that is wrong, or to where the      *)
(* member that is missing would be: errors.Path prints what PathGet() reads *)
(* (path.go 29-128, jsonx.go 143-168), and PathGet() finds each place by    *)
(* its text and nothing by a text that is no path, or has an index beyond   *)
(* MaxIndex.  Of a key that occurs twice PathGet finds the last.  In struct *)
(* clash the second field takes the key of the first, which is then missing *)
(* although its key is there.                                               *)
PathsLeadHome ==
  /\ pc = "answered" /\ request.entry = "PathGet" /\ request.path \in NoPaths => answer = Gone
  /\ Distinct[request.data] =>
       /\ pc = "answered" /\ request.entry = "PathGet" =>
            \A p \in Places(request.data) : request.path = Text(p) => answer = Went(At(request.data, p))
       /\ pc = "assign" => PathGet(request.data, Text(Content(paths, paths))) = Went(src)
       /\ \A i \in 1..Len(errs) :
            LET steps  == Content(paths, errs[i])
                parent == SubSeq(steps, 1, Len(steps) - 1)
            IN \/ PathGet(request.data, Text(steps)) = Went(errs[i].source)
               \/ /\ errs[i].code \in {"ERequiredField", "ESchemaRange"} /\ steps # <<>>
                  /\ PathGet(request.data, Text(parent)) = Went(errs[i].source)
                  /\ (request.typ = "clash" \/ PathGet(request.data, Text(steps)) = Gone)

-----------------------------------------------------------------------------
(* What a schema means. *)
RECURSIVE Same(_, _), Valid(_, _)

Same(v, w) ==
  /\ v.kind = w.kind /\ Len(v.kids) = Len(w.kids) /\ Range(v.keys) = Range(w.keys)
  /\ IF v.kind = "number" THEN MCFloat64(v.text).n = MCFloat64(w.text).n ELSE v.text = w.text
  /\ IF v.kind = "object" THEN \A k \in Range(v.keys) : Same(Lookup(v, k), Lookup(w, k))
     ELSE \A i \in 1..Len(v.kids) : Same(v.kids[i], w.kids[i])

Whether(schema, keyword, kind, Meets(_)) ==
  Asks(schema, keyword) /\ Of(schema, keyword).kind = kind => Meets(Of(schema, keyword))

Valid(v, x) ==
  LET Branches(key) == LET list == Of(x, key).kids IN {i \in 1..Len(list) : Valid(v, list[i])}
      Between(n, least, most) ==
        /\ Asks(x, least) => n >= IntOf(Of(x, least))
        /\ Asks(x, most) => n <= IntOf(Of(x, most))
      n == FloatOf(v).n
      types == IF Of(x, "type").kind = "array" THEN Range(Of(x, "type").kids) ELSE {Of(x, "type")}
      integer == v.kind = "number" /\ Range(v.text) \subseteq Range(Digits)
  IN x.kind = "object" =>
       /\ Asks(x, "type") => (Name(v.kind) \in types \/ (integer /\ Name("integer") \in types))
       /\ Asks(x, "enum") => \E w \in Range(Of(x, "enum").kids) : Same(w, v)
       /\ Asks(x, "const") => Same(Of(x, "const"), v)
       /\ Whether(x, "allOf", "array", LAMBDA w : Branches("allOf") = 1..Len(w.kids))
       /\ Whether(x, "anyOf", "array", LAMBDA w : Branches("anyOf") # {})
       /\ Whether(x, "oneOf", "array", LAMBDA w : Cardinality(Branches("oneOf")) = 1)
       /\ Asks(x, "not") => ~ Valid(v, Of(x, "not"))
       /\ v.kind = "object" =>
            /\ Whether(x, "required", "array", LAMBDA w : \A k \in Range(w.kids) : k.kind = "string" => k.text \in Range(v.keys))
            /\ Of(x, "additionalProperties") = False => Range(v.keys) \subseteq Range(Of(x, "properties").keys)
            /\ \A i \in 1..Len(v.keys) :
                 Has(Of(x, "properties"), v.keys[i]) => Valid(v.kids[i], Lookup(Of(x, "properties"), v.keys[i]))
       /\ v.kind = "array" =>
            /\ Between(Len(v.kids), "minItems", "maxItems")
            /\ Of(x, "uniqueItems") = True => \A i, j \in 1..Len(v.kids) : i # j => ~ Same(v.kids[i], v.kids[j])
            /\ Asks(x, "items") => \A i \in 1..Len(v.kids) :
                 IF Of(x, "items").kind = "array" THEN Valid(v.kids[i], Index(Of(x, "items"), i - 1))
                 ELSE Valid(v.kids[i], Of(x, "items"))
       /\ v.kind = "string" =>
            /\ Between(Len(v.text), "minLength", "maxLength")
            /\ Asks(x, "pattern") => MCMatches(TextOf(Of(x, "pattern")), v.text)
            /\ Asks(x, "format") => MCFormatted(TextOf(Of(x, "format")), v.text)
       /\ v.kind = "number" =>
            /\ Whether(x, "minimum", "number", LAMBDA m : n >= FloatOf(m).n)
            /\ Whether(x, "maximum", "number", LAMBDA m : n <= FloatOf(m).n)
            /\ Whether(x, "exclusiveMinimum", "number", LAMBDA m : n > FloatOf(m).n)
            /\ Whether(x, "exclusiveMaximum", "number", LAMBDA m : n < FloatOf(m).n)
            /\ Whether(x, "multipleOf", "number", LAMBDA m : n % FloatOf(m).n = 0)

Validated == pc = "answered" /\ request.entry = "ValidateSchema" /\ answer.outcome # "refused"

(* The verdict is the schema's meaning: branches are tried without a trace, *)
(* a wrong type hides no more than what it makes pointless (schema.go 7-9,  *)
(* 28-31). *)
VerdictIsTheMeaning == Validated => (errs = <<>> <=> Valid(request.data, request.schema))

(* A schema that was compiled has no bad pattern in a place from which      *)
(* validation takes one (schema.go 3-6). *)
RECURSIVE Consulted(_)
Consulted(x) ==
  LET inner(key) == IF Of(x, key).kind = "array" THEN Range(Of(x, key).kids) ELSE {}
  IN IF x.kind # "object" THEN {}
     ELSE {x} \cup UNION {Consulted(y) : y \in
            Range(Of(x, "properties").kids) \cup {Of(x, "items"), Of(x, "not")}
            \cup inner("items") \cup inner("allOf") \cup inner("anyOf") \cup inner("oneOf")}

PatternsAreChecked ==
  Validated => \A x \in Consulted(request.schema) :
    Asks(x, "pattern") => Of(x, "pattern").kind = "string" /\ MCCompiled(Of(x, "pattern").text)

(* Every function returns (of a validation see FacadeSpec). *)
Terminates == <>(pc \in {"done", "answered"} \/ request.entry = "ValidateSchema")

=============================================================================
