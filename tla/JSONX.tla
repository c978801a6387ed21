------------------------------- MODULE JSONX --------------------------------
(***************************************************************************)
(* The facade (jsonx/jsonx.go): a request's options are resolved, its data  *)
(* is parsed, and the value goes to the decoder, to the schema or along a   *)
(* path.                                                                    *)
(*                                                                          *)
(* The data is the value that it is the text of.  Of the parser, which has  *)
(* a module of its own, only what it refuses for the options' sake is here. *)
(***************************************************************************)
EXTENDS Decoder, Schema, Settings

CONSTANT
  Requests     (* the calls of the facade's functions there may be          *)

ASSUME RequestsAssumption == \A r \in Requests : r.options \in Seq(Option)

VARIABLES
  request,     (* entry, options, data and what else the function is given  *)
  answer       (* what it returns if that is no error of the decoder or of  *)
               (* the schema                                                *)

facadeVars == <<vars, request, answer>>

-----------------------------------------------------------------------------
Mut_Resolved(r) == Resolve(IF r.entry = "DecodeStrict" THEN r.options \o Strict ELSE r.options)

Resolved(r) == Resolve(IF r.entry = "DecodeStrict" THEN Strict \o r.options ELSE r.options)

(* decodeOptions() *)
DecodeOptions(o) ==
  [noCoerce |-> o.flag["NoCoerce"], disallowUnknown |-> o.flag["DisallowUnknown"],
   requireFields |-> o.flag["RequireFields"], numberAsFloat |-> o.flag["NumberAsFloat64"]]

CallOf(r) == [root |-> r.data, typ |-> r.typ, val |-> r.val, pointer |-> r.pointer,
              validator |-> r.validator, opts |-> DecodeOptions(Resolved(r))]

-----------------------------------------------------------------------------
(* parserOptions(): what parser.Parse makes of MaxDepth and of duplicates.  *)
Depth[v \in Values] ==
  LET deepest(n, kid) == IF Depth[kid] >= n THEN Depth[kid] + 1 ELSE n IN FoldLeft(deepest, 0, v.kids)

Distinct[v \in Values] ==
  (v.kind = "object" => Cardinality(Range(v.keys)) = Len(v.keys)) /\ \A x \in Range(v.kids) : Distinct[x]

Parses(v, o) == Depth[v] <= o.MaxDepth /\ (o.flag["RejectDuplicateKeys"] => Distinct[v])

(* PathGet(): along the steps of a path's text. *)
Leads(v, s) == IF s.isKey THEN Has(v, s.key) ELSE HasIndex(v, s.index)
Step(v, s)  == IF s.isKey THEN Lookup(v, s.key) ELSE Index(v, s.index)

Gone    == [outcome |-> "EInvalidPath", value |-> Null]
Went(v) == [outcome |-> "value", value |-> v]

PathGet(v, text) ==
  LET path == ParsePath(text)
      go(at, s) == IF at.outcome = "value" /\ Leads(at.value, s) THEN Went(Step(at.value, s)) ELSE Gone
  IN IF path.ok THEN FoldLeft(go, Went(v), path.steps) ELSE Gone

-----------------------------------------------------------------------------
Options == Resolved(request)
Called  == pc = "called"

(* ValidateSchema(): the schema is a text or a value, or was compiled, or   *)
(* is none of these. *)
SchemaFails ==
  /\ request.entry = "ValidateSchema"
  /\ \/ request.form = "other"
     \/ request.form = "text" /\ ~ Parses(request.schema, Options)
     \/ request.form \in {"text", "value"} /\ ~ CompileSchema(request.schema)

Refuse ==
  /\ Called
  /\ SchemaFails \/ (request.entry # "DecodeValue" /\ ~ Parses(request.data, Options))
  /\ answer' = [outcome |-> "refused", value |-> Null] /\ pc' = "answered"
  /\ UNCHANGED <<call, src, typ, val, stack, paths, errs, where, request>>

Accepted == Called /\ ~ SchemaFails /\ (request.entry = "DecodeValue" \/ Parses(request.data, Options))

(* Decode(), DecodeStrict(), DecodeValue() *)
Decode ==
  /\ Accepted /\ request.entry \in {"Decode", "DecodeStrict", "DecodeValue"}
  /\ pc' = "start"
  /\ UNCHANGED <<call, src, typ, val, stack, paths, errs, where, request, answer>>

(* ParseAny() *)
ParseAny ==
  /\ Accepted /\ request.entry = "ParseAny"
  /\ val' = AnyOf(Options.flag["NumberAsFloat64"])[request.data] /\ pc' = "answered"
  /\ UNCHANGED <<call, src, typ, stack, paths, errs, where, request, answer>>

Walk ==
  /\ Accepted /\ request.entry = "PathGet"
  /\ answer' = PathGet(request.data, request.path) /\ pc' = "answered"
  /\ UNCHANGED <<call, src, typ, val, stack, paths, errs, where, request>>

(* Schema.Validate() *)
ValidateSchema ==
  /\ Accepted /\ request.entry = "ValidateSchema"
  /\ LET s == Node(request.data, request.schema, Begin)
     IN paths' = s.paths /\ errs' = s.errs /\ where' = s.where
  /\ pc' = "answered"
  /\ UNCHANGED <<call, src, typ, val, stack, request, answer>>

-----------------------------------------------------------------------------
FacadeInit ==
  /\ request \in Requests
  /\ answer = [outcome |-> "none", value |-> Null]
  /\ call = CallOf(request) /\ pc = "called" /\ Begins

Stepwise == Refuse \/ Decode \/ ParseAny \/ Walk \/ (Next /\ UNCHANGED <<request, answer>>)

FacadeNext == Stepwise \/ ValidateSchema

(* Each function runs to its end in the goroutine that calls it.  Of a      *)
(* validation, one step here, no fairness is asked.                         *)
FacadeSpec == FacadeInit /\ [][FacadeNext]_facadeVars /\ WF_facadeVars(Stepwise)

=============================================================================
