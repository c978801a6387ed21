------------------------------- MODULE Value --------------------------------
(***************************************************************************)
(* parser.Value (parser/value.go): the JSON tree that Parse returns, and    *)
(* what its accessors read of it.                                           *)
(*                                                                          *)
(* A value is a record; keys and kids are an object's members in their      *)
(* order, kids alone an array's elements.  Texts and keys are sequences of  *)
(* characters.  Any() makes Go values, which are records too: see GoValue.  *)
(***************************************************************************)
EXTENDS Fields

CONSTANTS
  Keys,       (* the keys that objects may have                             *)
  Values      (* the values there may be, with all the values in them       *)

Tree(kind, text, keys, kids) == [kind |-> kind, text |-> text, keys |-> keys, kids |-> kids]

Null            == Tree("null", <<>>, <<>>, <<>>)         \* NewNull(), and nil
Scalar(k, text) == Tree(k, text, <<>>, <<>>)                \* NewString() and so on
Array(kids)     == Tree("array", <<>>, <<>>, kids)
Object(keys, kids) == Tree("object", <<>>, keys, kids)

ASSUME ValueAssumption ==
  \A v \in Values :
    /\ v.kids \in Seq(Values) /\ v.keys \in Seq(Keys)
    /\ v.kind = "object" => Len(v.keys) = Len(v.kids)
    /\ v.kind # "object" => v.keys = <<>>

(* Lookup(): the last member with the key, if Has(). *)
Has(v, key)    == key \in Range(v.keys)
Lookup(v, key) == v.kids[SelectLastInSeq(v.keys, LAMBDA k : k = key)]
Get(v, key)    == IF Has(v, key) THEN Lookup(v, key) ELSE Null

HasIndex(v, i) == v.kind = "array" /\ i \in 0..(Len(v.kids) - 1)
Index(v, i)    == IF HasIndex(v, i) THEN v.kids[i + 1] ELSE Null

IsNull(v) == v.kind = "null"

-----------------------------------------------------------------------------
(* Values of Go, as the decoder makes them: nil, scalars with their dynamic *)
(* type, pointers to the one item, slices, arrays and structs of items, and *)
(* maps of entries. *)
GoValue(shape, text, items, entries) ==
  [shape |-> shape, text |-> text, items |-> items, entries |-> entries]

Nil           == GoValue("nil", <<>>, <<>>, <<>>)
Go(type, text) == GoValue(type, text, <<>>, <<>>)
Pointer(x)    == GoValue("pointer", <<>>, <<x>>, <<>>)
Items(s)      == GoValue("items", <<>>, s, <<>>)
Entries(m)    == GoValue("map", <<>>, <<>>, m)

(* Any(), of each value. *)
GoType(kind, float) ==
  CASE kind = "number"  -> IF float THEN "float64" ELSE "NumberValue"
    [] kind = "boolean" -> "bool"
    [] OTHER            -> "string"

AnyOf(float) ==
  LET any[v \in Values] ==
        CASE v.kind = "null"   -> Nil
          [] v.kind = "array"  -> Items([i \in 1..Len(v.kids) |-> any[v.kids[i]]])
          [] v.kind = "object" ->
               LET member(m, i) == Put(m, v.keys[i], any[v.kids[i]])
               IN Entries(FoldLeftDomain(member, <<>>, v.keys))
          [] OTHER             -> Go(GoType(v.kind, float), v.text)
  IN any

=============================================================================
