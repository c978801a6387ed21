------------------------------ MODULE Decoder -------------------------------
(***************************************************************************)
(* decode.Decode (decode/decode.go): a parser.Value assigned to a Go value  *)
(* of some type, errors collected on the way.                               *)
(*                                                                          *)
(* A state is one call of assign() that begins (pc "assign") or ends        *)
(* ("return"), or the loop of a container's assignX() between two of its    *)
(* items ("loop").  stack holds the calls in progress, the innermost last.  *)
(* A call through a pointer is one too.                                     *)
(*                                                                          *)
(* The path is the one mutable Path that all calls share.  where is what    *)
(* the path stands for: the steps from the root to src, as the calls in     *)
(* progress know them.  No code keeps it.                                   *)
(***************************************************************************)
EXTENDS Value, Path

CONSTANTS
  Calls,           (* the calls of Decode there may be                      *)
  Types,           (* the Go types there may be                             *)
  Strconv(_, _)    (* what reading a text as a kind gives: "ok", or the     *)
                   (* error "syntax" or "range"                             *)

(* A type's kind, the type of what it holds, the length of an array, what   *)
(* it or its pointer unmarshals by itself (no "custom", a "value", "text"), *)
(* and a struct's fields in their order, with their table.                  *)
Type(kind, elem, length, custom, ordered) ==
  [kind |-> kind, elem |-> elem, length |-> length, custom |-> custom, ordered |-> ordered,
   table |-> TableOf([i \in 1..Len(ordered) |-> ordered[i].name])]

Own == [string |-> "string", bool |-> "boolean", int |-> "number", uint |-> "number", float |-> "number"]
Coercible == [string |-> {"number", "boolean"}, bool |-> {"string"}, int |-> {"string"},
              uint |-> {"string"}, float |-> {"string"}]
Scalars    == DOMAIN Own
Objects    == {"struct", "map"}
Lists      == {"slice", "bytes", "array"}           \* "bytes": a slice of uint8
Containers == Objects \cup Lists
Kinds      == Scalars \cup Containers
              \cup {"pointer", "interface", "other"}   \* an empty interface; no type for JSON

ASSUME DecoderAssumption ==
  /\ \A c \in Calls : c.root \in Values /\ c.typ \in DOMAIN Types
  /\ \A t \in DOMAIN Types :
       /\ Types[t].kind \in Kinds
       /\ Types[t].kind \in {"pointer", "map"} \cup Lists => Types[t].elem \in DOMAIN Types
       /\ Types[t].length \in Nat /\ Types[t].ordered \in Seq(Range(Types[t].ordered))
       /\ Types[t].table = TableOf([i \in 1..Len(Types[t].ordered) |-> Types[t].ordered[i].name])
       /\ \A i \in 1..Len(Types[t].ordered) :
            Types[t].ordered[i].name \in Keys /\ Types[t].ordered[i].typ \in DOMAIN Types
       /\ \A k \in DOMAIN Types[t].table : Types[t].table[k] \in 1..Len(Types[t].ordered)

VARIABLES
  call,          (* root, dst, opts and what dst does about Validate()      *)
  pc,
  src, typ, val, (* assign()'s arguments, val being what dst holds          *)
  stack,
  paths,         (* the memory of all paths                                 *)
  errs,          (* each with the slice that is its path, and what it was   *)
                 (* about when it was made: place, source                   *)
  where

vars == <<call, pc, src, typ, val, stack, paths, errs, where>>

-----------------------------------------------------------------------------
(* reflect.Zero() *)
Zero[t \in DOMAIN Types] ==
  CASE Types[t].kind \in Scalars -> Go(Types[t].kind, <<>>)
    [] Types[t].kind = "array"   -> Items([i \in 1..Types[t].length |-> Zero[Types[t].elem]])
    [] Types[t].kind = "struct"  ->
         Items([i \in 1..Len(Types[t].ordered) |-> Zero[Types[t].ordered[i].typ]])
    [] OTHER                     -> Nil

(* custom() calls a method of the destination.  It is tried on a pointer    *)
(* and on the address of what it points to; that is the same method.        *)
Customised(v, t) == t.custom = "value" \/ (t.custom = "text" /\ v.kind = "string")

(* assignString(), assignBool(), assignInt(), assignUint(), assignFloat():  *)
(* whether a source is for the kind at all, and how it reads.               *)
Takes(v, kind) == v.kind = Own[kind] \/ (~ call.opts.noCoerce /\ v.kind \in Coercible[kind])
Reading(v, kind) ==
  IF kind = "string" \/ v.kind = "boolean" THEN "ok" ELSE Strconv(kind, v.text)

ScalarError(v, kind) ==
  IF ~ Takes(v, kind)
    THEN IF call.opts.noCoerce /\ (kind \in {"string", "bool"} \/ v.kind = "string")
           THEN "ECoercion" ELSE "ETypeMismatch"
  ELSE IF kind = "bool" \/ (kind = "int" /\ Reading(v, kind) = "syntax") THEN "ETypeMismatch"
  ELSE "EOverflow"

-----------------------------------------------------------------------------
Kind  == Types[typ].kind
Top   == stack[Len(stack)]
Whole == Types[Top.typ]
Pop(s) == SubSeq(s, 1, Len(s) - 1)

(* The k-th item of the container src, and how many of them are assigned.   *)
StepTo(v, k) == IF v.kind = "object" THEN KeyStep(v.keys[k]) ELSE IndexStep(k - 1)

Count(v, t) ==
  IF t.kind = "array" /\ t.length < Len(v.kids) THEN t.length ELSE Len(v.kids)

Return(x) ==
  /\ val' = x /\ pc' = "return"
  /\ UNCHANGED <<call, src, typ, stack, paths, errs, where>>

Blame(code) ==
  /\ errs' = Append(errs, OnPath(code, paths, where, src))
  /\ paths' = Cloned(paths)
  /\ pc' = "return"
  /\ UNCHANGED <<call, src, typ, val, stack, where>>

-----------------------------------------------------------------------------
(* Decode() *)
Start ==
  /\ pc = "start" /\ call.pointer
  /\ pc' = "assign"
  /\ UNCHANGED <<call, src, typ, val, stack, paths, errs, where>>

NoPointer ==
  /\ pc = "start" /\ ~ call.pointer
  /\ errs' = <<OnPath("ETypeMismatch", paths, where, src)>> /\ paths' = Cloned(paths)
  /\ pc' = "done"
  /\ UNCHANGED <<call, src, typ, val, stack, where>>

Finish ==
  /\ pc = "return" /\ stack = <<>>
  /\ pc' = "done"
  /\ IF errs = <<>> /\ call.validator = "fails"
       THEN errs' = <<OnPath("EUser", paths, where, src)>> /\ paths' = Cloned(paths)
       ELSE UNCHANGED <<errs, paths>>
  /\ UNCHANGED <<call, src, typ, val, stack, where>>

-----------------------------------------------------------------------------
(* assign(): a method of the destination is called, for null too ...        *)
Custom ==
  /\ pc = "assign" /\ Customised(src, Types[typ])
  /\ IF Strconv("custom", src.text) = "ok" THEN Return(Go("custom", src.text)) ELSE Blame("EUser")

(* ... but not through a pointer, which null clears.                        *)
AssignNull ==
  /\ pc = "assign" /\ ~ Customised(src, Types[typ]) /\ IsNull(src)
  /\ Return(Zero[typ])

Plain == pc = "assign" /\ ~ Customised(src, Types[typ]) /\ ~ IsNull(src)

Frame(made) == [src |-> src, typ |-> typ, made |-> made, k |-> 1, seen |-> {}, where |-> where]

(* A pointer is made to point to a new value if it is nil.                  *)
Follow ==
  /\ Plain /\ Kind = "pointer"
  /\ stack' = Append(stack, Frame(Nil))
  /\ typ' = Types[typ].elem
  /\ val' = IF val = Nil THEN Zero[Types[typ].elem] ELSE val.items[1]
  /\ UNCHANGED <<call, pc, src, paths, errs, where>>

AssignInterface ==
  /\ Plain /\ Kind = "interface"
  /\ Return(AnyOf(call.opts.numberAsFloat)[src])

AssignScalar ==
  /\ Plain /\ Kind \in Scalars
  /\ IF Takes(src, Kind) /\ Reading(src, Kind) = "ok"
       THEN Return(Go(Kind, src.text)) ELSE Blame(ScalarError(src, Kind))

(* The text of a byte slice. *)
AssignBytes ==
  /\ Plain /\ Kind = "bytes" /\ src.kind = "string"
  /\ IF Strconv("base64", src.text) = "ok" THEN Return(Go("bytes", src.text)) ELSE Blame("ETypeMismatch")

(* mismatch(), and the types that are not supported.  A map whose keys are  *)
(* no strings has no element type here. *)
Enters(v, kind) == \/ kind \in Objects /\ v.kind = "object"
                   \/ kind \in Lists /\ v.kind = "array"

Mismatch ==
  /\ Plain /\ \/ Kind = "other"
              \/ Kind \in Containers /\ ~ Enters(src, Kind) /\ ~ (Kind = "bytes" /\ src.kind = "string")
  /\ Blame("ETypeMismatch")

Mut_Fresh == IF Kind \in {"slice", "bytes"} /\ val = Nil
               THEN Items([i \in 1..Len(src.kids) |-> Zero[Types[typ].elem]])
             ELSE IF Kind = "map" /\ val = Nil THEN Entries(<<>>) ELSE val

(* A slice is always a new one, a map is made if it is nil.                 *)
Fresh == IF Kind \in {"slice", "bytes"} THEN Items([i \in 1..Len(src.kids) |-> Zero[Types[typ].elem]])
         ELSE IF Kind = "map" /\ val = Nil THEN Entries(<<>>) ELSE val

Enter ==
  /\ Plain /\ Kind \in Containers /\ Enters(src, Kind)
  /\ stack' = Append(stack, Frame(Fresh))
  /\ pc' = "loop"
  /\ UNCHANGED <<call, src, typ, val, paths, errs, where>>

-----------------------------------------------------------------------------
(* assignStruct(), assignMap(), assignSlice(), assignArray()                *)
Looping  == pc = "loop" /\ Top.k <= Count(Top.src, Whole)
Field    == Found(Whole.table, Top.src.keys[Top.k])
NextStep == StepTo(Top.src, Top.k)

(* What dst is for the k-th item: a map's element begins as a new value.    *)
ItemType  == IF Whole.kind = "struct" THEN Whole.ordered[Field].typ ELSE Whole.elem
ItemValue == CASE Whole.kind = "struct" -> Top.made.items[Field]
               [] Whole.kind = "map"    -> Zero[Whole.elem]
               [] OTHER                 -> Top.made.items[Top.k]

Mut_Seen == IF Whole.kind = "struct" THEN {Top.src.keys[Top.k]} ELSE {}

Seen == IF Whole.kind = "struct" THEN {Whole.ordered[Field].name} ELSE {}

Item ==
  /\ Looping /\ (Whole.kind = "struct" => Field # 0)
  /\ src' = Top.src.kids[Top.k] /\ typ' = ItemType /\ val' = ItemValue
  /\ stack' = [stack EXCEPT ![Len(stack)].seen = @ \cup Seen]
  /\ paths' = Pushed(paths, NextStep)
  /\ where' = Append(where, NextStep)
  /\ pc' = "assign"
  /\ UNCHANGED <<call, errs>>

(* An error about a member that has no dst: the path goes there and back.   *)
Report(reports, code, step, v) ==
  LET m == Pushed(paths, step) IN
  IF reports
    THEN /\ errs' = Append(errs, OnPath(code, m, Append(where, step), v))
         /\ paths' = Popped(Cloned(m))
    ELSE UNCHANGED <<errs, paths>>

Skip == stack' = [stack EXCEPT ![Len(stack)].k = @ + 1]

Mut_Unknown ==
  /\ Looping /\ Whole.kind = "struct" /\ Field = 0
  /\ IF call.opts.disallowUnknown
       THEN Report(TRUE, "EUnknownField", NextStep, Top.src.kids[Top.k])
       ELSE errs' = errs /\ paths' = Pushed(paths, NextStep)
  /\ Skip
  /\ UNCHANGED <<call, pc, src, typ, val, where>>

Unknown ==
  /\ Looping /\ Whole.kind = "struct" /\ Field = 0
  /\ IF call.opts.disallowUnknown
       THEN Report(TRUE, "EUnknownField", NextStep, Top.src.kids[Top.k])
       ELSE errs' = errs /\ paths' = Popped(Pushed(paths, NextStep))
  /\ Skip
  /\ UNCHANGED <<call, pc, src, typ, val, where>>

(* The fields in the order of the table, once all members have been seen.   *)
Checked  == Top.k - Count(Top.src, Whole)
Requires == Whole.kind = "struct" /\ call.opts.requireFields
Missing ==
  /\ pc = "loop" /\ Requires /\ Checked \in 1..Len(Whole.ordered)
  /\ LET f == Whole.ordered[Checked]
     IN Report(f.required /\ f.name \notin Top.seen, "ERequiredField", KeyStep(f.name), Top.src)
  /\ Skip
  /\ UNCHANGED <<call, pc, src, typ, val, where>>

Mut_Leave ==
  /\ pc = "loop" /\ Checked > (IF Whole.kind = "struct" THEN Len(Whole.ordered) ELSE 0)
  /\ val' = Top.made /\ src' = Top.src /\ typ' = Top.typ
  /\ stack' = Pop(stack)
  /\ pc' = "return"
  /\ UNCHANGED <<call, paths, errs, where>>

Leave ==
  /\ pc = "loop" /\ Checked > (IF Requires THEN Len(Whole.ordered) ELSE 0)
  /\ val' = Top.made /\ src' = Top.src /\ typ' = Top.typ
  /\ stack' = Pop(stack)
  /\ pc' = "return"
  /\ UNCHANGED <<call, paths, errs, where>>

(* assign() has returned: to where a pointer was followed ...               *)
Pointed ==
  /\ pc = "return" /\ stack # <<>> /\ Whole.kind = "pointer"
  /\ val' = Pointer(val) /\ src' = Top.src /\ typ' = Top.typ
  /\ stack' = Pop(stack)
  /\ UNCHANGED <<call, pc, paths, errs, where>>

(* ... or into the loop, which puts what the item has become in its place,  *)
(* errors or not. *)
Stored ==
  CASE Whole.kind = "struct" -> [Top.made EXCEPT !.items[Field] = val]
    [] Whole.kind = "map"    -> [Top.made EXCEPT !.entries = Put(@, Top.src.keys[Top.k], val)]
    [] OTHER                 -> [Top.made EXCEPT !.items[Top.k] = val]

Store ==
  /\ pc = "return" /\ stack # <<>> /\ Whole.kind # "pointer"
  /\ stack' = [stack EXCEPT ![Len(stack)] = [Top EXCEPT !.made = Stored, !.k = @ + 1]]
  /\ paths' = Popped(paths)
  /\ where' = Top.where
  /\ pc' = "loop"
  /\ UNCHANGED <<call, src, typ, val, errs>>

-----------------------------------------------------------------------------
Begins ==
  /\ src = call.root /\ typ = call.typ /\ val = call.val
  /\ stack = <<>> /\ paths = RootPath /\ errs = <<>> /\ where = <<>>

Init == call \in Calls /\ pc = "start" /\ Begins

Assign == \/ Custom \/ AssignNull \/ Follow \/ AssignInterface \/ AssignScalar \/ AssignBytes
          \/ Mismatch \/ Enter
Loop   == Item \/ Unknown \/ Missing \/ Leave \/ Pointed \/ Store
Next   == Start \/ NoPointer \/ Assign \/ Loop \/ Finish

(* Decode is a sequential function. *)
Spec == Init /\ [][Next]_vars /\ WF_vars(Next)

-----------------------------------------------------------------------------
(* The call is a call ("called" if Decode is not reached yet, "answered" if *)
(* it never is: see JSONX), what is assigned is a value and has a type, and every slice is   *)
(* within its array. *)
IsSlice(slice) == /\ slice.at \in 1..Len(paths.arrays)
                  /\ slice.len \in 0..Len(paths.arrays[slice.at])
TypeOK ==
  /\ call \in Calls
  /\ pc \in {"called", "start", "assign", "loop", "return", "done", "answered"}
  /\ src \in Values /\ typ \in DOMAIN Types
  /\ \A i \in 1..Len(stack) : stack[i].src \in Values /\ stack[i].typ \in DOMAIN Types /\ stack[i].k \in Nat
  /\ IsSlice(paths) /\ \A i \in 1..Len(errs) : IsSlice(errs[i])

(* The one path that all calls of assign() change is at every moment what   *)
(* the calls in progress are about, and is the root's again once they have  *)
(* returned: every AppendKey() and AppendIndex() has its Pop(), on the ways *)
(* with an error too (decode.go 44-98). *)
PathIsTheStack ==
  /\ Content(paths, paths) = where
  /\ pc \in {"done", "answered"} => where = <<>>

(* An error keeps the path of the moment it was made, whatever is appended  *)
(* to the path later, also where it is in place (errors.go 57, decode.go    *)
(* 101). *)
ErrorsKeepTheirPaths == \A i \in 1..Len(errs) : Content(paths, errs[i]) = errs[i].place

=============================================================================
