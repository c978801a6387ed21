----------------------------- MODULE Assigning ------------------------------
(***************************************************************************)
(* What Decode should do.  An assignment is a source for a destination of   *)
(* some type at some place: src, typ and place, what the destination holds  *)
(* before and after it, old and new, the places that do not fit, faults,    *)
(* and the assignments of what is directly in it, inner.  Each of its parts *)
(* is determined by the others, with no recursion; Assignments(c) holds the *)
(* assignment of the call c with all those within it.  Models no code.      *)
(***************************************************************************)
EXTENDS Decoder

CONSTANT Assignments(_)

(* A text, number or boolean that may be read as a scalar of the kind.      *)
Readable(v, kind, opts) ==
  LET reads == Strconv(kind, v.text) = "ok"
  IN IF kind = "string" THEN v.kind = "string" \/ (~ opts.noCoerce /\ v.kind \in {"number", "boolean"})
     ELSE IF kind = "bool" THEN v.kind = "boolean" \/ (~ opts.noCoerce /\ v.kind = "string" /\ reads)
     ELSE reads /\ (v.kind = "number" \/ (~ opts.noCoerce /\ v.kind = "string"))

(* A member is for the last field of its name, in lower case if need be.    *)
Named(t, key) == {i \in 1..Len(t.ordered) : key \in {t.ordered[i].name, Lower(t.ordered[i].name)}}
LastField(t, key) == IF Named(t, key) = {} THEN 0 ELSE Max(Named(t, key))
FieldFor(t, key) == IF LastField(t, key) # 0 THEN LastField(t, key) ELSE LastField(t, Lower(key))

-----------------------------------------------------------------------------
(* What kind of assignment a is.                                            *)
FormOf(v, t) ==
  IF Customised(v, t) THEN "custom"
  ELSE IF IsNull(v) THEN "null"
  ELSE IF t.kind \in {"pointer", "interface"} THEN t.kind
  ELSE IF t.kind \in Scalars THEN "scalar"
  ELSE IF t.kind = "bytes" /\ v.kind = "string" THEN "base64"
  ELSE IF t.kind \in Lists /\ v.kind = "array" THEN "list"
  ELSE IF t.kind \in Objects /\ v.kind = "object" THEN t.kind
  ELSE "misfit"

Form(a) == FormOf(a.src, Types[a.typ])

(* The items of the source that are assigned, and for which item of the     *)
(* destination: an element, the entry of a key, a field.                    *)
Slot(a, i) ==
  IF Form(a) = "map" THEN a.src.keys[i]
  ELSE IF Form(a) = "struct" THEN FieldFor(Types[a.typ], a.src.keys[i]) ELSE i

Inside(a) ==
  LET t == Types[a.typ]
  IN IF Form(a) = "pointer" THEN {1}
     ELSE IF Form(a) \in {"list", "map", "struct"}
       THEN {i \in 1..Len(a.src.kids) : /\ t.kind = "array" => i <= t.length
                                        /\ Form(a) = "struct" => Slot(a, i) # 0}
     ELSE {}

Elem(a, i) ==
  IF Form(a) = "struct" THEN Types[a.typ].ordered[Slot(a, i)].typ ELSE Types[a.typ].elem

(* What is in the slot s before the n-th item: what the last item for it    *)
(* has left there, or what was there before.  Slices and what pointers that *)
(* are nil point to are new.                                                *)
Initial(a, s) ==
  IF Form(a) = "map" THEN a.old.entries[s]
  ELSE IF Types[a.typ].kind \in {"slice", "bytes"} \/ a.old = Nil THEN Zero[Types[a.typ].elem]
  ELSE a.old.items[s]

Given(a, s, n) == {i \in Inside(a) : i < n /\ Slot(a, i) = s}
Latest(a, s, n) ==
  IF Given(a, s, n) = {} THEN Initial(a, s) ELSE a.inner[Max(Given(a, s, n))].new

(* The container before the n-th item.                                      *)
Size(a) == IF Form(a) = "struct" THEN Len(Types[a.typ].ordered)
           ELSE IF Types[a.typ].kind = "array" THEN Types[a.typ].length ELSE Len(a.src.kids)

KeysOf(a, n) == {a.src.keys[i] : i \in {j \in Inside(a) : j < n}}
                \cup (IF a.old = Nil THEN {} ELSE DOMAIN a.old.entries)

Filled(a, n) ==
  IF Form(a) = "map" THEN Entries([k \in KeysOf(a, n) |-> Latest(a, k, n)])
  ELSE Items([s \in 1..Size(a) |-> Latest(a, s, n)])

-----------------------------------------------------------------------------
(* Whether the source itself fits.                                          *)
Fits(a) ==
  /\ Form(a) = "custom" => Strconv("custom", a.src.text) = "ok"
  /\ Form(a) = "scalar" => Readable(a.src, Types[a.typ].kind, a.opts)
  /\ Form(a) = "base64" => Strconv("base64", a.src.text) = "ok"
  /\ Form(a) # "misfit"

Made(a) ==
  IF Form(a) = "null" THEN Zero[a.typ]
  ELSE IF ~ Fits(a) THEN a.old
  ELSE IF Form(a) = "pointer" THEN Pointer(a.inner[1].new)
  ELSE IF Form(a) = "interface" THEN AnyOf(a.opts.numberAsFloat)[a.src]
  ELSE IF Form(a) = "custom" THEN Go("custom", a.src.text)
  ELSE IF Form(a) \in {"scalar", "base64"} THEN Go(Types[a.typ].kind, a.src.text)
  ELSE Filled(a, Len(a.src.kids) + 1)

(* The members that are for no field, and the fields without a member.      *)
Strangers(a) ==
  {i \in 1..Len(a.src.kids) : Form(a) = "struct" /\ a.opts.disallowUnknown /\ i \notin Inside(a)}

Absent(a) ==
  LET fields == Types[a.typ].ordered
  IN {j \in 1..Len(fields) :
        /\ Form(a) = "struct" /\ a.opts.requireFields /\ fields[j].required
        /\ \A i \in Inside(a) : fields[Slot(a, i)].name # fields[j].name}

Faults(a) ==
  (UNION {a.inner[i].faults : i \in Inside(a)})
  \cup (IF Fits(a) THEN {} ELSE {a.place})
  \cup {Append(a.place, StepTo(a.src, i)) : i \in Strangers(a)}
  \cup {Append(a.place, KeyStep(Types[a.typ].ordered[j].name)) : j \in Absent(a)}

(* The destination holds something of its type.                             *)
Shaped(a) ==
  LET items == a.old.items
      map   == a.old.entries
  IN /\ Form(a) = "struct" \/ (Form(a) = "list" /\ Types[a.typ].kind = "array") =>
          a.old = Items([s \in 1..Size(a) |-> items[s]])
     /\ Form(a) = "map" => a.old \in {Nil, Entries([k \in DOMAIN map |-> map[k]])}

IsAssignment(a, all) ==
  /\ Shaped(a) /\ a.new = Made(a) /\ a.faults = Faults(a)
  /\ \A i \in Inside(a) :
       LET b == a.inner[i] IN
       /\ b \in all /\ b.opts = a.opts /\ b.typ = Elem(a, i)
       /\ b.src = (IF Form(a) = "pointer" THEN a.src ELSE a.src.kids[i])
       /\ b.place = (IF Form(a) = "pointer" THEN a.place ELSE Append(a.place, StepTo(a.src, i)))
       /\ b.old = (IF Form(a) = "map" THEN Zero[Elem(a, i)] ELSE Latest(a, Slot(a, i), i))

ASSUME AssignmentsAssumption ==
  \A c \in Calls : \A a \in Assignments(c) : IsAssignment(a, Assignments(c))

-----------------------------------------------------------------------------
Concerns(a, c) ==
  a.src = c.root /\ a.typ = c.typ /\ a.old = c.val /\ a.opts = c.opts /\ a.place = <<>>

Decoded == pc = "done" /\ call.pointer

(* Decode collects the faults of the whole value: it reports exactly the    *)
(* places that do not fit the destination, and runs Validate() if there are *)
(* none (decode.go 8-101).                                                   *)
FaultsAreReported ==
  Decoded => \A a \in Assignments(call) : Concerns(a, call) =>
    IF a.faults = {} /\ call.validator = "fails" THEN Len(errs) = 1 /\ errs[1].code = "EUser"
    ELSE {errs[i].place : i \in 1..Len(errs)} = a.faults

(* What a failing Decode has done: every place that fits is assigned and    *)
(* every other keeps what it held.  Slices and the elements of maps begin   *)
(* anew, arrays, maps and structs keep what the data does not speak of, and *)
(* of a key that occurs twice a map takes the last, a struct one after the  *)
(* other (decode.go 64-98). *)
AssignsTheValue ==
  Decoded => \A a \in Assignments(call) : Concerns(a, call) => val = a.new

=============================================================================
