------------------------------- MODULE Fields -------------------------------
(***************************************************************************)
(* The table of a struct's fields (decode/strict.go): by which keys a       *)
(* member of an object finds its field.  A field has a name, and a number,  *)
(* which is its place in the list of all fields.                            *)
(* The types that are structs are declared: structs[s] is the sequence of   *)
(* the fields of s, in their order.                                         *)
(***************************************************************************)
EXTENDS Integers, Sequences, SequencesExt

(* strings.ToLower(), of the letters that occur. *)
Lower(key) == [i \in 1..Len(key) |-> CASE key[i] = "A" -> "a" [] key[i] = "B" -> "b" [] OTHER -> key[i]]

(* fields[key] = x *)
Put(m, key, x) == [k \in DOMAIN m \cup {key} |-> IF k = key THEN x ELSE m[k]]

(* An entry for the name and one for the lower-case name, which may take    *)
(* the place of an earlier field's. *)
Entered(m, name, i) == Put(Put(m, name, i), Lower(name), i)

(* collectFields(): the fields of s that have keys, in their order, those   *)
(* of an embedded struct in its place.  Unexported fields and those with    *)
(* the tag "-" are hidden. *)
Ordered(structs) ==
  LET ordered[s \in DOMAIN structs] ==
        LET collected(f) == IF f.hidden THEN <<>> ELSE IF f.embedded THEN ordered[f.typ] ELSE <<f>>
        IN FlattenSeq([i \in 1..Len(structs[s]) |-> collected(structs[s][i])])
  IN ordered

TableOf(names) ==
  LET table[n \in 0..Len(names)] ==
        IF n = 0 THEN <<>> ELSE Entered(table[n - 1], names[n], n)
  IN table[Len(names)]

(* The field for a key, 0 if there is none. *)
Found(table, key) ==
  IF key \in DOMAIN table THEN table[key]
  ELSE IF Lower(key) \in DOMAIN table THEN table[Lower(key)] ELSE 0

=============================================================================
