----------------------------- MODULE FieldList ------------------------------
(***************************************************************************)
(* What cachedFields() should return: the list of the fields of a struct    *)
(* that have keys, those of an embedded struct in its place, each with the  *)
(* index by which reflect finds it, and for every key the last field of     *)
(* that name.  Listed[s][n] is what the first n fields of s come to; each   *)
(* of the lists is determined by the others, with no recursion.  Go has no  *)
(* struct that embeds itself, so that there are such lists.  Models no      *)
(* code.                                                                    *)
(***************************************************************************)
EXTENDS FieldCache

CONSTANT Listed

Names == UNION {{Structs[s][i].name : i \in 1..Len(Structs[s])} : s \in DOMAIN Structs}
Items == [name : Names, required : BOOLEAN, index : Seq(Nat)]

(* The fields of a struct, seen from one within which it is at index.       *)
Within(index, items) ==
  [k \in 1..Len(items) |-> [name |-> items[k].name, required |-> items[k].required,
                            index |-> index \o items[k].index]]

All(s) == Listed[s][Len(Structs[s])]

(* What the i-th field of s comes to. *)
Given(s, i) ==
  LET f == Structs[s][i]
  IN IF f.hidden THEN <<>>
     ELSE IF f.embedded THEN Within(<<i>>, All(f.typ))
     ELSE <<[name |-> f.name, required |-> f.required, index |-> <<i>>]>>

ASSUME ListedAssumption ==
  \A s \in DOMAIN Structs :
    /\ Len(Structs[s]) \in Nat /\ Listed[s] \in [0..Len(Structs[s]) -> Seq(Items)]
    /\ Listed[s][0] = <<>>
    /\ \A i \in 1..Len(Structs[s]) :
         Structs[s][i].required \in BOOLEAN /\ Listed[s][i] = Listed[s][i - 1] \o Given(s, i)

-----------------------------------------------------------------------------
(* Every key is for the last field of its name, in lower case if need be.   *)
Keyed(item, key) == key \in {item.name, Lower(item.name)}

IsTable(fields, items) ==
  /\ DOMAIN fields = UNION {{items[i].name, Lower(items[i].name)} : i \in 1..Len(items)}
  /\ \A key \in DOMAIN fields :
       /\ fields[key] \in 1..Len(items) /\ Keyed(items[fields[key]], key)
       /\ \A i \in 1..Len(items) : Keyed(items[i], key) => i <= fields[key]

(* Every table that a call returns has all fields of its type, those of     *)
(* embedded structs too, in their order, with their indices and under their *)
(* keys: whatever other calls do meanwhile, it is the table that the        *)
(* decoder takes for granted (strict.go 24-66).                             *)
Complete ==
  \A c \in Calls : pc[c] = "done" =>
    LET t == table[result[c]]
    IN t.ordered = All(type[c]) /\ IsTable(t.fields, t.ordered)

=============================================================================
