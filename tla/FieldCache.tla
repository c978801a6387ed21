----------------------------- MODULE FieldCache -----------------------------
(***************************************************************************)
(* cachedFields() (decode/strict.go): the field tables of struct types,     *)
(* made by concurrent calls and shared through typeCache.                   *)
(*                                                                          *)
(* Every call makes at most one table, which therefore has the call's name. *)
(* A table is a map and shared: what typeCache holds and what a call has    *)
(* returned is a reference to it, and to change it later would change it    *)
(* for all.  Of a table, fields leads from keys to places in ordered.       *)
(***************************************************************************)
EXTENDS Fields, FiniteSets

CONSTANTS
  Calls,      (* the calls of cachedFields() there are                      *)
  None,       (* no call                                                    *)
  Structs     (* the struct types and their fields: see Fields              *)

ASSUME CacheAssumption ==
  /\ None \notin Calls
  /\ \A s \in DOMAIN Structs : \A i \in 1..Len(Structs[s]) :
       Structs[s][i].embedded => Structs[s][i].typ \in DOMAIN Structs

VARIABLES
  type,        (* of each call: its argument                                *)
  pc,          (* "load", "collect" or "done"                               *)
  work,        (* the calls of collectFields() in progress, innermost last: *)
               (* a struct, the place of its next field, its index          *)
  table,       (* the table that the call makes                             *)
  result,      (* the call whose table is returned, or None                 *)
  typeCache    (* of each type: the call that made its table, or None       *)

vars == <<type, pc, work, table, result, typeCache>>

Empty == [fields |-> <<>>, ordered |-> <<>>]

-----------------------------------------------------------------------------
Frame(s, index) == [struct |-> s, next |-> 1, index |-> index]

Top(c)   == work[c][Len(work[c])]
Field(c) == Structs[Top(c).struct][Top(c).next]
Index(c) == Append(Top(c).index, Top(c).next)

(* typeCache.Load() *)
Hit(c) ==
  /\ pc[c] = "load" /\ typeCache[type[c]] # None
  /\ result' = [result EXCEPT ![c] = typeCache[type[c]]]
  /\ pc' = [pc EXCEPT ![c] = "done"]
  /\ UNCHANGED <<type, work, table, typeCache>>

Mut_Miss(c) ==
  /\ pc[c] = "load" /\ typeCache[type[c]] = None
  /\ work' = [work EXCEPT ![c] = <<Frame(type[c], <<>>)>>]
  /\ pc' = [pc EXCEPT ![c] = "collect"]
  /\ typeCache' = [typeCache EXCEPT ![type[c]] = c]
  /\ UNCHANGED <<type, table, result>>

Miss(c) ==
  /\ pc[c] = "load" /\ typeCache[type[c]] = None
  /\ work' = [work EXCEPT ![c] = <<Frame(type[c], <<>>)>>]
  /\ pc' = [pc EXCEPT ![c] = "collect"]
  /\ UNCHANGED <<type, table, result, typeCache>>

-----------------------------------------------------------------------------
(* collectFields() *)
Collecting(c) == pc[c] = "collect" /\ work[c] # <<>> /\ Top(c).next <= Len(Structs[Top(c).struct])

Advanced(c) == [work[c] EXCEPT ![Len(work[c])].next = @ + 1]

Skip(c) ==
  /\ Collecting(c) /\ Field(c).hidden
  /\ work' = [work EXCEPT ![c] = Advanced(c)]
  /\ UNCHANGED <<type, pc, table, result, typeCache>>

Mut_Embed(c) ==
  /\ Collecting(c) /\ ~ Field(c).hidden /\ Field(c).embedded
  /\ work' = [work EXCEPT ![c] = Append(Advanced(c), Frame(Field(c).typ, Top(c).index))]
  /\ UNCHANGED <<type, pc, table, result, typeCache>>

Embed(c) ==
  /\ Collecting(c) /\ ~ Field(c).hidden /\ Field(c).embedded
  /\ work' = [work EXCEPT ![c] = Append(Advanced(c), Frame(Field(c).typ, Index(c)))]
  /\ UNCHANGED <<type, pc, table, result, typeCache>>

Collect(c) ==
  /\ Collecting(c) /\ ~ Field(c).hidden /\ ~ Field(c).embedded
  /\ LET item == [name |-> Field(c).name, required |-> Field(c).required, index |-> Index(c)]
         t == table[c]
     IN table' = [table EXCEPT ![c] =
                    [fields  |-> Entered(t.fields, item.name, Len(t.ordered) + 1),
                     ordered |-> Append(t.ordered, item)]]
  /\ work' = [work EXCEPT ![c] = Advanced(c)]
  /\ UNCHANGED <<type, pc, result, typeCache>>

Leave(c) ==
  /\ pc[c] = "collect" /\ work[c] # <<>> /\ Top(c).next > Len(Structs[Top(c).struct])
  /\ work' = [work EXCEPT ![c] = SubSeq(@, 1, Len(@) - 1)]
  /\ UNCHANGED <<type, pc, table, result, typeCache>>

(* typeCache.Store(), also if another call has been faster.                 *)
Store(c) ==
  /\ pc[c] = "collect" /\ work[c] = <<>>
  /\ typeCache' = [typeCache EXCEPT ![type[c]] = c]
  /\ result' = [result EXCEPT ![c] = c]
  /\ pc' = [pc EXCEPT ![c] = "done"]
  /\ UNCHANGED <<type, work, table>>

-----------------------------------------------------------------------------
Init ==
  /\ type \in [Calls -> DOMAIN Structs]
  /\ pc = [c \in Calls |-> "load"]
  /\ work = [c \in Calls |-> <<>>]
  /\ table = [c \in Calls |-> Empty]
  /\ result = [c \in Calls |-> None]
  /\ typeCache = [s \in DOMAIN Structs |-> None]

CachedFields(c) == Hit(c) \/ Miss(c) \/ Skip(c) \/ Embed(c) \/ Collect(c) \/ Leave(c) \/ Store(c)

Next == \E c \in Calls : CachedFields(c)

Spec == Init /\ [][Next]_vars

-----------------------------------------------------------------------------
(* A call that returns has a table to return, and typeCache knows the types *)
(* by tables that calls have made. *)
TypeOK ==
  /\ type \in [Calls -> DOMAIN Structs]
  /\ pc \in [Calls -> {"load", "collect", "done"}]
  /\ result \in [Calls -> Calls \cup {None}]
  /\ typeCache \in [DOMAIN Structs -> Calls \cup {None}]
  /\ \A c \in Calls : result[c] # None <=> pc[c] = "done"

(* A table that typeCache offers, or that was returned, is of the type that *)
(* was asked for, and the call that made it has done with it.               *)
Finished(c, s) == type[c] = s /\ pc[c] = "done"
Published ==
  /\ \A s \in DOMAIN Structs : typeCache[s] # None => Finished(typeCache[s], s)
  /\ \A c \in Calls : result[c] # None => Finished(result[c], type[c])

(* A shared table never changes: the maps that Decode reads without a lock  *)
(* are written by no other goroutine. *)
Unchanged(c) == table'[c] = table[c]
Frozen ==
  [][/\ \A s \in DOMAIN Structs : typeCache[s] # None => Unchanged(typeCache[s])
     /\ \A c \in Calls : result[c] # None => Unchanged(result[c])]_vars

=============================================================================
