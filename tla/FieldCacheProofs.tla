-------------------------- MODULE FieldCacheProofs --------------------------
(***************************************************************************)
(* Proofs about FieldCache, for any number of concurrent calls and whatever *)
(* the struct types are: what the cache shares is finished and is never     *)
(* written again.                                                           *)
(***************************************************************************)
EXTENDS FieldList, SequenceTheorems, TLAPS

IInv == TypeOK /\ Published

(* Nothing is cached at first, and no call has returned. *)
LEMMA InitIInv == Init => IInv
  BY CacheAssumption DEF Init, IInv, TypeOK, Published

(* Only a call that is in the middle of collectFields() writes a table, and *)
(* only its own. *)
LEMMA OwnTable ==
  ASSUME NEW c \in Calls, CachedFields(c)
  PROVE  \A d \in Calls : d # c \/ pc[c] # "collect" => Unchanged(d)
<1>1. CASE Hit(c)
  BY <1>1 DEF Hit, Unchanged
<1>2. CASE Miss(c)
  BY <1>2 DEF Miss, Unchanged
<1>3. CASE Skip(c)
  BY <1>3 DEF Skip, Collecting, Unchanged
<1>4. CASE Embed(c)
  BY <1>4 DEF Embed, Collecting, Unchanged
<1>5. CASE Collect(c)
  <2>1. pc[c] = "collect"
    BY <1>5 DEF Collect, Collecting
  <2>2. PICK x : table' = [table EXCEPT ![c] = x]
    BY <1>5 DEF Collect
  <2>3. \A d \in Calls : d # c => Unchanged(d)
    BY <2>2 DEF Unchanged
  <2>4. QED
    BY <2>1, <2>3
<1>6. CASE Leave(c)
  BY <1>6 DEF Leave, Unchanged
<1>7. CASE Store(c)
  BY <1>7 DEF Store, Unchanged
<1>8. QED
  BY <1>1, <1>2, <1>3, <1>4, <1>5, <1>6, <1>7 DEF CachedFields

(* The calls that have returned are not changed by what others do. *)
LEMMA NextIInv == IInv /\ [Next]_vars => IInv'
<1> SUFFICES ASSUME IInv, [Next]_vars PROVE IInv'
  OBVIOUS
<1> USE CacheAssumption DEF IInv, TypeOK
<1>1. ASSUME NEW c \in Calls, Hit(c) PROVE IInv'
  <2>1. /\ typeCache[type[c]] \in Calls /\ Finished(typeCache[type[c]], type[c])
        /\ type' = type /\ typeCache' = typeCache
        /\ pc' = [pc EXCEPT ![c] = "done"] /\ result' = [result EXCEPT ![c] = typeCache[type[c]]]
    BY <1>1 DEF Hit, Published
  <2>2. TypeOK'
    BY <2>1
  <2>3. \A d \in Calls, s \in DOMAIN Structs : Finished(d, s) => Finished(d, s)'
    BY <2>1 DEF Finished
  <2>4. Published'
    BY <2>1, <2>3 DEF Published
  <2>5. QED
    BY <2>2, <2>4
<1>2. ASSUME NEW c \in Calls, Miss(c) PROVE IInv'
  <2>1. /\ pc[c] = "load" /\ UNCHANGED <<type, result, typeCache>>
        /\ pc' = [pc EXCEPT ![c] = "collect"]
    BY <1>2 DEF Miss
  <2>2. TypeOK'
    BY <2>1
  <2>3. \A d \in Calls, s \in DOMAIN Structs : Finished(d, s) => Finished(d, s)'
    BY <2>1 DEF Finished
  <2>4. Published'
    BY <2>1, <2>3 DEF Published
  <2>5. QED
    BY <2>2, <2>4
<1>3. ASSUME NEW c \in Calls, Skip(c) \/ Embed(c) \/ Collect(c) \/ Leave(c) PROVE IInv'
  <2>1. UNCHANGED <<type, pc, result, typeCache>>
    BY <1>3 DEF Skip, Embed, Collect, Leave
  <2>2. QED
    BY <2>1 DEF Published, Finished
<1>4. ASSUME NEW c \in Calls, Store(c) PROVE IInv'
  <2>1. /\ pc[c] = "collect" /\ type' = type
        /\ typeCache' = [typeCache EXCEPT ![type[c]] = c]
        /\ result' = [result EXCEPT ![c] = c] /\ pc' = [pc EXCEPT ![c] = "done"]
    BY <1>4 DEF Store
  <2>2. TypeOK'
    BY <2>1
  <2>3. \A d \in Calls, s \in DOMAIN Structs : Finished(d, s) => Finished(d, s)'
    BY <2>1 DEF Finished
  <2>4. Finished(c, type[c])'
    BY <2>1 DEF Finished
  <2>5. Published'
    BY <2>1, <2>3, <2>4 DEF Published
  <2>6. QED
    BY <2>2, <2>5
<1>5. CASE UNCHANGED vars
  BY <1>5 DEF vars, Published, Finished
<1>6. QED
  BY <1>1, <1>2, <1>3, <1>4, <1>5 DEF Next, CachedFields

(* A call that returns has a table to return. *)
THEOREM TypeCorrect == Spec => []TypeOK
<1>1. IInv => TypeOK
  BY DEF IInv
<1>2. QED
  BY InitIInv, NextIInv, <1>1, PTL DEF Spec

(* Every shared table is of the type that was asked for and finished,       *)
(* however many calls race for it. *)
THEOREM PublishedCorrect == Spec => []Published
<1>1. IInv => Published
  BY DEF IInv
<1>2. QED
  BY InitIInv, NextIInv, <1>1, PTL DEF Spec

(* No shared table is ever written: readers of typeCache need no lock.      *)
THEOREM FrozenCorrect == Spec => Frozen
<1> DEFINE Kept == /\ \A s \in DOMAIN Structs : typeCache[s] # None => Unchanged(typeCache[s])
                   /\ \A c \in Calls : result[c] # None => Unchanged(result[c])
<1>1. ASSUME IInv, [Next]_vars PROVE [Kept]_vars
  <2>1. ASSUME NEW c \in Calls, CachedFields(c) PROVE Kept
    <3>1. \A d \in Calls : pc[d] = "done" => Unchanged(d)
      BY <2>1, OwnTable
    <3>2. \A s \in DOMAIN Structs : typeCache[s] # None => typeCache[s] \in Calls /\ pc[typeCache[s]] = "done"
      BY <1>1 DEF IInv, TypeOK, Published, Finished
    <3>3. \A d \in Calls : result[d] # None => result[d] \in Calls /\ pc[result[d]] = "done"
      BY <1>1 DEF IInv, TypeOK, Published, Finished
    <3>4. QED
      BY <3>1, <3>2, <3>3
  <2>2. QED
    BY <1>1, <2>1 DEF Next
<1>2. QED
  BY InitIInv, NextIInv, <1>1, PTL DEF Spec, Frozen

-----------------------------------------------------------------------------
(* Lists of fields, seen from further out. *)
LEMMA WithinType ==
  ASSUME NEW p \in Seq(Nat), NEW x \in Seq(Items)
  PROVE  Within(p, x) \in Seq(Items) /\ Len(Within(p, x)) = Len(x)
<1>1. Len(x) \in Nat /\ \A k \in 1..Len(x) : x[k] \in Items
  BY ElementOfSeq, LenProperties
<1>2. ASSUME NEW k \in 1..Len(x) PROVE Within(p, x)[k] \in Items
  <2>1. x[k].index \in Seq(Nat) /\ x[k].name \in Names /\ x[k].required \in BOOLEAN
    BY <1>1 DEF Items
  <2>2. p \o x[k].index \in Seq(Nat)
    BY <2>1, ConcatProperties
  <2>3. QED
    BY <2>1, <2>2 DEF Within, Items
<1>3. Within(p, x) = [k \in 1..Len(x) |-> Within(p, x)[k]]
  BY DEF Within
<1>4. Within(p, x) \in [1..Len(x) -> Items]
  BY <1>2, <1>3
<1>5. QED
  BY <1>1, <1>4, SeqDef, LenProperties

LEMMA WithinConcat ==
  ASSUME NEW p \in Seq(Nat), NEW x \in Seq(Items), NEW y \in Seq(Items)
  PROVE  Within(p, x \o y) = Within(p, x) \o Within(p, y)
<1> DEFINE u == Within(p, x \o y)
           v == Within(p, x) \o Within(p, y)
<1>1. /\ x \o y \in Seq(Items) /\ Len(x \o y) = Len(x) + Len(y)
      /\ Within(p, x) \in Seq(Items) /\ Within(p, y) \in Seq(Items)
      /\ Len(Within(p, x)) = Len(x) /\ Len(Within(p, y)) = Len(y)
      /\ Len(x) \in Nat /\ Len(y) \in Nat
  BY WithinType, ConcatProperties, LenProperties
<1>2. u \in Seq(Items) /\ v \in Seq(Items) /\ Len(u) = Len(v) /\ Len(u) = Len(x) + Len(y)
  <2>1. u \in Seq(Items) /\ Len(u) = Len(x \o y)
    BY <1>1, WithinType
  <2>2. v \in Seq(Items) /\ Len(v) = Len(Within(p, x)) + Len(Within(p, y))
    BY <1>1, ConcatProperties
  <2>3. QED
    BY <1>1, <2>1, <2>2
<1>3. ASSUME NEW k \in 1..Len(u) PROVE u[k] = v[k]
  <2>1. k \in 1..(Len(x) + Len(y))
    BY <1>2
  <2>2. CASE k <= Len(x)
    <3>1. (x \o y)[k] = x[k] /\ v[k] = Within(p, x)[k] /\ k \in 1..Len(x)
      BY <1>1, <2>1, <2>2, ConcatProperties
    <3>2. QED
      BY <1>1, <2>1, <3>1 DEF Within
  <2>3. CASE k > Len(x)
    <3>1. /\ (x \o y)[k] = y[k - Len(x)] /\ v[k] = Within(p, y)[k - Len(x)]
          /\ k - Len(x) \in 1..Len(y)
      BY <1>1, <2>1, <2>3, ConcatProperties
    <3>2. QED
      BY <1>1, <2>1, <3>1 DEF Within
  <2>4. QED
    BY <1>1, <2>1, <2>2, <2>3
<1> HIDE DEF u, v
<1>4. u = v
  BY <1>2, <1>3, SeqEqual
<1>5. QED
  BY <1>4 DEF u, v

LEMMA WithinWithin ==
  ASSUME NEW p \in Seq(Nat), NEW i \in Nat, NEW x \in Seq(Items)
  PROVE  Within(p, Within(<<i>>, x)) = Within(Append(p, i), x)
<1>1. <<i>> \in Seq(Nat)
  OBVIOUS
<1>2. Len(Within(<<i>>, x)) = Len(x) /\ \A k \in 1..Len(x) : x[k] \in Items
  BY <1>1, WithinType, ElementOfSeq
<1>3. ASSUME NEW k \in 1..Len(x)
      PROVE  p \o (<<i>> \o x[k].index) = Append(p, i) \o x[k].index
  <2>1. x[k].index \in Seq(Nat)
    BY <1>2 DEF Items
  <2>2. Append(p, i) = p \o <<i>>
    BY AppendIsConcat
  <2>3. (p \o <<i>>) \o x[k].index = p \o (<<i>> \o x[k].index)
    <3>1. \A q, r \in Seq(Nat) : (p \o q) \o r = p \o (q \o r)
      BY ConcatAssociative
    <3>2. QED
      BY <1>1, <2>1, <3>1
  <2>4. QED
    BY <2>2, <2>3
<1>4. QED
  BY <1>2, <1>3 DEF Within

LEMMA WithinNothing == ASSUME NEW x \in Seq(Items) PROVE Within(<<>>, x) = x
<1>1. Within(<<>>, x) \in Seq(Items) /\ Len(Within(<<>>, x)) = Len(x)
  <2>1. <<>> \in Seq(Nat)
    OBVIOUS
  <2>2. QED
    BY <2>1, WithinType
<1>2. ASSUME NEW k \in 1..Len(x) PROVE Within(<<>>, x)[k] = x[k]
  <2>1. x[k] \in Items
    BY ElementOfSeq
  <2>2. <<>> \o x[k].index = x[k].index
    BY <2>1, ConcatEmptySeq DEF Items
  <2>3. QED
    BY <2>1, <2>2 DEF Within, Items
<1>3. QED
  BY <1>1, <1>2, SeqEqual

-----------------------------------------------------------------------------
(* What a call knows.  While it collects the fields of its type, base[i] is *)
(* what stood in the table when the i-th call of collectFields() began, and *)
(* every frame but the last has just come to the embedded struct that the   *)
(* next one collects.  s is the type, w the work and t the table.           *)
Frames == [struct : DOMAIN Structs, next : Nat \ {0}, index : Seq(Nat)]

Sofar(f) == Within(f.index, Listed[f.struct][f.next - 1])
Before(f) == Within(f.index, Listed[f.struct][f.next - 2])

Enters(f, g) ==
  LET field == Structs[f.struct][f.next - 1]
  IN /\ f.next > 1 /\ ~ field.hidden /\ field.embedded
     /\ g.struct = field.typ /\ g.index = Append(f.index, f.next - 1)

IsBase(base, s, w) ==
  /\ base \in [1..Len(w) -> Seq(Items)] /\ base[1] = <<>>
  /\ w[1].struct = s /\ w[1].index = <<>>
  /\ \A i \in 1..Len(w) : w[i].next <= Len(Structs[w[i].struct]) + 1
  /\ \A i \in 1..(Len(w) - 1) :
       Enters(w[i], w[i + 1]) /\ base[i + 1] = base[i] \o Before(w[i])

Right(s, p, w, t, own) ==
  /\ w \in Seq(Frames) /\ t.ordered \in Seq(Items) /\ IsTable(t.fields, t.ordered)
  /\ p = "load" => t = Empty /\ w = <<>>
  /\ p = "collect" /\ w # <<>> =>
       \E base : IsBase(base, s, w) /\ t.ordered = base[Len(w)] \o Sofar(w[Len(w)])
  /\ own \/ (p = "collect" /\ w = <<>>) => t.ordered = All(s)

RightCall(c) == Right(type[c], pc[c], work[c], table[c], result[c] = c)

(* What is shared has been stored, or returned, by the call that made it.   *)
Made ==
  /\ \A s \in DOMAIN Structs : typeCache[s] # None => result[typeCache[s]] = typeCache[s]
  /\ \A c \in Calls : result[c] # None => result[result[c]] = result[c]

CInv ==
  /\ IInv /\ Made /\ \A c \in Calls : RightCall(c)
  /\ work = [c \in Calls |-> work[c]] /\ table = [c \in Calls |-> table[c]]

LEMMA ListedType ==
  ASSUME NEW s \in DOMAIN Structs
  PROVE  /\ Len(Structs[s]) \in Nat
         /\ \A n \in 0..Len(Structs[s]) : Listed[s][n] \in Seq(Items)
         /\ All(s) \in Seq(Items)
  BY ListedAssumption DEF All

(* No table has an entry until it is made. *)
LEMMA EmptyIsTable == Empty.ordered \in Seq(Items) /\ IsTable(Empty.fields, Empty.ordered)
<1>1. Empty.ordered = <<>> /\ Empty.fields = <<>> /\ Len(Empty.ordered) = 0 /\ DOMAIN Empty.fields = {}
  BY DEF Empty
<1>2. QED
  BY <1>1 DEF IsTable

LEMMA InitCInv == Init => CInv
<1> SUFFICES ASSUME Init PROVE CInv
  OBVIOUS
<1>1. IInv
  BY InitIInv
<1>2. Made
  BY CacheAssumption DEF Init, Made
<1>3. ASSUME NEW c \in Calls PROVE RightCall(c)
  <2>1. pc[c] = "load" /\ work[c] = <<>> /\ table[c] = Empty /\ result[c] = None
    BY DEF Init
  <2>2. result[c] # c
    BY <2>1, CacheAssumption
  <2>3. QED
    BY <2>1, <2>2, EmptyIsTable DEF RightCall, Right
<1>4. work = [c \in Calls |-> work[c]] /\ table = [c \in Calls |-> table[c]]
  BY DEF Init
<1>5. QED
  BY <1>1, <1>2, <1>3, <1>4 DEF CInv

(* One more field: the last field of each of its two keys. *)
LEMMA EnteredIsTable ==
  ASSUME NEW x \in Seq(Items), NEW item \in Items, NEW fields, IsTable(fields, x)
  PROVE  IsTable(Entered(fields, item.name, Len(x) + 1), Append(x, item))
<1> DEFINE n == Len(x) + 1
           y == Append(x, item)
           new == Entered(fields, item.name, n)
<1>1. /\ n \in Nat /\ n > 0 /\ Len(y) = n /\ y[n] = item /\ Len(x) \in Nat
      /\ \A i \in 1..Len(x) : y[i] = x[i]
  BY AppendProperties, LenProperties
<1>2. \A i \in 1..n : i \in 1..Len(x) \/ i = n
  BY <1>1
<1>3. DOMAIN new = DOMAIN fields \cup {item.name, Lower(item.name)}
  BY DEF Entered, Put
<1>4. \A key \in DOMAIN new : new[key] = IF Keyed(item, key) THEN n ELSE fields[key]
  BY DEF Entered, Put, Keyed
<1> HIDE DEF n, y, new
<1>5. DOMAIN new = UNION {{y[i].name, Lower(y[i].name)} : i \in 1..n}
  <2>1. DOMAIN fields = UNION {{x[i].name, Lower(x[i].name)} : i \in 1..Len(x)}
    BY DEF IsTable
  <2>2. ASSUME NEW key
        PROVE  key \in DOMAIN new <=> \E i \in 1..n : key \in {y[i].name, Lower(y[i].name)}
    <3>1. key \in DOMAIN fields <=> \E i \in 1..Len(x) : key \in {x[i].name, Lower(x[i].name)}
      BY <2>1
    <3>2. n \in 1..n /\ 1..Len(x) \subseteq 1..n
      BY <1>1 DEF n
    <3>3. QED
      BY <1>1, <1>2, <1>3, <3>1, <3>2
  <2>3. QED
    BY <2>2
<1>6. ASSUME NEW key \in DOMAIN new
      PROVE  /\ new[key] \in 1..n /\ Keyed(y[new[key]], key)
             /\ \A i \in 1..n : Keyed(y[i], key) => i <= new[key]
  <2>1. CASE Keyed(item, key)
    BY <1>1, <1>4, <2>1
  <2>2. CASE ~ Keyed(item, key)
    <3>1. key \in DOMAIN fields /\ new[key] = fields[key]
      BY <1>3, <1>4, <2>2 DEF Keyed
    <3>2. /\ fields[key] \in 1..Len(x) /\ Keyed(x[fields[key]], key)
          /\ \A i \in 1..Len(x) : Keyed(x[i], key) => i <= fields[key]
      BY <3>1 DEF IsTable
    <3>3. fields[key] \in 1..n /\ Keyed(y[fields[key]], key)
      BY <1>1, <3>2 DEF n
    <3>4. QED
      BY <1>1, <1>2, <2>2, <3>1, <3>2, <3>3
  <2>3. QED
    BY <2>1, <2>2
<1>7. QED
  BY <1>1, <1>5, <1>6 DEF IsTable, n, y, new

-----------------------------------------------------------------------------
(* What one field comes to. *)
LEMMA GivenType ==
  ASSUME NEW s \in DOMAIN Structs, NEW i \in 1..Len(Structs[s])
  PROVE  Given(s, i) \in Seq(Items)
<1> DEFINE f == Structs[s][i]
<1>1. /\ i \in Nat /\ Len(Structs[s]) \in Nat /\ f.required \in BOOLEAN /\ f.name \in Names
      /\ f.embedded => f.typ \in DOMAIN Structs
  <2>1. Len(Structs[s]) \in Nat /\ f.required \in BOOLEAN
    BY ListedAssumption
  <2>2. f.name \in {Structs[s][j].name : j \in 1..Len(Structs[s])}
    OBVIOUS
  <2>3. f.name \in Names
    BY <2>2 DEF Names
  <2>4. f.embedded => f.typ \in DOMAIN Structs
    BY CacheAssumption
  <2>5. QED
    BY <2>1, <2>3, <2>4
<1>2. <<i>> \in Seq(Nat)
  BY <1>1
<1> HIDE DEF f
<1>3. CASE f.hidden
  BY <1>3 DEF Given, f
<1>4. CASE ~ f.hidden /\ f.embedded
  <2>1. Within(<<i>>, All(f.typ)) \in Seq(Items)
    BY <1>1, <1>2, <1>4, ListedType, WithinType
  <2>2. QED
    BY <1>4, <2>1 DEF Given, f
<1>5. CASE ~ f.hidden /\ ~ f.embedded
  <2> DEFINE item == [name |-> f.name, required |-> f.required, index |-> <<i>>]
  <2>1. item \in Items
    BY <1>1, <1>2 DEF Items
  <2>2. Given(s, i) = <<item>>
    BY <1>5 DEF Given, f
  <2> HIDE DEF item
  <2>3. QED
    BY <2>1, <2>2
<1>6. QED
  BY <1>3, <1>4, <1>5

LEMMA OneMore ==
  ASSUME NEW s \in DOMAIN Structs, NEW i \in 1..Len(Structs[s]), NEW p \in Seq(Nat)
  PROVE  /\ Within(p, Listed[s][i - 1]) \in Seq(Items)
         /\ Within(p, Given(s, i)) \in Seq(Items)
         /\ Within(p, Listed[s][i]) = Within(p, Listed[s][i - 1]) \o Within(p, Given(s, i))
<1>1. Len(Structs[s]) \in Nat /\ i - 1 \in 0..Len(Structs[s])
  BY ListedType
<1>2. Listed[s][i] = Listed[s][i - 1] \o Given(s, i) /\ Listed[s][i - 1] \in Seq(Items)
  BY <1>1, ListedType, ListedAssumption
<1>3. QED
  BY <1>2, GivenType, WithinConcat, WithinType

(* The last frame of the work of a call. *)
LEMMA TopFrame ==
  ASSUME NEW w \in Seq(Frames), w # <<>>
  PROVE  /\ Len(w) \in Nat /\ Len(w) > 0 /\ w[Len(w)] \in Frames
         /\ \A i \in 1..Len(w) : w[i] \in Frames
         /\ \A i \in 1..Len(w) : w[i].struct \in DOMAIN Structs /\ w[i].next \in Nat /\ w[i].next > 0
                                 /\ w[i].index \in Seq(Nat)
<1>1. Len(w) \in Nat /\ Len(w) > 0
  BY EmptySeq, LenProperties
<1>2. \A i \in 1..Len(w) : w[i] \in Frames
  BY ElementOfSeq
<1>3. QED
  BY <1>1, <1>2 DEF Frames

(* Going on to the next field of the last frame. *)
LEMMA AdvanceBase ==
  ASSUME NEW s, NEW w \in Seq(Frames), w # <<>>, NEW base, IsBase(base, s, w),
         w[Len(w)].next <= Len(Structs[w[Len(w)].struct])
  PROVE  LET m == Len(w)
             v == [w EXCEPT ![m].next = @ + 1]
         IN /\ v \in Seq(Frames) /\ Len(v) = m /\ v # <<>> /\ IsBase(base, s, v)
            /\ v[m] = [w[m] EXCEPT !.next = @ + 1] /\ v[m].next = w[m].next + 1
            /\ v[m].struct = w[m].struct /\ v[m].index = w[m].index
<1> DEFINE m == Len(w)
           f == [w[m] EXCEPT !.next = @ + 1]
           v == [w EXCEPT ![m] = f]
<1>1. /\ m \in Nat /\ m > 0 /\ m \in 1..m
      /\ \A i \in 1..m : /\ w[i] \in Frames /\ w[i].struct \in DOMAIN Structs /\ w[i].next \in Nat
                          /\ w[i].next > 0 /\ w[i].index \in Seq(Nat)
  BY TopFrame
<1>2. /\ f \in Frames /\ f.next = w[m].next + 1 /\ f.struct = w[m].struct /\ f.index = w[m].index
  <2>1. ASSUME NEW g \in Frames
        PROVE  LET h == [g EXCEPT !.next = @ + 1]
               IN h \in Frames /\ h.next = g.next + 1 /\ h.struct = g.struct /\ h.index = g.index
    <3>1. /\ DOMAIN g = {"struct", "next", "index"} /\ g = [k \in DOMAIN g |-> g[k]]
          /\ g.struct \in DOMAIN Structs /\ g.next \in Nat \ {0} /\ g.index \in Seq(Nat)
      BY DEF Frames
    <3>2. [g EXCEPT !.next = @ + 1] = [struct |-> g.struct, next |-> g.next + 1, index |-> g.index]
      BY <3>1
    <3>3. g.next + 1 \in Nat \ {0}
      BY <3>1
    <3>4. QED
      BY <3>1, <3>2, <3>3 DEF Frames
  <2>2. w[m] \in Frames
    BY <1>1
  <2>3. QED
    BY <2>1, <2>2
<1>3. v \in Seq(Frames) /\ Len(v) = m /\ \A i \in 1..m : v[i] = IF i = m THEN f ELSE w[i]
  <2> HIDE DEF f
  <2>1. QED
    BY <1>1, <1>2, ExceptSeq
<1>4. [w EXCEPT ![m].next = @ + 1] = v
  OBVIOUS
<1> HIDE DEF v, f, m
<1>5. Len(Structs[w[m].struct]) \in Nat
  BY <1>1, ListedType
<1>6. ASSUME NEW i \in 1..m PROVE v[i].next <= Len(Structs[v[i].struct]) + 1
  <2>1. w[i].next <= Len(Structs[w[i].struct]) + 1 /\ w[m].next <= Len(Structs[w[m].struct])
    BY DEF IsBase, m
  <2>2. CASE i = m
    BY <1>1, <1>2, <1>3, <1>5, <2>1, <2>2
  <2>3. CASE i # m
    BY <1>3, <2>1, <2>3
  <2>4. QED
    BY <2>2, <2>3
<1>7. ASSUME NEW i \in 1..(m - 1)
      PROVE  Enters(v[i], v[i + 1]) /\ base[i + 1] = base[i] \o Before(v[i])
  <2>1. Enters(w[i], w[i + 1]) /\ base[i + 1] = base[i] \o Before(w[i])
    BY DEF IsBase, m
  <2>2. i \in 1..m /\ i # m /\ i + 1 \in 1..m
    BY <1>1
  <2>3. v[i] = w[i] /\ v[i + 1].struct = w[i + 1].struct /\ v[i + 1].index = w[i + 1].index
    BY <1>2, <1>3, <2>2
  <2>4. QED
    BY <2>1, <2>3 DEF Enters
<1>8. v[1].struct = w[1].struct /\ v[1].index = w[1].index
  BY <1>1, <1>2, <1>3
<1>9. IsBase(base, s, v)
  BY <1>3, <1>6, <1>7, <1>8 DEF IsBase, m
<1>10. v[m] = f /\ v # <<>>
  BY <1>1, <1>3
<1>11. QED
  BY <1>2, <1>3, <1>4, <1>9, <1>10 DEF m, f

-----------------------------------------------------------------------------
(* The four steps of collectFields() keep what a call knows. *)
LEMMA SkipRight ==
  ASSUME NEW s, NEW w \in Seq(Frames), w # <<>>, NEW t, Right(s, "collect", w, t, FALSE),
         LET f == w[Len(w)]
         IN f.next <= Len(Structs[f.struct]) /\ Structs[f.struct][f.next].hidden
  PROVE  Right(s, "collect", [w EXCEPT ![Len(w)].next = @ + 1], t, FALSE)
<1> DEFINE m == Len(w)
           f == w[m]
           v == [w EXCEPT ![m].next = @ + 1]
<1>1. PICK base : IsBase(base, s, w) /\ t.ordered = base[m] \o Sofar(f)
  BY DEF Right
<1>2. /\ v \in Seq(Frames) /\ Len(v) = m /\ v # <<>> /\ IsBase(base, s, v)
      /\ v[m].next = f.next + 1 /\ v[m].struct = f.struct /\ v[m].index = f.index
  BY <1>1, AdvanceBase
<1>3. /\ f.struct \in DOMAIN Structs /\ f.next \in Nat /\ f.next > 0 /\ Len(Structs[f.struct]) \in Nat
      /\ f.index \in Seq(Nat) /\ f.next \in 1..Len(Structs[f.struct])
  BY TopFrame, ListedType
<1> HIDE DEF v, f, m
<1>4. Sofar(v[m]) = Sofar(f)
  <2>1. Given(f.struct, f.next) = <<>>
    BY DEF Given, f, m
  <2>2. Listed[f.struct][f.next - 1] \in Seq(Items)
    BY <1>3, ListedType
  <2>3. Listed[f.struct][f.next] = Listed[f.struct][f.next - 1]
    <3>1. Listed[f.struct][f.next] = Listed[f.struct][f.next - 1] \o Given(f.struct, f.next)
      BY <1>3, ListedAssumption
    <3>2. QED
      BY <2>1, <2>2, <3>1, ConcatEmptySeq
  <2>4. v[m].next - 1 = f.next
    BY <1>2, <1>3
  <2>5. QED
    BY <1>2, <2>3, <2>4 DEF Sofar
<1>5. t.ordered = base[Len(v)] \o Sofar(v[Len(v)])
  BY <1>1, <1>2, <1>4
<1>6. t.ordered \in Seq(Items) /\ IsTable(t.fields, t.ordered)
  BY DEF Right
<1>7. Right(s, "collect", v, t, FALSE)
  BY <1>2, <1>5, <1>6 DEF Right
<1>8. QED
  BY <1>7 DEF v, m

LEMMA CollectRightStep ==
  ASSUME NEW s, NEW w \in Seq(Frames), w # <<>>, NEW t, Right(s, "collect", w, t, FALSE),
         LET f == w[Len(w)]
             field == Structs[f.struct][f.next]
         IN f.next <= Len(Structs[f.struct]) /\ ~ field.hidden /\ ~ field.embedded
  PROVE  LET f == w[Len(w)]
             field == Structs[f.struct][f.next]
             item == [name |-> field.name, required |-> field.required, index |-> Append(f.index, f.next)]
         IN Right(s, "collect", [w EXCEPT ![Len(w)].next = @ + 1],
                  [fields  |-> Entered(t.fields, item.name, Len(t.ordered) + 1),
                   ordered |-> Append(t.ordered, item)], FALSE)
<1> DEFINE m == Len(w)
           f == w[m]
           field == Structs[f.struct][f.next]
           v == [w EXCEPT ![m].next = @ + 1]
           item == [name |-> field.name, required |-> field.required, index |-> Append(f.index, f.next)]
           small == [name |-> field.name, required |-> field.required, index |-> <<f.next>>]
           table1 == [fields  |-> Entered(t.fields, item.name, Len(t.ordered) + 1),
                      ordered |-> Append(t.ordered, item)]
<1>1. PICK base : IsBase(base, s, w) /\ t.ordered = base[m] \o Sofar(f)
  BY DEF Right
<1>2. /\ v \in Seq(Frames) /\ Len(v) = m /\ v # <<>> /\ IsBase(base, s, v)
      /\ v[m].next = f.next + 1 /\ v[m].struct = f.struct /\ v[m].index = f.index
  BY <1>1, AdvanceBase
<1>3. /\ f.struct \in DOMAIN Structs /\ f.next \in Nat /\ f.next > 0 /\ Len(Structs[f.struct]) \in Nat
      /\ f.index \in Seq(Nat) /\ f.next \in 1..Len(Structs[f.struct]) /\ m \in 1..m
  BY TopFrame, ListedType
<1>4. t.ordered \in Seq(Items) /\ IsTable(t.fields, t.ordered)
  BY DEF Right
<1>5. Given(f.struct, f.next) = <<small>>
  BY DEF Given
<1>6. small \in Items /\ item \in Items
  <2>1. /\ field.name \in Names /\ field.required \in BOOLEAN
    <3>1. field.required \in BOOLEAN
      BY <1>3, ListedAssumption
    <3>2. field.name \in {Structs[f.struct][j].name : j \in 1..Len(Structs[f.struct])}
      BY <1>3
    <3>3. QED
      BY <1>3, <3>1, <3>2 DEF Names
  <2>2. Append(f.index, f.next) \in Seq(Nat) /\ <<f.next>> \in Seq(Nat)
    BY <1>3, AppendProperties
  <2> HIDE DEF f, field
  <2>3. QED
    BY <2>1, <2>2 DEF Items
<1>7. Within(f.index, <<small>>) = <<item>>
  <2>1. /\ Len(<<small>>) = 1 /\ <<small>>[1] = small /\ Append(f.index, f.next) = f.index \o <<f.next>>
        /\ small.index = <<f.next>>
    BY <1>3, AppendIsConcat
  <2> HIDE DEF small, field, f
  <2>2. <<small>> \in Seq(Items) /\ <<item>> \in Seq(Items) /\ Len(<<item>>) = 1 /\ <<item>>[1] = item
    BY <1>6
  <2>3. Within(f.index, <<small>>) \in Seq(Items) /\ Len(Within(f.index, <<small>>)) = 1
    BY <1>3, <2>1, <2>2, WithinType
  <2>4. Within(f.index, <<small>>)[1] = item
    <3>1. small.name = field.name /\ small.required = field.required
      BY DEF small
    <3> DEFINE list == <<small>>
    <3>2. 1 \in 1..Len(list) /\ list[1] = small
      BY <2>1
    <3> HIDE DEF list, item
    <3>3. Within(f.index, list)[1] = [name |-> list[1].name, required |-> list[1].required,
                                      index |-> f.index \o list[1].index]
      BY <3>2 DEF Within
    <3>4. QED
      BY <2>1, <3>1, <3>2, <3>3 DEF list, item
  <2> HIDE DEF item
  <2>5. \A i \in 1..1 : Within(f.index, <<small>>)[i] = <<item>>[i]
    BY <2>2, <2>4
  <2>6. QED
    BY <2>2, <2>3, <2>5, SeqEqual
<1> HIDE DEF v, f, m, field, small, item
<1>8. Sofar(v[m]) = Append(Sofar(f), item) /\ Sofar(f) \in Seq(Items)
  <2>1. /\ Within(f.index, Listed[f.struct][f.next - 1]) \in Seq(Items)
        /\ Within(f.index, Listed[f.struct][f.next])
              = Within(f.index, Listed[f.struct][f.next - 1]) \o <<item>>
    BY <1>3, <1>5, <1>7, OneMore
  <2>2. v[m].next - 1 = f.next
    BY <1>2, <1>3
  <2>3. Append(Sofar(f), item) = Sofar(f) \o <<item>>
    BY <1>6, <2>1, AppendIsConcat DEF Sofar
  <2>4. QED
    BY <1>2, <2>1, <2>2, <2>3 DEF Sofar
<1>9. base[m] \in Seq(Items)
  BY <1>1, <1>3 DEF IsBase, m
<1>10. Append(t.ordered, item) = base[m] \o Sofar(v[m])
  <2>1. ASSUME NEW x \in Seq(Items), NEW y \in Seq(Items)
        PROVE  Append(x \o y, item) = x \o Append(y, item)
    <3> DEFINE one == <<item>>
    <3>1. x \o y \in Seq(Items) /\ one \in Seq(Items)
      BY <1>6, ConcatProperties
    <3>2. Append(x \o y, item) = (x \o y) \o one /\ Append(y, item) = y \o one
      BY <1>6, <3>1, AppendIsConcat
    <3> HIDE DEF one
    <3>3. \A z \in Seq(Items) : (x \o y) \o z = x \o (y \o z)
      BY ConcatAssociative
    <3>4. QED
      BY <3>1, <3>2, <3>3
  <2>2. QED
    BY <1>1, <1>8, <1>9, <2>1
<1>11. Append(t.ordered, item) \in Seq(Items) /\ IsTable(table1.fields, table1.ordered)
  BY <1>4, <1>6, EnteredIsTable, AppendProperties
<1>12. table1.ordered = base[Len(v)] \o Sofar(v[Len(v)]) /\ table1.ordered \in Seq(Items)
  BY <1>2, <1>10, <1>11
<1> HIDE DEF table1
<1>13. Right(s, "collect", v, table1, FALSE)
  BY <1>2, <1>11, <1>12 DEF Right
<1>14. QED
  BY <1>13 DEF v, m, table1, item, field, f

LEMMA FunctionSeq ==
  ASSUME NEW S, NEW n \in Nat, NEW f \in [1..n -> S]
  PROVE  f \in Seq(S) /\ Len(f) = n
<1>1. f \in Seq(S)
  BY SeqDef
<1>2. QED
  BY <1>1, LenProperties

LEMMA EmbedRight ==
  ASSUME NEW s, NEW w \in Seq(Frames), w # <<>>, NEW t, Right(s, "collect", w, t, FALSE),
         LET f == w[Len(w)]
             field == Structs[f.struct][f.next]
         IN f.next <= Len(Structs[f.struct]) /\ ~ field.hidden /\ field.embedded
  PROVE  LET f == w[Len(w)]
         IN Right(s, "collect",
                  Append([w EXCEPT ![Len(w)].next = @ + 1],
                         Frame(Structs[f.struct][f.next].typ, Append(f.index, f.next))), t, FALSE)
<1> DEFINE m == Len(w)
           f == w[m]
           v == [w EXCEPT ![m].next = @ + 1]
           g == Frame(Structs[f.struct][f.next].typ, Append(f.index, f.next))
           u == Append(v, g)
<1>1. PICK base : IsBase(base, s, w) /\ t.ordered = base[m] \o Sofar(f)
  BY DEF Right
<1>2. /\ v \in Seq(Frames) /\ Len(v) = m /\ v # <<>> /\ IsBase(base, s, v)
      /\ v[m].next = f.next + 1 /\ v[m].struct = f.struct /\ v[m].index = f.index
  BY <1>1, AdvanceBase
<1>3. /\ f.struct \in DOMAIN Structs /\ f.next \in Nat /\ f.next > 0 /\ Len(Structs[f.struct]) \in Nat
      /\ f.index \in Seq(Nat) /\ f.next \in 1..Len(Structs[f.struct]) /\ m \in 1..m /\ m \in Nat
  BY TopFrame, ListedType
<1>4. t.ordered \in Seq(Items) /\ IsTable(t.fields, t.ordered)
  BY DEF Right
<1>5. /\ g \in Frames /\ g.struct = Structs[f.struct][f.next].typ /\ g.next = 1
      /\ g.index = Append(f.index, f.next) /\ g.struct \in DOMAIN Structs
  <2>1. Structs[f.struct][f.next].typ \in DOMAIN Structs
    BY <1>3, CacheAssumption
  <2>2. Append(f.index, f.next) \in Seq(Nat)
    BY <1>3, AppendProperties
  <2>3. QED
    BY <2>1, <2>2 DEF Frame, Frames
<1>6. Enters(v[m], g)
  <2>1. v[m].next - 1 = f.next /\ v[m].next > 1
    BY <1>2, <1>3
  <2>2. QED
    BY <1>2, <1>5, <2>1 DEF Enters
<1> HIDE DEF v, f, m, g
<1>7. /\ u \in Seq(Frames) /\ Len(u) = m + 1 /\ u[m + 1] = g /\ u # <<>>
      /\ \A i \in 1..m : u[i] = v[i]
  BY <1>2, <1>3, <1>5, AppendProperties
<1> DEFINE next == Append(base, t.ordered)
<1> HIDE DEF u
<1>8. base \in Seq(Seq(Items)) /\ Len(base) = m
  <2>1. base \in [1..m -> Seq(Items)]
    BY <1>1 DEF IsBase, m
  <2>2. QED
    BY <1>3, <2>1, FunctionSeq
<1>9. /\ next \in [1..(m + 1) -> Seq(Items)] /\ next[m + 1] = t.ordered
      /\ \A i \in 1..m : next[i] = base[i]
  <2>1. next \in Seq(Seq(Items)) /\ Len(next) = m + 1
    BY <1>4, <1>8, AppendProperties
  <2>2. next \in [1..(m + 1) -> Seq(Items)]
    <3> HIDE DEF next
    <3>1. QED
      BY <2>1, LenProperties
  <2>3. next[m + 1] = t.ordered /\ \A i \in 1..m : next[i] = base[i]
    BY <1>4, <1>8, AppendProperties
  <2>4. QED
    BY <2>2, <2>3
<1> HIDE DEF next
<1>10. IsBase(next, s, u)
  <2>1. next[1] = <<>> /\ u[1].struct = s /\ u[1].index = <<>>
    <3>1. base[1] = <<>> /\ v[1].struct = s /\ v[1].index = <<>>
      BY <1>2 DEF IsBase
    <3>2. 1 \in 1..m
      BY <1>3
    <3>3. QED
      BY <1>7, <1>9, <3>1, <3>2
  <2>2. ASSUME NEW i \in 1..(m + 1) PROVE u[i].next <= Len(Structs[u[i].struct]) + 1
    <3>1. CASE i = m + 1
      <4>1. Len(Structs[g.struct]) \in Nat
        BY <1>5, ListedType
      <4>2. QED
        BY <1>5, <1>7, <3>1, <4>1
    <3>2. CASE i # m + 1
      <4>1. i \in 1..m
        BY <1>3, <3>2
      <4>2. QED
        BY <1>2, <1>7, <4>1 DEF IsBase
    <3>3. QED
      BY <3>1, <3>2
  <2>3. ASSUME NEW i \in 1..m
        PROVE  Enters(u[i], u[i + 1]) /\ next[i + 1] = next[i] \o Before(u[i])
    <3>1. CASE i = m
      <4>1. Before(v[m]) = Sofar(f)
        <5>1. v[m].next - 2 = f.next - 1
          BY <1>2, <1>3
        <5>2. QED
          BY <1>2, <5>1 DEF Before, Sofar
      <4>2. QED
        BY <1>1, <1>3, <1>6, <1>7, <1>9, <3>1, <4>1
    <3>2. CASE i # m
      <4>1. i \in 1..(m - 1) /\ i \in 1..m /\ i + 1 \in 1..m
        BY <1>3, <3>2
      <4>2. Enters(v[i], v[i + 1]) /\ base[i + 1] = base[i] \o Before(v[i])
        BY <1>2, <4>1 DEF IsBase
      <4>3. QED
        BY <1>7, <1>9, <4>1, <4>2
    <3>3. QED
      BY <3>1, <3>2
  <2>4. 1..Len(u) = 1..(m + 1) /\ 1..(Len(u) - 1) = 1..m
    BY <1>3, <1>7
  <2>5. next \in [1..Len(u) -> Seq(Items)]
    BY <1>9, <2>4
  <2>6. QED
    BY <2>1, <2>2, <2>3, <2>4, <2>5 DEF IsBase
<1>11. t.ordered = next[Len(u)] \o Sofar(u[Len(u)])
  <2>1. Sofar(g) = <<>>
    <3>1. Listed[g.struct][g.next - 1] = <<>>
      <4>1. g.next - 1 = 0
        BY <1>5
      <4>2. QED
        BY <1>5, <4>1, ListedAssumption
    <3>2. QED
      BY <3>1 DEF Sofar, Within
  <2>2. QED
    BY <1>4, <1>7, <1>9, <2>1, ConcatEmptySeq
<1>12. Right(s, "collect", u, t, FALSE)
  BY <1>4, <1>7, <1>10, <1>11 DEF Right
<1>13. QED
  BY <1>12 DEF u, v, m, g, f

LEMMA LeaveRight ==
  ASSUME NEW s, NEW w \in Seq(Frames), w # <<>>, NEW t, Right(s, "collect", w, t, FALSE),
         w[Len(w)].next > Len(Structs[w[Len(w)].struct])
  PROVE  Right(s, "collect", SubSeq(w, 1, Len(w) - 1), t, FALSE)
<1> DEFINE m == Len(w)
           f == w[m]
           v == SubSeq(w, 1, m - 1)
<1>1. PICK base : IsBase(base, s, w) /\ t.ordered = base[m] \o Sofar(f)
  BY DEF Right
<1>2. /\ m \in Nat /\ m > 0 /\ f.struct \in DOMAIN Structs /\ f.next \in Nat
      /\ f.index \in Seq(Nat) /\ Len(Structs[f.struct]) \in Nat
  BY TopFrame, ListedType
<1>3. t.ordered \in Seq(Items) /\ IsTable(t.fields, t.ordered)
  BY DEF Right
<1> HIDE DEF v, f, m
<1>4. f.next - 1 = Len(Structs[f.struct])
  <2>1. f.next <= Len(Structs[f.struct]) + 1 /\ f.next > Len(Structs[f.struct])
    <3>1. m \in 1..m
      BY <1>2
    <3>2. QED
      BY <1>1, <3>1 DEF IsBase, f, m
  <2>2. QED
    BY <1>2, <2>1
<1>5. Sofar(f) = Within(f.index, All(f.struct)) /\ All(f.struct) \in Seq(Items)
  BY <1>2, <1>4, ListedType DEF Sofar, All
<1>6. /\ v \in Seq(Frames) /\ Len(v) = m - 1 /\ \A i \in 1..(m - 1) : v[i] = w[i]
  <2>1. \A i \in 1..(m - 1) : w[i] \in Frames
    <3>1. \A i \in 1..m : w[i] \in Frames
      BY TopFrame DEF m
    <3>2. QED
      BY <1>2, <3>1
  <2>2. m - 1 \in Int /\ 1 \in Int
    BY <1>2
  <2>3. /\ v \in Seq(Frames) /\ Len(v) = IF 1 <= m - 1 THEN m - 1 - 1 + 1 ELSE 0
        /\ \A i \in 1..(m - 1 - 1 + 1) : v[i] = w[1 + i - 1]
    BY <2>1, <2>2, SubSeqProperties DEF v
  <2>4. m - 1 - 1 + 1 = m - 1 /\ \A i \in 1..(m - 1) : 1 + i - 1 = i
    BY <1>2
  <2>5. QED
    BY <1>2, <2>3, <2>4
<1>7. CASE m = 1
  <2>1. base[m] = <<>> /\ f.struct = s /\ f.index = <<>>
    BY <1>1, <1>7 DEF IsBase, f
  <2>2. t.ordered = All(s)
    BY <1>1, <1>5, <2>1, WithinNothing, ConcatEmptySeq
  <2>3. v = <<>>
    BY <1>6, <1>7, EmptySeq
  <2>4. Right(s, "collect", v, t, FALSE)
    BY <1>3, <1>6, <2>2, <2>3 DEF Right
  <2>5. QED
    BY <2>4 DEF v, m
<1>8. CASE m > 1
  <2> DEFINE n == m - 1
             e == w[n]
             i == e.next - 1
  <2>1. /\ n \in 1..m /\ n \in Nat /\ n \in 1..(m - 1) /\ n + 1 = m /\ e \in Frames
        /\ e.struct \in DOMAIN Structs /\ e.next \in Nat /\ e.index \in Seq(Nat)
        /\ Len(Structs[e.struct]) \in Nat
    <3>1. n \in 1..m /\ n \in Nat /\ n \in 1..(m - 1) /\ n + 1 = m
      BY <1>2, <1>8
    <3>2. QED
      BY <3>1, TopFrame, ListedType DEF m
  <2>2. /\ Enters(e, f) /\ base[m] = base[n] \o Before(e)
        /\ e.next <= Len(Structs[e.struct]) + 1 /\ base[n] \in Seq(Items)
    <3>1. Enters(w[n], w[n + 1]) /\ base[n + 1] = base[n] \o Before(w[n])
      BY <1>1, <2>1 DEF IsBase, m
    <3>2. e.next <= Len(Structs[e.struct]) + 1 /\ base[n] \in Seq(Items)
      BY <1>1, <2>1 DEF IsBase, m
    <3>3. QED
      BY <2>1, <3>1, <3>2 DEF f
  <2>3. /\ i \in 1..Len(Structs[e.struct]) /\ i \in Nat
        /\ ~ Structs[e.struct][i].hidden /\ Structs[e.struct][i].embedded
        /\ f.struct = Structs[e.struct][i].typ /\ f.index = Append(e.index, i)
    BY <2>1, <2>2 DEF Enters
  <2> HIDE DEF e, i, n
  <2>4. Given(e.struct, i) = Within(<<i>>, All(f.struct))
    BY <2>3 DEF Given
  <2>5. Within(e.index, Given(e.struct, i)) = Sofar(f)
    <3>1. Within(e.index, Within(<<i>>, All(f.struct))) = Within(Append(e.index, i), All(f.struct))
      BY <1>5, <2>1, <2>3, WithinWithin
    <3>2. QED
      BY <1>5, <2>3, <2>4, <3>1
  <2>6. /\ Sofar(e) = Before(e) \o Sofar(f) /\ Before(e) \in Seq(Items) /\ Sofar(f) \in Seq(Items)
    <3>1. i = e.next - 1 /\ i - 1 = e.next - 2
      BY <2>1 DEF i
    <3>2. /\ Within(e.index, Listed[e.struct][i - 1]) \in Seq(Items)
          /\ Within(e.index, Given(e.struct, i)) \in Seq(Items)
          /\ Within(e.index, Listed[e.struct][i])
                = Within(e.index, Listed[e.struct][i - 1]) \o Within(e.index, Given(e.struct, i))
      BY <2>1, <2>3, OneMore
    <3>3. QED
      BY <2>5, <3>1, <3>2 DEF Sofar, Before
  <2>7. t.ordered = base[n] \o Sofar(e)
    <3>1. (base[n] \o Before(e)) \o Sofar(f) = base[n] \o (Before(e) \o Sofar(f))
      <4> DEFINE x == base[n]
                 y == Before(e)
                 z == Sofar(f)
      <4>1. x \in Seq(Items) /\ y \in Seq(Items) /\ z \in Seq(Items)
        BY <2>2, <2>6
      <4> HIDE DEF x, y, z
      <4>2. (x \o y) \o z = x \o (y \o z)
        BY <4>1, ConcatAssociative
      <4>3. QED
        BY <4>2 DEF x, y, z
    <3>2. t.ordered = (base[n] \o Before(e)) \o Sofar(f)
      BY <1>1, <2>2
    <3>3. QED
      BY <2>6, <3>1, <3>2
  <2> DEFINE less == [k \in 1..n |-> base[k]]
  <2>8. IsBase(less, s, v)
    <3>1. Len(v) = n /\ 1 \in 1..n /\ n \in Nat
      BY <1>6, <2>1 DEF n
    <3>2. ASSUME NEW k \in 1..n
          PROVE  /\ less[k] = base[k] /\ base[k] \in Seq(Items) /\ v[k] = w[k]
                 /\ v[k].next <= Len(Structs[v[k].struct]) + 1
      <4>1. k \in 1..m /\ k \in 1..(m - 1)
        BY <1>2 DEF n
      <4>2. base[k] \in Seq(Items) /\ w[k].next <= Len(Structs[w[k].struct]) + 1
        BY <1>1, <4>1 DEF IsBase, m
      <4>3. QED
        BY <1>6, <4>1, <4>2
    <3>3. ASSUME NEW k \in 1..(n - 1)
          PROVE  Enters(v[k], v[k + 1]) /\ less[k + 1] = less[k] \o Before(v[k])
      <4>1. k \in 1..n /\ k + 1 \in 1..n /\ k \in 1..(m - 1)
        BY <1>2 DEF n
      <4>2. Enters(w[k], w[k + 1]) /\ base[k + 1] = base[k] \o Before(w[k])
        BY <1>1, <4>1 DEF IsBase, m
      <4>3. QED
        BY <3>2, <4>1, <4>2
    <3>4. base[1] = <<>> /\ w[1].struct = s /\ w[1].index = <<>>
      BY <1>1 DEF IsBase
    <3> HIDE DEF less
    <3>5. less \in [1..n -> Seq(Items)]
      BY <3>2 DEF less
    <3>6. QED
      BY <3>1, <3>2, <3>3, <3>4, <3>5 DEF IsBase
  <2>9. v # <<>> /\ less[Len(v)] = base[n] /\ v[Len(v)] = e
    BY <1>6, <2>1 DEF n, e
  <2> HIDE DEF less
  <2>10. t.ordered = less[Len(v)] \o Sofar(v[Len(v)])
    BY <2>7, <2>9
  <2>11. Right(s, "collect", v, t, FALSE)
    BY <1>3, <1>6, <2>8, <2>9, <2>10 DEF Right
  <2>12. QED
    BY <2>11 DEF v, m
<1>9. m = 1 \/ m > 1
  BY <1>2
<1>10. QED
  BY <1>7, <1>8, <1>9

(* A call that begins. *)
LEMMA MissRight ==
  ASSUME NEW s \in DOMAIN Structs
  PROVE  Right(s, "collect", <<Frame(s, <<>>)>>, Empty, FALSE)
<1> DEFINE f == Frame(s, <<>>)
           w == <<f>>
           base == [i \in 1..1 |-> <<>>]
<1>1. f \in Frames /\ f.struct = s /\ f.next = 1 /\ f.index = <<>>
  BY DEF Frame, Frames
<1> HIDE DEF f
<1>2. w \in Seq(Frames) /\ Len(w) = 1 /\ w[1] = f /\ w # <<>>
  BY <1>1
<1>3. Sofar(f) = <<>>
  <2>1. Listed[f.struct][f.next - 1] = <<>>
    BY <1>1, ListedAssumption
  <2>2. QED
    BY <2>1 DEF Sofar, Within
<1>4. Empty.ordered = base[Len(w)] \o Sofar(w[Len(w)])
  BY <1>2, <1>3, ConcatEmptySeq DEF Empty
<1> HIDE DEF w
<1>5. IsBase(base, s, w)
  <2>1. base \in [1..1 -> Seq(Items)] /\ base[1] = <<>> /\ 1..(1 - 1) = {}
    OBVIOUS
  <2>2. w[1].next <= Len(Structs[w[1].struct]) + 1
    <3>1. Len(Structs[s]) \in Nat
      BY ListedType
    <3>2. QED
      BY <1>1, <1>2, <3>1
  <2> HIDE DEF base
  <2>3. QED
    BY <1>1, <1>2, <2>1, <2>2 DEF IsBase
<1> HIDE DEF base
<1>6. Right(s, "collect", w, Empty, FALSE)
  BY <1>2, <1>4, <1>5, EmptyIsTable DEF Right
<1>7. QED
  BY <1>6 DEF w, f

(* What c does changes nothing that another call has. *)
LEMMA OthersRight ==
  ASSUME CInv, NEW c \in Calls, CachedFields(c)
  PROVE  /\ \A d \in Calls \ {c} : RightCall(d)'
         /\ work' = [d \in Calls |-> work'[d]] /\ table' = [d \in Calls |-> table'[d]]
<1>1. /\ work = [d \in Calls |-> work[d]] /\ table = [d \in Calls |-> table[d]]
      /\ pc = [d \in Calls |-> pc[d]] /\ result = [d \in Calls |-> result[d]]
  BY DEF CInv, IInv, TypeOK
<1>2. /\ type' = type
      /\ \E x : work' = [work EXCEPT ![c] = x]
      /\ \E x : table' = [table EXCEPT ![c] = x]
      /\ \E x : pc' = [pc EXCEPT ![c] = x]
      /\ \E x : result' = [result EXCEPT ![c] = x]
  <2>1. \A f : f = [d \in Calls |-> f[d]] => f = [f EXCEPT ![c] = f[c]]
    OBVIOUS
  <2>2. /\ work = [work EXCEPT ![c] = work[c]] /\ table = [table EXCEPT ![c] = table[c]]
        /\ pc = [pc EXCEPT ![c] = pc[c]] /\ result = [result EXCEPT ![c] = result[c]]
    BY <1>1, <2>1
  <2>3. CASE Hit(c)
    BY <2>2, <2>3 DEF Hit
  <2>4. CASE Miss(c)
    BY <2>2, <2>4 DEF Miss
  <2>5. CASE Skip(c)
    BY <2>2, <2>5 DEF Skip
  <2>6. CASE Embed(c)
    BY <2>2, <2>6 DEF Embed
  <2>7. CASE Collect(c)
    <3>1. type' = type /\ pc' = pc /\ result' = result
      BY <2>7 DEF Collect
    <3>2. (\E x : table' = [table EXCEPT ![c] = x]) /\ (\E x : work' = [work EXCEPT ![c] = x])
      BY <2>7 DEF Collect
    <3>3. QED
      BY <2>2, <3>1, <3>2
  <2>8. CASE Leave(c)
    BY <2>2, <2>8 DEF Leave
  <2>9. CASE Store(c)
    BY <2>2, <2>9 DEF Store
  <2>10. QED
    BY <2>3, <2>4, <2>5, <2>6, <2>7, <2>8, <2>9 DEF CachedFields
<1>3. /\ work' = [d \in Calls |-> work'[d]] /\ table' = [d \in Calls |-> table'[d]]
      /\ \A d \in Calls \ {c} : /\ work'[d] = work[d] /\ table'[d] = table[d]
                               /\ pc'[d] = pc[d] /\ result'[d] = result[d] /\ type'[d] = type[d]
  <2>1. \A f, g, x : f = [d \in Calls |-> f[d]] /\ g = [f EXCEPT ![c] = x]
                    => g = [d \in Calls |-> g[d]] /\ \A d \in Calls \ {c} : g[d] = f[d]
    OBVIOUS
  <2>2. QED
    BY <1>1, <1>2, <2>1
<1>4. ASSUME NEW d \in Calls \ {c} PROVE RightCall(d)'
  <2>1. RightCall(d)
    BY DEF CInv
  <2>2. QED
    BY <1>3, <2>1 DEF RightCall
<1>5. QED
  BY <1>3, <1>4

(* What c itself knows after its step. *)
LEMMA OwnRight ==
  ASSUME CInv, NEW c \in Calls, CachedFields(c)
  PROVE  RightCall(c)'
<1>1. /\ Right(type[c], pc[c], work[c], table[c], result[c] = c)
      /\ work = [d \in Calls |-> work[d]] /\ table = [d \in Calls |-> table[d]]
      /\ type[c] \in DOMAIN Structs /\ pc \in [Calls -> {"load", "collect", "done"}]
      /\ result \in [Calls -> Calls \cup {None}] /\ (result[c] # None <=> pc[c] = "done")
  BY DEF CInv, RightCall, IInv, TypeOK
<1>2. /\ work[c] \in Seq(Frames) /\ (pc[c] # "done" => result[c] # c)
      /\ \A x : [work EXCEPT ![c] = x][c] = x /\ [table EXCEPT ![c] = x][c] = x
  BY <1>1, CacheAssumption DEF Right
<1>3. ASSUME pc[c] = "collect", work[c] # <<>>, UNCHANGED <<type, pc, result>>
      PROVE  /\ Right(type[c], "collect", work[c], table[c], FALSE)
             /\ Right(type[c], "collect", work'[c], table'[c], FALSE) => RightCall(c)'
  <2>1. result[c] # c /\ type' = type /\ pc'[c] = "collect" /\ result'[c] = result[c]
    BY <1>2, <1>3
  <2>2. Right(type[c], "collect", work[c], table[c], FALSE)
    BY <1>1, <1>3, <2>1 DEF Right
  <2>3. ASSUME Right(type[c], "collect", work'[c], table'[c], FALSE) PROVE RightCall(c)'
    BY <2>1, <2>3 DEF RightCall, Right
  <2>4. QED
    BY <2>2, <2>3
<1>4. CASE Hit(c)
  <2>1. /\ pc[c] = "load" /\ typeCache[type[c]] # None /\ result'[c] = typeCache[type[c]]
        /\ pc'[c] = "done" /\ UNCHANGED <<type, work, table>>
    BY <1>1, <1>4 DEF Hit
  <2>2. result'[c] # c
    BY <1>1, <2>1 DEF CInv, IInv, Published, Finished
  <2>3. Right(type[c], "done", work[c], table[c], FALSE)
    BY <1>1 DEF Right
  <2>4. QED
    BY <2>1, <2>2, <2>3 DEF RightCall, Right
<1>5. CASE Miss(c)
  <2>1. /\ pc[c] = "load" /\ pc'[c] = "collect" /\ work'[c] = <<Frame(type[c], <<>>)>>
        /\ table'[c] = table[c] /\ result'[c] # c /\ type' = type
    BY <1>1, <1>2, <1>5 DEF Miss
  <2>2. table[c] = Empty
    BY <1>1, <2>1 DEF Right
  <2>3. Right(type[c], "collect", <<Frame(type[c], <<>>)>>, Empty, FALSE)
    BY <1>1, MissRight
  <2> DEFINE w == <<Frame(type[c], <<>>)>>
  <2> HIDE DEF w
  <2>4. Right(type[c], "collect", w, Empty, FALSE) /\ work'[c] = w
    BY <2>1, <2>3 DEF w
  <2>5. QED
    BY <2>1, <2>2, <2>4 DEF RightCall, Right
<1>6. CASE Skip(c)
  <2>1. /\ pc[c] = "collect" /\ work[c] # <<>> /\ UNCHANGED <<type, pc, result, table>>
        /\ Top(c).next <= Len(Structs[Top(c).struct]) /\ Structs[Top(c).struct][Top(c).next].hidden
        /\ work'[c] = Advanced(c)
    BY <1>2, <1>6 DEF Skip, Collecting, Field
  <2>2. Right(type[c], "collect", Advanced(c), table[c], FALSE)
    BY <1>2, <1>3, <2>1, SkipRight DEF Advanced, Top
  <2>3. QED
    BY <1>3, <2>1, <2>2
<1>7. CASE Embed(c)
  <2>1. /\ pc[c] = "collect" /\ work[c] # <<>> /\ UNCHANGED <<type, pc, result, table>>
        /\ Top(c).next <= Len(Structs[Top(c).struct])
        /\ ~ Structs[Top(c).struct][Top(c).next].hidden /\ Structs[Top(c).struct][Top(c).next].embedded
        /\ work'[c] = Append(Advanced(c), Frame(Structs[Top(c).struct][Top(c).next].typ,
                                                Append(Top(c).index, Top(c).next)))
    BY <1>2, <1>7 DEF Embed, Collecting, Field, Index
  <2> DEFINE w == work[c]
  <2>2. Right(type[c], "collect",
              Append([w EXCEPT ![Len(w)].next = @ + 1],
                     Frame(Structs[w[Len(w)].struct][w[Len(w)].next].typ,
                           Append(w[Len(w)].index, w[Len(w)].next))), table[c], FALSE)
    <3>1. /\ w \in Seq(Frames) /\ w # <<>> /\ Right(type[c], "collect", w, table[c], FALSE)
          /\ w[Len(w)].next <= Len(Structs[w[Len(w)].struct])
          /\ ~ Structs[w[Len(w)].struct][w[Len(w)].next].hidden
          /\ Structs[w[Len(w)].struct][w[Len(w)].next].embedded
      BY <1>2, <1>3, <2>1 DEF Top
    <3> HIDE DEF w
    <3>2. QED
      BY <3>1, EmbedRight
  <2>3. QED
    BY <1>3, <2>1, <2>2 DEF Advanced, Top
<1>8. CASE Collect(c)
  <2> DEFINE item == [name |-> Field(c).name, required |-> Field(c).required, index |-> Index(c)]
             new == [fields  |-> Entered(table[c].fields, item.name, Len(table[c].ordered) + 1),
                     ordered |-> Append(table[c].ordered, item)]
  <2>1. /\ pc[c] = "collect" /\ work[c] # <<>> /\ UNCHANGED <<type, pc, result>>
        /\ Top(c).next <= Len(Structs[Top(c).struct]) /\ ~ Field(c).hidden /\ ~ Field(c).embedded
        /\ work' = [work EXCEPT ![c] = Advanced(c)] /\ table' = [table EXCEPT ![c] = new]
    BY <1>8 DEF Collect, Collecting
  <2>2. work'[c] = Advanced(c) /\ table'[c] = new
    <3> HIDE DEF new
    <3>1. QED
      BY <1>2, <2>1
  <2>3. Right(type[c], "collect", Advanced(c), new, FALSE)
    BY <1>2, <1>3, <2>1, CollectRightStep DEF Advanced, Top, Field, Index
  <2>4. QED
    BY <1>3, <2>1, <2>2, <2>3
<1>9. CASE Leave(c)
  <2>1. /\ pc[c] = "collect" /\ work[c] # <<>> /\ UNCHANGED <<type, pc, result, table>>
        /\ Top(c).next > Len(Structs[Top(c).struct])
        /\ work'[c] = SubSeq(work[c], 1, Len(work[c]) - 1)
    BY <1>2, <1>9 DEF Leave
  <2> DEFINE w == work[c]
  <2>2. Right(type[c], "collect", SubSeq(w, 1, Len(w) - 1), table[c], FALSE)
    <3>1. /\ w \in Seq(Frames) /\ w # <<>> /\ Right(type[c], "collect", w, table[c], FALSE)
          /\ w[Len(w)].next > Len(Structs[w[Len(w)].struct])
      BY <1>2, <1>3, <2>1 DEF Top
    <3> HIDE DEF w
    <3>2. QED
      BY <3>1, LeaveRight
  <2>3. QED
    BY <1>3, <2>1, <2>2
<1>10. CASE Store(c)
  <2>1. /\ pc[c] = "collect" /\ work[c] = <<>> /\ pc'[c] = "done"
        /\ UNCHANGED <<type, work, table>>
    BY <1>1, <1>10 DEF Store
  <2>2. QED
    BY <1>1, <2>1 DEF RightCall, Right
<1>11. QED
  BY <1>4, <1>5, <1>6, <1>7, <1>8, <1>9, <1>10 DEF CachedFields

LEMMA NextCInv == CInv /\ [Next]_vars => CInv'
<1> SUFFICES ASSUME CInv, [Next]_vars PROVE CInv'
  OBVIOUS
<1>1. IInv'
  BY NextIInv DEF CInv
<1>2. ASSUME NEW c \in Calls, CachedFields(c) PROVE CInv'
  <2>1. Made'
    <3>1. /\ type \in [Calls -> DOMAIN Structs] /\ pc \in [Calls -> {"load", "collect", "done"}]
          /\ result \in [Calls -> Calls \cup {None}] /\ typeCache \in [DOMAIN Structs -> Calls \cup {None}]
          /\ Made /\ \A d \in Calls : result[d] # None <=> pc[d] = "done"
      BY DEF CInv, IInv, TypeOK
    <3>2. CASE Hit(c)
      <4>1. /\ pc[c] = "load" /\ typeCache[type[c]] # None /\ typeCache' = typeCache
            /\ result' = [result EXCEPT ![c] = typeCache[type[c]]]
        BY <3>2 DEF Hit
      <4>2. result[c] = None
        BY <3>1, <4>1
      <4>3. /\ \A s \in DOMAIN Structs : typeCache[s] # None => typeCache[s] \in Calls /\ typeCache[s] # c
            /\ \A d \in Calls : result[d] # None => result[d] \in Calls /\ result[d] # c
        BY <3>1, <4>2, CacheAssumption DEF Made
      <4>4. QED
        BY <3>1, <4>1, <4>3 DEF Made
    <3>3. CASE Store(c)
      <4>1. /\ pc[c] = "collect" /\ typeCache' = [typeCache EXCEPT ![type[c]] = c]
            /\ result' = [result EXCEPT ![c] = c]
        BY <3>3 DEF Store
      <4>2. result[c] = None
        BY <3>1, <4>1
      <4>3. /\ \A s \in DOMAIN Structs : typeCache[s] # None => typeCache[s] \in Calls /\ typeCache[s] # c
            /\ \A d \in Calls : result[d] # None => result[d] \in Calls /\ result[d] # c
        BY <3>1, <4>2, CacheAssumption DEF Made
      <4>4. QED
        BY <3>1, <4>1, <4>3 DEF Made
    <3>4. CASE Miss(c) \/ Skip(c) \/ Embed(c) \/ Collect(c) \/ Leave(c)
      <4>1. UNCHANGED <<result, typeCache>>
        BY <3>4 DEF Miss, Skip, Embed, Collect, Leave
      <4>2. QED
        BY <3>1, <4>1 DEF Made
    <3>5. QED
      BY <1>2, <3>2, <3>3, <3>4 DEF CachedFields
  <2>2. QED
    BY <1>1, <1>2, <2>1, OthersRight, OwnRight DEF CInv
<1>3. CASE UNCHANGED vars
  <2>1. UNCHANGED <<type, pc, work, table, result, typeCache>>
    BY <1>3 DEF vars
  <2>2. Made' /\ \A c \in Calls : RightCall(c)'
    BY <2>1 DEF CInv, Made, RightCall
  <2>3. QED
    BY <1>1, <2>1, <2>2 DEF CInv
<1>4. QED
  BY <1>2, <1>3 DEF Next

(* Whatever calls race for a type, each of them returns all its fields.     *)
THEOREM CompleteCorrect == Spec => []Complete
<1>1. CInv => Complete
  <2> SUFFICES ASSUME CInv, NEW c \in Calls, pc[c] = "done"
               PROVE  LET t == table[result[c]]
                      IN t.ordered = All(type[c]) /\ IsTable(t.fields, t.ordered)
    BY DEF Complete
  <2>1. result[c] \in Calls /\ type[result[c]] = type[c] /\ result[result[c]] = result[c]
    BY DEF CInv, IInv, TypeOK, Published, Finished, Made
  <2>2. RightCall(result[c])
    BY <2>1 DEF CInv
  <2>3. QED
    BY <2>1, <2>2 DEF RightCall, Right
<1>2. QED
  BY InitCInv, NextCInv, <1>1, PTL DEF Spec

=============================================================================
