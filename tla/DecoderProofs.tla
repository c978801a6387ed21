--------------------------- MODULE DecoderProofs ----------------------------
(***************************************************************************)
(* Proofs about Decoder, for all values, Go types and options, and whatever *)
(* the conversions of scalars give: the one path that all calls of assign() *)
(* share is always where they are, and every error keeps a path of its own; *)
(* and Decode makes the assignment that Assigning describes, and reports    *)
(* its faults.                                                              *)
(*                                                                          *)
(* Each call in progress knows where its value is; the calls within it are  *)
(* one step further down, or at the same place behind a pointer.  Each      *)
(* makes one of the assignments of the call, the next one inside the one    *)
(* before: what its destination holds, which fields it has seen and what    *)
(* has been reported are always those of the items it is past.              *)
(*                                                                          *)
(* And that of a list of options, which Settings resolves, the last word    *)
(* on each counts.                                                          *)
(***************************************************************************)
EXTENDS Assigning, Settings, SequenceTheorems, WellFoundedInduction, TLAPS

-----------------------------------------------------------------------------
(* The memory of paths, for steps of any set S: what the path that is       *)
(* appended to holds after AppendKey(), AppendIndex(), Pop() and Clone(),   *)
(* which leave the arrays of all other paths alone.                         *)
Memory(m, S) ==
  /\ m \in [arrays : Seq(Seq(S)), at : Nat, len : Nat]
  /\ m.at \in 1..Len(m.arrays)
  /\ m.len \in 0..Len(m.arrays[m.at])

(* The slice e is one of m's, and not in the array that is appended to.     *)
Apart(m, e) == e.at \in 1..Len(m.arrays) /\ e.at # m.at /\ e.len \in 0..Len(m.arrays[e.at])

(* What the memory m becomes in the memory n leaves other paths alone.      *)
Leaves(m, n) ==
  \A e : Apart(m, e) => Apart(n, e) /\ Content(n, e) = Content(m, e)

-----------------------------------------------------------------------------
(* The content of a slice is a sequence of as many steps as it has. *)
LEMMA SliceType ==
  ASSUME NEW S, NEW a \in Seq(S), NEW l \in 0..Len(a)
  PROVE  /\ SubSeq(a, 1, l) \in Seq(S) /\ Len(SubSeq(a, 1, l)) = l
         /\ \A i \in 1..l : SubSeq(a, 1, l)[i] = a[i]
<1>1. Len(a) \in Nat /\ l \in Nat /\ l <= Len(a)
  BY LenProperties
<1>2. \A i \in 1..l : a[i] \in S
  BY <1>1, ElementOfSeq
<1>3. /\ SubSeq(a, 1, l) \in Seq(S)
      /\ Len(SubSeq(a, 1, l)) = IF 1 <= l THEN l - 1 + 1 ELSE 0
      /\ \A i \in 1..(l - 1 + 1) : SubSeq(a, 1, l)[i] = a[1 + i - 1]
  BY <1>1, <1>2, SubSeqProperties
<1>4. QED
  BY <1>1, <1>3

LEMMA OwnContent ==
  ASSUME NEW S, NEW m, Memory(m, S)
  PROVE  /\ m.arrays[m.at] \in Seq(S) /\ Len(m.arrays[m.at]) \in Nat
         /\ Content(m, m) \in Seq(S) /\ Len(Content(m, m)) = m.len
         /\ \A i \in 1..m.len : Content(m, m)[i] = m.arrays[m.at][i]
<1>1. m.arrays[m.at] \in Seq(S) /\ m.len \in 0..Len(m.arrays[m.at])
  BY ElementOfSeq DEF Memory
<1>2. QED
  BY <1>1, SliceType, LenProperties DEF Content

-----------------------------------------------------------------------------
(* Nothing is below the root. *)
LEMMA RootMemory ==
  ASSUME NEW S
  PROVE  Memory(RootPath, S) /\ Content(RootPath, RootPath) = <<>>
<1>1. << <<>> >> \in Seq(Seq(S)) /\ Len(<< <<>> >>) = 1
  OBVIOUS
<1>2. Memory(RootPath, S)
  BY <1>1 DEF Memory, RootPath
<1>3. Content(RootPath, RootPath) = <<>>
  BY SubSeqEmpty DEF Content, RootPath
<1>4. QED
  BY <1>2, <1>3

(* An array of m is replaced by b, which agrees with it up to m.len, has    *)
(* room for one more step, and has it there. *)
LEMMA PushedInPlace ==
  ASSUME NEW S, NEW m, Memory(m, S), NEW s \in S, m.len < Room(m)
  PROVE  /\ Memory(Pushed(m, s), S) /\ Leaves(m, Pushed(m, s))
         /\ Content(Pushed(m, s), Pushed(m, s)) = Append(Content(m, m), s)
<1> DEFINE a == m.arrays[m.at]
           b == [a EXCEPT ![m.len + 1] = s]
           n == Pushed(m, s)
<1>1. a \in Seq(S) /\ Len(a) \in Nat /\ m.len + 1 \in 1..Len(a)
  BY ElementOfSeq, LenProperties DEF Memory, Room
<1>2. b \in Seq(S) /\ Len(b) = Len(a) /\ \A i \in 1..Len(a) : b[i] = IF i = m.len + 1 THEN s ELSE a[i]
  BY <1>1, ExceptSeq
<1>3. n = [arrays |-> [m.arrays EXCEPT ![m.at] = b], at |-> m.at, len |-> m.len + 1]
  BY DEF Memory, Pushed
<1> HIDE DEF b
<1>4. /\ n.arrays \in Seq(Seq(S)) /\ Len(n.arrays) = Len(m.arrays)
      /\ \A i \in 1..Len(m.arrays) : n.arrays[i] = IF i = m.at THEN b ELSE m.arrays[i]
  BY <1>2, <1>3, ExceptSeq DEF Memory
<1>5. Memory(n, S)
  BY <1>1, <1>2, <1>3, <1>4 DEF Memory
<1>6. Leaves(m, n)
  <2>1. n.at = m.at
    BY <1>3
  <2> HIDE DEF n, a
  <2>2. ASSUME NEW e, Apart(m, e) PROVE Apart(n, e) /\ Content(n, e) = Content(m, e)
    <3>1. e.at \in 1..Len(m.arrays) /\ e.at # m.at /\ e.len \in 0..Len(m.arrays[e.at])
      BY <2>2 DEF Apart
    <3>2. n.arrays[e.at] = m.arrays[e.at]
      BY <1>4, <3>1
    <3>3. QED
      BY <1>4, <2>1, <3>1, <3>2 DEF Apart, Content
  <2>3. QED
    BY <2>2 DEF Leaves
<1>7. Content(n, n) = Append(Content(m, m), s)
  <2>1. /\ Content(m, m) \in Seq(S) /\ Len(Content(m, m)) = m.len
        /\ \A i \in 1..m.len : Content(m, m)[i] = a[i]
    BY OwnContent
  <2>0. n.len = m.len + 1 /\ n.arrays[n.at] = b
    BY <1>3, <1>4 DEF Memory
  <2>2. /\ Content(n, n) \in Seq(S) /\ Len(Content(n, n)) = m.len + 1
        /\ \A i \in 1..(m.len + 1) : Content(n, n)[i] = b[i]
    BY <1>3, <1>4, <1>5, <2>0, OwnContent
  <2>3. /\ Append(Content(m, m), s) \in Seq(S) /\ Len(Append(Content(m, m), s)) = m.len + 1
        /\ \A i \in 1..m.len : Append(Content(m, m), s)[i] = Content(m, m)[i]
        /\ Append(Content(m, m), s)[m.len + 1] = s
    BY <2>1, AppendProperties
  <2>4. \A i \in 1..(m.len + 1) : b[i] = IF i = m.len + 1 THEN s ELSE a[i]
    BY <1>1, <1>2
  <2>5. \A i \in 1..(m.len + 1) : Content(n, n)[i] = Append(Content(m, m), s)[i]
    <3> TAKE i \in 1..(m.len + 1)
    <3>1. CASE i = m.len + 1
      BY <3>1, <2>2, <2>3, <2>4
    <3>2. CASE i # m.len + 1
      <4>1. i \in 1..m.len
        BY <3>2 DEF Memory
      <4>2. QED
        BY <3>2, <4>1, <2>1, <2>2, <2>3, <2>4
    <3>3. QED
      BY <3>1, <3>2
  <2>6. QED
    BY <2>2, <2>3, <2>5, SeqEqual
<1>8. QED
  BY <1>5, <1>6, <1>7

(* A full array is left to the paths that share it. *)
LEMMA PushedIntoNew ==
  ASSUME NEW S, NEW m, Memory(m, S), NEW s \in S, ZeroStep \in S, ~ m.len < Room(m)
  PROVE  /\ Memory(Pushed(m, s), S) /\ Leaves(m, Pushed(m, s))
         /\ Content(Pushed(m, s), Pushed(m, s)) = Append(Content(m, m), s)
<1> DEFINE a == m.arrays[m.at]
           b == [i \in 1..Grown(m.len) |->
                   IF i <= m.len THEN a[i] ELSE IF i = m.len + 1 THEN s ELSE ZeroStep]
           n == Pushed(m, s)
<1>1. a \in Seq(S) /\ Len(a) \in Nat /\ m.len = Len(a)
  BY OwnContent DEF Memory, Room
<1>2. Grown(m.len) \in Nat /\ Grown(m.len) >= m.len + 1
  BY <1>1 DEF Grown
<1>3. \A i \in 1..Len(a) : a[i] \in S
  BY <1>1, ElementOfSeq
<1>4. b \in Seq(S) /\ Len(b) = Grown(m.len)
  <2>1. \A i \in 1..Grown(m.len) : (IF i <= m.len THEN a[i] ELSE IF i = m.len + 1 THEN s ELSE ZeroStep) \in S
    BY <1>1, <1>2, <1>3
  <2>2. b \in [1..Grown(m.len) -> S]
    BY <2>1
  <2>3. QED
    BY <1>2, <2>2
<1>5. n = [arrays |-> Append(m.arrays, b), at |-> Len(m.arrays) + 1, len |-> m.len + 1]
  BY DEF Pushed
<1>6. /\ n.arrays \in Seq(Seq(S)) /\ Len(n.arrays) = Len(m.arrays) + 1
      /\ \A i \in 1..Len(m.arrays) : n.arrays[i] = m.arrays[i]
      /\ n.arrays[Len(m.arrays) + 1] = b
      /\ Len(m.arrays) \in Nat
  <2> HIDE DEF b
  <2>1. m.arrays \in Seq(Seq(S)) /\ Len(m.arrays) \in Nat
    BY LenProperties DEF Memory
  <2>2. n.arrays = Append(m.arrays, b)
    BY <1>5
  <2>3. QED
    BY <1>4, <2>1, <2>2, AppendProperties
<1>7. n.at = Len(m.arrays) + 1 /\ n.len = m.len + 1 /\ n.arrays[n.at] = b
  BY <1>5, <1>6
<1>8. Memory(n, S)
  BY <1>1, <1>2, <1>4, <1>5, <1>6, <1>7 DEF Memory
<1>9. Leaves(m, n)
  <2> HIDE DEF n
  <2> SUFFICES ASSUME NEW e, Apart(m, e) PROVE Apart(n, e) /\ Content(n, e) = Content(m, e)
    BY DEF Leaves
  <2>1. e.at \in 1..Len(m.arrays) /\ e.at # n.at /\ e.at \in 1..Len(n.arrays) /\ n.arrays[e.at] = m.arrays[e.at]
    BY <1>6, <1>7 DEF Apart
  <2>2. QED
    BY <2>1 DEF Apart, Content
<1>10. Content(n, n) = Append(Content(m, m), s)
  <2>1. /\ Content(m, m) \in Seq(S) /\ Len(Content(m, m)) = m.len
        /\ \A i \in 1..m.len : Content(m, m)[i] = a[i]
    BY OwnContent
  <2>2. /\ Content(n, n) \in Seq(S) /\ Len(Content(n, n)) = m.len + 1
        /\ \A i \in 1..(m.len + 1) : Content(n, n)[i] = b[i]
    BY <1>7, <1>8, OwnContent, Zenon
  <2>3. /\ Append(Content(m, m), s) \in Seq(S) /\ Len(Append(Content(m, m), s)) = m.len + 1
        /\ \A i \in 1..m.len : Append(Content(m, m), s)[i] = Content(m, m)[i]
        /\ Append(Content(m, m), s)[m.len + 1] = s
    BY <2>1, AppendProperties
  <2>4. \A i \in 1..(m.len + 1) : b[i] = IF i = m.len + 1 THEN s ELSE a[i]
    BY <1>1, <1>2
  <2>5. \A i \in 1..(m.len + 1) : Content(n, n)[i] = Append(Content(m, m), s)[i]
    <3> HIDE DEF b
    <3> TAKE i \in 1..(m.len + 1)
    <3>1. CASE i = m.len + 1
      BY <3>1, <2>2, <2>3, <2>4
    <3>2. CASE i # m.len + 1
      <4>1. i \in 1..m.len
        BY <3>2 DEF Memory
      <4>2. QED
        BY <3>2, <4>1, <2>1, <2>2, <2>3, <2>4
    <3>3. QED
      BY <3>1, <3>2
  <2>6. QED
    BY <2>2, <2>3, <2>5, SeqEqual
<1>11. QED
  BY <1>8, <1>9, <1>10

(* AppendKey() and AppendIndex() put the step after all others and change   *)
(* no path that shares no array with the one they append to.                *)
LEMMA PushedMemory ==
  ASSUME NEW S, NEW m, Memory(m, S), NEW s \in S, ZeroStep \in S
  PROVE  /\ Memory(Pushed(m, s), S) /\ Leaves(m, Pushed(m, s))
         /\ Content(Pushed(m, s), Pushed(m, s)) = Append(Content(m, m), s)
<1>1. CASE m.len < Room(m)
  BY <1>1, PushedInPlace
<1>2. CASE ~ m.len < Room(m)
  BY <1>2, PushedIntoNew
<1>3. QED
  BY <1>1, <1>2

(* Pop() takes back what was appended last. *)
LEMMA PoppedMemory ==
  ASSUME NEW S, NEW m, Memory(m, S), NEW before \in Seq(S), NEW s \in S,
         Content(m, m) = Append(before, s)
  PROVE  /\ Memory(Popped(m), S) /\ Leaves(m, Popped(m))
         /\ Content(Popped(m), Popped(m)) = before
<1> DEFINE n == Popped(m)
<1>1. /\ Content(m, m) \in Seq(S) /\ Len(Content(m, m)) = m.len
      /\ \A i \in 1..m.len : Content(m, m)[i] = m.arrays[m.at][i]
  BY OwnContent
<1>2. /\ Len(before) \in Nat /\ m.len = Len(before) + 1
      /\ \A i \in 1..Len(before) : Content(m, m)[i] = before[i]
  BY <1>1, AppendProperties, LenProperties
<1>3. n = [arrays |-> m.arrays, at |-> m.at, len |-> Len(before)]
  <2>1. n = [m EXCEPT !.len = m.len - 1] /\ m.len - 1 = Len(before)
    BY <1>2 DEF Popped
  <2>2. \A x : [m EXCEPT !.len = x] = [arrays |-> m.arrays, at |-> m.at, len |-> x]
    <3>1. m \in [arrays : Seq(Seq(S)), at : Nat, len : Nat]
      BY DEF Memory
    <3>2. QED
      BY <3>1
  <2>3. QED
    BY <2>1, <2>2, Zenon
<1>4. Memory(n, S)
  BY <1>2, <1>3 DEF Memory
<1>5. Leaves(m, n)
  BY <1>3 DEF Leaves, Apart, Content
<1>6. Content(n, n) = before
  <2>1. /\ Content(n, n) \in Seq(S) /\ Len(Content(n, n)) = Len(before)
        /\ \A i \in 1..Len(before) : Content(n, n)[i] = m.arrays[m.at][i]
    BY <1>3, <1>4, OwnContent
  <2>2. \A i \in 1..Len(before) : Content(n, n)[i] = before[i]
    BY <1>1, <1>2, <2>1
  <2>3. QED
    BY <2>1, <2>2, SeqEqual
<1>7. QED
  BY <1>4, <1>5, <1>6

(* Clone() makes a path with the content of now that is apart from the one  *)
(* that is appended to, which it does not change. *)
LEMMA ClonedMemory ==
  ASSUME NEW S, NEW m, Memory(m, S)
  PROVE  /\ Memory(Cloned(m), S) /\ Leaves(m, Cloned(m))
         /\ Content(Cloned(m), Cloned(m)) = Content(m, m)
         /\ \A e : e.at = Copy(m).at /\ e.len = Copy(m).len =>
              Apart(Cloned(m), e) /\ Content(Cloned(m), e) = Content(m, m)
<1> DEFINE a == m.arrays[m.at]
           b == SubSeq(a, 1, m.len)
           n == Cloned(m)
<1>1. b = Content(m, m)
  BY DEF Content
<1>2. b \in Seq(S) /\ Len(b) = m.len /\ m.len \in Nat
  BY <1>1, OwnContent DEF Memory
<1> HIDE DEF b
<1>3. m.arrays \in Seq(Seq(S)) /\ Len(m.arrays) \in Nat
  BY LenProperties DEF Memory
<1>4. n = [arrays |-> Append(m.arrays, b), at |-> m.at, len |-> m.len]
  <2>1. n = [m EXCEPT !.arrays = Append(m.arrays, b)]
    BY DEF Cloned, b
  <2>2. \A x : [m EXCEPT !.arrays = x] = [arrays |-> x, at |-> m.at, len |-> m.len]
    BY DEF Memory
  <2>3. QED
    BY <2>1, <2>2, Zenon
<1>5. /\ n.arrays \in Seq(Seq(S)) /\ Len(n.arrays) = Len(m.arrays) + 1
      /\ \A i \in 1..Len(m.arrays) : n.arrays[i] = m.arrays[i]
      /\ n.arrays[Len(m.arrays) + 1] = b
  BY <1>2, <1>3, <1>4, AppendProperties
<1>6. Memory(n, S)
  BY <1>3, <1>4, <1>5 DEF Memory
<1>7. Leaves(m, n)
  BY <1>3, <1>4, <1>5 DEF Leaves, Apart, Content
<1>8. Content(n, n) = Content(m, m)
  BY <1>4, <1>5 DEF Memory, Content
<1>9. ASSUME NEW e, e.at = Copy(m).at, e.len = Copy(m).len
      PROVE  Apart(n, e) /\ Content(n, e) = Content(m, m)
  <2>1. e.at = Len(m.arrays) + 1 /\ e.len = m.len
    BY <1>9 DEF Copy
  <2>2. Apart(n, e)
    BY <1>2, <1>3, <1>4, <1>5, <2>1 DEF Apart, Memory
  <2>3. Content(n, e) = SubSeq(b, 1, Len(b))
    BY <1>2, <1>5, <2>1 DEF Content
  <2>4. QED
    BY <1>1, <1>2, <2>2, <2>3, SubSeqFull
<1>10. QED
  BY <1>6, <1>7, <1>8, <1>9

-----------------------------------------------------------------------------
(* The calls of the decoder. *)
Steps == [key : Keys \cup {<<>>}, index : Int, isKey : BOOLEAN]
Codes == {"ETypeMismatch", "EUser", "EUnknownField", "ERequiredField", "ECoercion", "EOverflow"}
Errors == [code : Codes, at : Nat, len : Nat, place : Seq(Steps), source : Values]

(* A call in progress, and the place of the calls within it.                *)
FrameOK(f) ==
  /\ f = [src |-> f.src, typ |-> f.typ, made |-> f.made, k |-> f.k, seen |-> f.seen, where |-> f.where]
  /\ f.src \in Values /\ f.typ \in DOMAIN Types /\ f.k \in Nat \ {0} /\ f.where \in Seq(Steps)
  /\ Types[f.typ].kind \in Containers \cup {"pointer"}

Within(f)  == IF Types[f.typ].kind = "pointer" THEN f.where ELSE Append(f.where, StepTo(f.src, f.k))
InRange(f) == Types[f.typ].kind # "pointer" => f.k <= Len(f.src.kids)

(* The stack s is a sequence, of whatever its items are, and each call is   *)
(* where the one before it has got to. *)
Listed(s)  == s \in Seq({s[i] : i \in 1..Len(s)})
Linked(s) ==
  \A i \in 1..Len(s) : /\ FrameOK(s[i])
                       /\ s[i].where = IF i = 1 THEN <<>> ELSE Within(s[i - 1])
                       /\ i < Len(s) => InRange(s[i])
Calling(s) == Listed(s) /\ Linked(s)
Reached(s) == IF s = <<>> THEN <<>> ELSE Within(s[Len(s)])

(* Each error of es has a slice of the memory m that nobody appends to.     *)
ErrsOK(m, es) ==
  /\ es \in Seq(Errors)
  /\ \A i \in 1..Len(es) : Apart(m, es[i]) /\ Content(m, es[i]) = es[i].place

Args == call \in Calls /\ src \in Values /\ typ \in DOMAIN Types

Control ==
  /\ pc \in {"start", "assign", "loop", "return", "done"}
  /\ pc \in {"start", "done"} => stack = <<>> /\ where = <<>>
  /\ pc \in {"assign", "return"} => where = Reached(stack) /\ (stack # <<>> => InRange(Top))
  /\ pc = "loop" => stack # <<>> /\ Whole.kind \in Containers /\ where = Top.where

Paths == Memory(paths, Steps) /\ Content(paths, paths) = where /\ ErrsOK(paths, errs)

IInv == Args /\ Control /\ Calling(stack) /\ where \in Seq(Steps) /\ Paths

-----------------------------------------------------------------------------
(* The steps that the decoder takes are of the path's set of steps.         *)
LEMMA StepTypes ==
  /\ ZeroStep \in Steps
  /\ \A k \in Keys : KeyStep(k) \in Steps
  /\ \A v \in Values : \A k \in 1..Len(v.kids) : StepTo(v, k) \in Steps /\ v.kids[k] \in Values
<1>1. ZeroStep \in Steps /\ \A k \in Keys : KeyStep(k) \in Steps
  BY DEF ZeroStep, IndexStep, KeyStep, Steps
<1>2. ASSUME NEW v \in Values, NEW k \in 1..Len(v.kids)
      PROVE  StepTo(v, k) \in Steps /\ v.kids[k] \in Values
  <2>1. /\ v.kids \in Seq(Values) /\ v.keys \in Seq(Keys)
        /\ v.kind = "object" => Len(v.keys) = Len(v.kids)
    BY ValueAssumption
  <2>2. v.kids[k] \in Values /\ Len(v.kids) \in Nat /\ k \in Nat
    BY <2>1, ElementOfSeq, LenProperties
  <2>3. CASE v.kind = "object"
    <3>1. v.keys[k] \in Keys
      BY <2>1, <2>3, ElementOfSeq
    <3>2. QED
      BY <1>1, <2>2, <2>3, <3>1 DEF StepTo
  <2>4. CASE v.kind # "object"
    BY <2>2, <2>4 DEF StepTo, IndexStep, Steps
  <2>5. QED
    BY <2>3, <2>4
<1>3. QED
  BY <1>1, <1>2

(* What is appended to a sequence, whatever it is, is its last item.        *)
LEMMA AppendListed ==
  ASSUME NEW s, Listed(s), NEW x
  PROVE  /\ Len(s) \in Nat /\ Listed(Append(s, x)) /\ Len(Append(s, x)) = Len(s) + 1
         /\ Append(s, x)[Len(s) + 1] = x /\ \A i \in 1..Len(s) : Append(s, x)[i] = s[i]
         /\ Append(s, x) # <<>>
<1> DEFINE R == {s[i] : i \in 1..Len(s)}
           T == R \cup {x}
           t == Append(s, x)
<1>1. s \in Seq(T) /\ x \in T
  BY SeqMonotonic DEF Listed
<1>2. /\ Len(s) \in Nat /\ t \in Seq(T) /\ t # <<>> /\ Len(t) = Len(s) + 1
      /\ \A i \in 1..Len(s) : t[i] = s[i]
      /\ t[Len(s) + 1] = x
  <2> HIDE DEF T
  <2>1. QED
    BY <1>1, AppendProperties, LenProperties
<1>3. t \in Seq({t[i] : i \in 1..Len(t)})
  <2> HIDE DEF T, t
  <2>1. Len(t) \in Nat /\ t \in [1..Len(t) -> T]
    BY <1>2, LenProperties
  <2>2. t \in [1..Len(t) -> {t[i] : i \in 1..Len(t)}]
    BY <2>1
  <2>3. QED
    BY <2>1, <2>2
<1>4. QED
  BY <1>2, <1>3 DEF Listed

LEMMA LastListed ==
  ASSUME NEW s, Listed(s), s # <<>>, NEW x
  PROVE  LET t == [s EXCEPT ![Len(s)] = x] IN
         /\ Len(s) \in Nat \ {0} /\ Listed(t) /\ Len(t) = Len(s) /\ t # <<>>
         /\ t[Len(s)] = x /\ \A i \in 1..(Len(s) - 1) : t[i] = s[i]
<1> DEFINE R == {s[i] : i \in 1..Len(s)}
           T == R \cup {x}
           t == [s EXCEPT ![Len(s)] = x]
<1>1. s \in Seq(T) /\ x \in T
  BY SeqMonotonic DEF Listed
<1>2. /\ Len(s) \in Nat \ {0} /\ t \in Seq(T) /\ Len(t) = Len(s)
      /\ \A i \in 1..Len(s) : t[i] = IF i = Len(s) THEN x ELSE s[i]
  <2> HIDE DEF T
  <2>1. Len(s) \in Nat \ {0}
    BY <1>1, EmptySeq
  <2>2. Len(s) \in 1..Len(s)
    BY <2>1
  <2>3. QED
    BY <1>1, <2>1, <2>2, ExceptSeq
<1>3. t \in Seq({t[i] : i \in 1..Len(t)})
  <2> HIDE DEF T, t
  <2>1. Len(t) \in Nat /\ t \in [1..Len(t) -> T]
    BY <1>2, LenProperties
  <2>2. t \in [1..Len(t) -> {t[i] : i \in 1..Len(t)}]
    BY <2>1
  <2>3. QED
    BY <2>1, <2>2
<1>4. t # <<>>
  BY <1>2, EmptySeq
<1>5. QED
  <2> HIDE DEF t
  <2>1. t[Len(s)] = x /\ \A i \in 1..(Len(s) - 1) : t[i] = s[i]
    BY <1>2
  <2>2. QED
    BY <1>2, <1>3, <1>4, <2>1 DEF Listed, t

LEMMA PopListed ==
  ASSUME NEW s, Listed(s), s # <<>>
  PROVE  /\ Len(s) \in Nat \ {0} /\ Listed(Pop(s)) /\ Len(Pop(s)) = Len(s) - 1
         /\ Pop(s) # <<>> <=> Len(s) > 1
         /\ \A i \in 1..(Len(s) - 1) : Pop(s)[i] = s[i]
<1> DEFINE R == {s[i] : i \in 1..Len(s)}
           t == Pop(s)
<1>1. s \in Seq(R)
  BY DEF Listed
<1> HIDE DEF R
<1>2. Len(s) \in Nat \ {0}
  BY <1>1, EmptySeq
<1>3. /\ t \in Seq(R) /\ Len(t) = Len(s) - 1
      /\ \A i \in 1..(Len(s) - 1) : t[i] = s[i]
  <2>1. Len(s) - 1 \in 0..Len(s)
    BY <1>2
  <2>2. QED
    BY <1>1, <2>1, SliceType DEF Pop
<1>4. t \in Seq({t[i] : i \in 1..Len(t)})
  <2> HIDE DEF t
  <2>1. Len(t) \in Nat /\ t \in [1..Len(t) -> R]
    BY <1>3, LenProperties
  <2>2. t \in [1..Len(t) -> {t[i] : i \in 1..Len(t)}]
    BY <2>1
  <2>3. QED
    BY <2>1, <2>2
<1>5. t # <<>> <=> Len(s) > 1
  <2> HIDE DEF t
  <2>1. QED
    BY <1>2, <1>3, EmptySeq
<1>6. QED
  BY <1>2, <1>3, <1>4, <1>5 DEF Listed

-----------------------------------------------------------------------------
(* The innermost call is one; so is what a call adds, changes or removes.   *)
LEMMA TopCall ==
  ASSUME NEW s, Calling(s), s # <<>>
  PROVE  Len(s) \in 1..Len(s) /\ FrameOK(s[Len(s)])
<1>1. Len(s) \in Nat \ {0}
  BY PopListed DEF Calling
<1>2. QED
  BY <1>1 DEF Calling, Linked

LEMMA PushCall ==
  ASSUME NEW s, Calling(s), s # <<>> => InRange(s[Len(s)]),
         NEW f, FrameOK(f), f.where = Reached(s)
  PROVE  LET t == Append(s, f) IN Calling(t) /\ t # <<>> /\ t[Len(t)] = f
<1> DEFINE t == Append(s, f)
<1>1. /\ Len(s) \in Nat /\ Listed(t) /\ Len(t) = Len(s) + 1
      /\ t[Len(s) + 1] = f /\ \A i \in 1..Len(s) : t[i] = s[i]
      /\ t # <<>>
  BY AppendListed DEF Calling
<1>2. Len(s) = 0 <=> s = <<>>
  BY EmptySeq DEF Calling, Listed
<1> HIDE DEF t
<1>3. ASSUME NEW i \in 1..Len(t)
      PROVE  /\ FrameOK(t[i])
             /\ t[i].where = IF i = 1 THEN <<>> ELSE Within(t[i - 1])
             /\ i < Len(t) => InRange(t[i])
  <2>1. CASE i = Len(s) + 1
    <3>1. t[i] = f /\ ~ i < Len(t)
      BY <1>1, <2>1
    <3>2. i = 1 => f.where = <<>>
      BY <1>1, <1>2, <2>1 DEF Reached
    <3>3. i # 1 => t[i - 1] = s[Len(s)] /\ f.where = Within(s[Len(s)])
      BY <1>1, <1>2, <2>1 DEF Reached
    <3>4. QED
      BY <3>1, <3>2, <3>3
  <2>2. CASE i # Len(s) + 1
    <3>1. i \in 1..Len(s) /\ t[i] = s[i] /\ (i # 1 => t[i - 1] = s[i - 1])
      BY <1>1, <2>2
    <3>2. i < Len(s) \/ (i = Len(s) /\ s # <<>>)
      BY <1>1, <1>2, <3>1
    <3>3. QED
      BY <3>1, <3>2 DEF Calling, Linked
  <2>3. QED
    BY <2>1, <2>2
<1>4. QED
  BY <1>1, <1>3 DEF Calling, Linked, t

LEMMA SetCall ==
  ASSUME NEW s, Calling(s), s # <<>>, NEW f, FrameOK(f), f.where = s[Len(s)].where
  PROVE  LET t == [s EXCEPT ![Len(s)] = f] IN Calling(t) /\ t # <<>> /\ t[Len(t)] = f
<1> DEFINE t == [s EXCEPT ![Len(s)] = f]
<1>1. /\ Len(s) \in Nat \ {0} /\ Listed(t) /\ Len(t) = Len(s) /\ t # <<>>
      /\ t[Len(s)] = f /\ \A i \in 1..(Len(s) - 1) : t[i] = s[i]
  BY LastListed DEF Calling
<1> HIDE DEF t
<1>2. ASSUME NEW i \in 1..Len(t)
      PROVE  /\ FrameOK(t[i])
             /\ t[i].where = IF i = 1 THEN <<>> ELSE Within(t[i - 1])
             /\ i < Len(t) => InRange(t[i])
  <2>1. /\ i \in 1..Len(s) /\ t[i].where = s[i].where /\ FrameOK(t[i])
        /\ i # 1 => t[i - 1] = s[i - 1]
        /\ i < Len(t) => t[i] = s[i]
    <3>1. CASE i = Len(s)
      BY <1>1, <3>1
    <3>2. CASE i # Len(s)
      BY <1>1, <3>2 DEF Calling, Linked
    <3>3. QED
      BY <3>1, <3>2
  <2>2. QED
    BY <1>1, <2>1 DEF Calling, Linked
<1>3. QED
  BY <1>1, <1>2 DEF Calling, Linked, t

LEMMA PopCall ==
  ASSUME NEW s, Calling(s), s # <<>>
  PROVE  LET t == Pop(s) IN
         /\ Calling(t) /\ Reached(t) = s[Len(s)].where
         /\ t # <<>> => InRange(t[Len(t)])
<1> DEFINE t == Pop(s)
<1>1. /\ Len(s) \in Nat \ {0} /\ Listed(t) /\ Len(t) = Len(s) - 1
      /\ t # <<>> <=> Len(s) > 1
      /\ \A i \in 1..(Len(s) - 1) : t[i] = s[i]
  BY PopListed DEF Calling
<1> HIDE DEF t
<1>2. ASSUME NEW i \in 1..Len(t)
      PROVE  /\ FrameOK(t[i])
             /\ t[i].where = IF i = 1 THEN <<>> ELSE Within(t[i - 1])
             /\ InRange(t[i])
  <2>1. /\ i \in 1..Len(s) /\ i < Len(s) /\ t[i] = s[i]
        /\ i # 1 => t[i - 1] = s[i - 1]
    BY <1>1
  <2>2. QED
    BY <2>1 DEF Calling, Linked
<1>3. Calling(t) /\ (t # <<>> => InRange(t[Len(t)]))
  BY <1>1, <1>2 DEF Calling, Linked
<1>4. Reached(t) = s[Len(s)].where
  <2>1. /\ Len(s) \in 1..Len(s)
        /\ s[Len(s)].where = IF Len(s) = 1 THEN <<>> ELSE Within(s[Len(s) - 1])
    BY <1>1 DEF Calling, Linked
  <2>2. CASE Len(s) = 1
    BY <1>1, <2>1, <2>2 DEF Reached
  <2>3. CASE Len(s) # 1
    <3>1. t # <<>> /\ t[Len(t)] = s[Len(s) - 1]
      BY <1>1, <2>3
    <3>2. QED
      BY <2>1, <2>3, <3>1 DEF Reached
  <2>4. QED
    BY <2>2, <2>3
<1>5. QED
  BY <1>3, <1>4 DEF t

-----------------------------------------------------------------------------
(* An error keeps its path as long as the memory changes in no other way    *)
(* than by AppendKey(), AppendIndex(), Pop() and Clone(). *)
LEMMA ErrsKept ==
  ASSUME NEW m, NEW n, NEW es, ErrsOK(m, es), Leaves(m, n)
  PROVE  ErrsOK(n, es)
BY DEF ErrsOK, Leaves

LEMMA ErrAdded ==
  ASSUME NEW m, Memory(m, Steps), NEW es, ErrsOK(m, es), NEW code \in Codes, NEW v \in Values
  PROVE  LET n == Cloned(m)
             place == Content(m, m) IN
         /\ Memory(n, Steps) /\ Content(n, n) = place /\ place \in Seq(Steps)
         /\ ErrsOK(n, Append(es, OnPath(code, m, place, v)))
<1> DEFINE n == Cloned(m)
           place == Content(m, m)
           e == OnPath(code, m, place, v)
<1>1. Memory(n, Steps) /\ Leaves(m, n) /\ Content(n, n) = place
  BY ClonedMemory
<1>2. place \in Seq(Steps)
  BY OwnContent
<1>3. e.at = Copy(m).at /\ e.len = Copy(m).len /\ e.place = place
  BY DEF OnPath
<1>4. Apart(n, e) /\ Content(n, e) = e.place
  <2> HIDE DEF n, e, place
  <2>1. \A x : x.at = Copy(m).at /\ x.len = Copy(m).len => Apart(n, x) /\ Content(n, x) = place
    BY ClonedMemory DEF n, place
  <2>2. QED
    BY <1>3, <2>1
<1>5. e \in Errors
  <2>1. Len(m.arrays) \in Nat /\ m.len \in Nat
    BY LenProperties DEF Memory
  <2>2. QED
    BY <1>2, <2>1 DEF OnPath, Errors, Copy
<1>6. ErrsOK(n, es)
  BY <1>1, ErrsKept
<1>7. ErrsOK(n, Append(es, e))
  <2> HIDE DEF n, e
  <2>1. es \in Seq(Errors) /\ \A i \in 1..Len(es) : Apart(n, es[i]) /\ Content(n, es[i]) = es[i].place
    BY <1>6 DEF ErrsOK
  <2>2. /\ Append(es, e) \in Seq(Errors) /\ Len(es) \in Nat /\ Len(Append(es, e)) = Len(es) + 1
        /\ \A i \in 1..Len(es) : Append(es, e)[i] = es[i]
        /\ Append(es, e)[Len(es) + 1] = e
    BY <1>5, <2>1, AppendProperties, LenProperties
  <2>3. \A i \in 1..Len(Append(es, e)) : i \in 1..Len(es) \/ i = Len(es) + 1
    BY <2>2
  <2>4. QED
    BY <1>4, <2>1, <2>2, <2>3 DEF ErrsOK
<1>8. QED
  BY <1>1, <1>2, <1>7

(* No error yet. *)
LEMMA NoErrors == \A m : ErrsOK(m, <<>>)
BY DEF ErrsOK

-----------------------------------------------------------------------------
(* One lemma per way in which a step changes the state.                     *)
LEMMA InitHolds == Init => IInv
<1> SUFFICES ASSUME Init PROVE IInv
  OBVIOUS
<1>1. Args
  BY DecoderAssumption DEF Args, Init, Begins
<1>2. Control
  BY DEF Control, Init, Begins
<1>3. Calling(stack) /\ where \in Seq(Steps)
  BY EmptySeq DEF Calling, Listed, Linked, Init, Begins
<1>4. Paths
  BY RootMemory, NoErrors DEF Paths, Init, Begins
<1>5. QED
  BY <1>1, <1>2, <1>3, <1>4 DEF IInv

(* assign() returns, with or without an error. *)
LEMMA Returns == ASSUME IInv, pc = "assign", NEW x, Return(x) PROVE IInv'
BY DEF IInv, Args, Control, Paths, Return, Top, Whole

LEMMA Blames == ASSUME IInv, pc = "assign", NEW code \in Codes, Blame(code) PROVE IInv'
<1>1. Memory(paths, Steps) /\ ErrsOK(paths, errs) /\ where = Content(paths, paths) /\ src \in Values
  BY DEF IInv, Args, Paths
<1>2. paths' = Cloned(paths) /\ errs' = Append(errs, OnPath(code, paths, where, src)) /\ where' = where
  BY DEF Blame
<1>3. Paths' /\ where' \in Seq(Steps)
  BY <1>1, <1>2, ErrAdded DEF Paths
<1>4. Args' /\ Control' /\ Calling(stack)'
  BY DEF IInv, Args, Control, Blame, Top, Whole
<1>5. QED
  BY <1>3, <1>4 DEF IInv

(* Decode() begins, and ends with at most one more error. *)
LEMMA Ends ==
  ASSUME IInv, pc \in {"start", "return"}, stack = <<>>, where = <<>>, pc' = "done",
         NEW code \in Codes,
         \/ UNCHANGED <<errs, paths>>
         \/ errs' = <<OnPath(code, paths, where, src)>> /\ paths' = Cloned(paths),
         UNCHANGED <<call, src, typ, val, stack, where>>
  PROVE  IInv'
<1>1. Memory(paths, Steps) /\ where = Content(paths, paths) /\ src \in Values
  BY DEF IInv, Args, Paths
<1>2. ASSUME UNCHANGED <<errs, paths>> PROVE Paths'
  BY <1>2 DEF IInv, Paths
<1>3. ASSUME errs' = <<OnPath(code, paths, where, src)>> /\ paths' = Cloned(paths) PROVE Paths'
  <2>1. <<OnPath(code, paths, where, src)>> = Append(<<>>, OnPath(code, paths, where, src))
    OBVIOUS
  <2>2. ErrsOK(paths, <<>>)
    BY NoErrors
  <2>3. ErrsOK(paths', errs') /\ Memory(paths', Steps) /\ Content(paths', paths') = where'
    BY <1>1, <1>3, <2>1, <2>2, ErrAdded
  <2>4. QED
    BY <2>3 DEF Paths
<1>4. Paths'
  BY <1>2, <1>3
<1>5. Args' /\ Control' /\ Calling(stack)' /\ where' \in Seq(Steps)
  BY DEF IInv, Args, Control
<1>6. QED
  BY <1>4, <1>5 DEF IInv

(* A call begins: behind a pointer, or as the loop of a container.          *)
LEMMA CallBegins ==
  ASSUME IInv, Plain, NEW made, Kind \in Containers \cup {"pointer"},
         stack' = Append(stack, Frame(made)),
         \/ Kind = "pointer" /\ pc' = "assign" /\ src' = src /\ typ' = Types[typ].elem
         \/ Kind \in Containers /\ pc' = "loop" /\ src' = src /\ typ' = typ,
         UNCHANGED <<call, paths, errs, where>>
  PROVE  IInv'
<1> DEFINE f == Frame(made)
<1>1. /\ src \in Values /\ typ \in DOMAIN Types /\ where \in Seq(Steps)
      /\ where = Reached(stack) /\ Calling(stack)
      /\ stack # <<>> => InRange(stack[Len(stack)])
  BY DEF IInv, Args, Control, Plain, Top
<1>2. FrameOK(f) /\ f.where = where /\ f.typ = typ
  BY <1>1 DEF FrameOK, Frame, Kind
<1>3. Calling(stack') /\ stack' # <<>> /\ stack'[Len(stack')] = f
  <2>1. stack' = Append(stack, f)
    OBVIOUS
  <2> HIDE DEF f
  <2>2. f.where = Reached(stack)
    BY <1>1, <1>2
  <2>3. Calling(Append(stack, f)) /\ Append(stack, f) # <<>> /\ Append(stack, f)[Len(Append(stack, f))] = f
    BY <1>1, <1>2, <2>2, PushCall
  <2>4. QED
    BY <2>1, <2>3, Zenon
<1>4. Types[typ].kind = "pointer" => Types[typ].elem \in DOMAIN Types
  BY <1>1, DecoderAssumption
<1>5. Args'
  BY <1>4 DEF IInv, Args, Kind, Containers, Objects, Lists
<1>6. Control'
  <2>1. Top' = f /\ Reached(stack') = Within(f)
    BY <1>3 DEF Top, Reached
  <2>2. CASE Kind = "pointer"
    <3>1. pc' = "assign"
      BY <2>2 DEF Containers, Objects, Lists
    <3>2. Within(f) = where /\ InRange(f)
      BY <1>2, <2>2 DEF Within, InRange, Kind
    <3>3. QED
      BY <2>1, <3>1, <3>2 DEF Control
  <2>3. CASE Kind \in Containers
    <3>1. pc' = "loop"
      BY <2>3 DEF Containers, Objects, Lists
    <3>2. Whole'.kind = Kind
      BY <1>2, <2>1 DEF Whole, Kind
    <3>3. QED
      BY <1>2, <1>3, <2>1, <2>3, <3>1, <3>2 DEF Control
  <2>4. QED
    BY <2>2, <2>3
<1>7. QED
  BY <1>3, <1>5, <1>6 DEF IInv, Paths

(* A call ends: the value is the one that the call was about.               *)
LEMMA Pops ==
  ASSUME IInv, stack # <<>>, stack' = Pop(stack), where = Top.where,
         src' = Top.src, typ' = Top.typ, pc' = "return",
         UNCHANGED <<call, paths, errs, where>>
  PROVE  IInv'
<1>1. Calling(stack) /\ FrameOK(Top)
  BY TopCall DEF IInv, Top
<1>2. /\ Calling(stack') /\ Reached(stack') = Top.where
      /\ stack' # <<>> => InRange(stack'[Len(stack')])
  BY <1>1, PopCall DEF Top
<1>3. Args'
  BY <1>1 DEF IInv, Args, FrameOK
<1>4. Control'
  BY <1>2 DEF Control, Top
<1>5. QED
  BY <1>2, <1>3, <1>4 DEF IInv, Paths

(* In a loop the path leads to the container, and an item has a type.       *)
LEMMA LoopTop ==
  ASSUME IInv, pc = "loop"
  PROVE  /\ stack # <<>> /\ Calling(stack) /\ FrameOK(Top) /\ Whole.kind \in Containers
         /\ where = Top.where /\ where \in Seq(Steps)
         /\ Top.src \in Values /\ Top.k \in Nat \ {0} /\ Top.typ \in DOMAIN Types
<1>1. stack # <<>> /\ Calling(stack) /\ Whole.kind \in Containers /\ where = Top.where
  BY DEF IInv, Control
<1>2. FrameOK(Top)
  BY <1>1, TopCall DEF Top
<1>3. QED
  BY <1>1, <1>2 DEF IInv, FrameOK

LEMMA ItemTypes ==
  ASSUME IInv, Looping
  PROVE  /\ Top.k \in 1..Len(Top.src.kids)
         /\ NextStep \in Steps /\ Top.src.kids[Top.k] \in Values
         /\ (Whole.kind = "struct" => Field # 0) => ItemType \in DOMAIN Types
<1>1. /\ Top.src \in Values /\ Top.k \in Nat \ {0} /\ Top.typ \in DOMAIN Types
      /\ Whole.kind \in Containers
  BY LoopTop DEF Looping
<1>2. Len(Top.src.kids) \in Nat /\ Whole.length \in Nat
  BY <1>1, ValueAssumption, DecoderAssumption, LenProperties DEF Whole
<1>3. Top.k \in 1..Len(Top.src.kids)
  BY <1>1, <1>2 DEF Looping, Count
<1>4. NextStep \in Steps /\ Top.src.kids[Top.k] \in Values
  BY <1>1, <1>3, StepTypes DEF NextStep
<1>5. ASSUME Whole.kind = "struct", Field # 0 PROVE ItemType \in DOMAIN Types
  <2>1. /\ \A k \in DOMAIN Whole.table : Whole.table[k] \in 1..Len(Whole.ordered)
        /\ \A i \in 1..Len(Whole.ordered) : Whole.ordered[i].typ \in DOMAIN Types
    BY <1>1, DecoderAssumption DEF Whole
  <2>2. Field \in 1..Len(Whole.ordered)
    BY <1>5, <2>1 DEF Field, Found
  <2>3. QED
    BY <1>5, <2>1, <2>2 DEF ItemType
<1>6. ASSUME Whole.kind # "struct" PROVE ItemType \in DOMAIN Types
  <2>1. Whole.kind \in {"pointer", "map"} \cup Lists
    BY <1>1, <1>6 DEF Containers, Objects
  <2>2. QED
    BY <1>1, <1>6, <2>1, DecoderAssumption DEF ItemType, Whole
<1>7. QED
  BY <1>3, <1>4, <1>5, <1>6

(* The part of a call in progress that changes. *)
LEMMA FrameChanged ==
  ASSUME NEW f, FrameOK(f), NEW x, NEW k
  PROVE  /\ [f EXCEPT !.seen = x] =
              [src |-> f.src, typ |-> f.typ, made |-> f.made, k |-> f.k, seen |-> x, where |-> f.where]
         /\ [f EXCEPT !.made = x, !.k = k] =
              [src |-> f.src, typ |-> f.typ, made |-> x, k |-> k, seen |-> f.seen, where |-> f.where]
<1> DEFINE g == [f EXCEPT !.made = x]
<1>1. f = [src |-> f.src, typ |-> f.typ, made |-> f.made, k |-> f.k, seen |-> f.seen, where |-> f.where]
  BY DEF FrameOK
<1>2. [f EXCEPT !.seen = x] =
        [src |-> f.src, typ |-> f.typ, made |-> f.made, k |-> f.k, seen |-> x, where |-> f.where]
  BY <1>1
<1>3. g = [src |-> f.src, typ |-> f.typ, made |-> x, k |-> f.k, seen |-> f.seen, where |-> f.where]
  BY <1>1
<1>4. [f EXCEPT !.made = x, !.k = k] = [g EXCEPT !.k = k]
  BY <1>1
<1> HIDE DEF g
<1>5. /\ g.src = f.src /\ g.typ = f.typ /\ g.made = x /\ g.k = f.k /\ g.seen = f.seen
      /\ g.where = f.where
  BY <1>3
<1>6. g = [src |-> g.src, typ |-> g.typ, made |-> g.made, k |-> g.k, seen |-> g.seen, where |-> g.where]
  BY <1>3, <1>5
<1>7. [g EXCEPT !.k = k] =
        [src |-> g.src, typ |-> g.typ, made |-> g.made, k |-> k, seen |-> g.seen, where |-> g.where]
  BY <1>6
<1>8. QED
  BY <1>2, <1>4, <1>5, <1>7

LEMMA ItemBegins == ASSUME IInv, Item PROVE IInv'
<1> DEFINE f == [Top EXCEPT !.seen = @ \cup Seen]
<1>1. pc = "loop" /\ Looping
  BY DEF Item, Looping
<1>2. /\ stack # <<>> /\ Calling(stack) /\ FrameOK(Top) /\ Whole.kind \in Containers
      /\ where = Top.where /\ where \in Seq(Steps)
  BY <1>1, LoopTop
<1>3. /\ Top.k \in 1..Len(Top.src.kids)
      /\ NextStep \in Steps /\ src' \in Values /\ typ' \in DOMAIN Types
  BY <1>1, ItemTypes DEF Item
<1>4. f = [src |-> Top.src, typ |-> Top.typ, made |-> Top.made, k |-> Top.k,
           seen |-> Top.seen \cup Seen, where |-> Top.where]
  BY <1>2, FrameChanged
<1>5. stack' = [stack EXCEPT ![Len(stack)] = f]
  BY DEF Item, Top
<1> HIDE DEF f
<1>6. FrameOK(f)
  BY <1>4, <1>2 DEF FrameOK
<1>7. Calling(stack') /\ stack' # <<>> /\ stack'[Len(stack')] = f
  <2>1. f.where = stack[Len(stack)].where
    BY <1>4 DEF Top
  <2>2. LET t == [stack EXCEPT ![Len(stack)] = f] IN Calling(t) /\ t # <<>> /\ t[Len(t)] = f
    BY <1>2, <1>6, <2>1, SetCall
  <2>3. QED
    BY <1>5, <2>2, Zenon
<1>8. where' = Append(where, NextStep) /\ where' \in Seq(Steps)
  BY <1>2, <1>3, AppendProperties DEF Item
<1>9. Control'
  <2>1. Whole.kind # "pointer"
    BY <1>2 DEF Containers, Objects, Lists
  <2>2. InRange(f)
    BY <1>4, <1>3 DEF InRange
  <2>3. Reached(stack') = where'
    BY <1>4, <1>2, <1>7, <1>8, <2>1 DEF Reached, Within, NextStep, Whole
  <2>4. pc' = "assign"
    BY DEF Item
  <2>5. QED
    BY <1>7, <2>2, <2>3, <2>4 DEF Control, Top
<1>10. Paths'
  <2>1. /\ Memory(paths, Steps) /\ Content(paths, paths) = where /\ ErrsOK(paths, errs)
        /\ paths' = Pushed(paths, NextStep) /\ errs' = errs
    BY DEF IInv, Paths, Item
  <2>2. /\ Memory(paths', Steps) /\ Leaves(paths, paths')
        /\ Content(paths', paths') = Append(where, NextStep)
    BY <1>3, <2>1, PushedMemory, StepTypes
  <2>3. QED
    BY <1>8, <2>1, <2>2, ErrsKept DEF Paths
<1>11. Args'
  BY <1>3 DEF IInv, Args, Item
<1>12. QED
  BY <1>7, <1>8, <1>9, <1>10, <1>11 DEF IInv

(* The path goes to a member and back, with an error there or without one.  *)
LEMMA ThereAndBack ==
  ASSUME IInv, NEW step \in Steps, NEW v \in Values, NEW code \in Codes, where' = where,
         \/ Report(TRUE, code, step, v)
         \/ errs' = errs /\ paths' = Popped(Pushed(paths, step))
         \/ errs' = errs /\ paths' = paths
  PROVE  Paths'
<1> DEFINE m == Pushed(paths, step)
           n == Cloned(m)
           there == Append(where, step)
<1>1. /\ Memory(paths, Steps) /\ Content(paths, paths) = where /\ ErrsOK(paths, errs)
      /\ where \in Seq(Steps)
  BY DEF IInv, Paths
<1>2. Memory(m, Steps) /\ Leaves(paths, m) /\ Content(m, m) = there
  BY <1>1, PushedMemory, StepTypes
<1>3. ErrsOK(m, errs)
  BY <1>1, <1>2, ErrsKept
<1> HIDE DEF m
<1>4. /\ Memory(n, Steps) /\ Content(n, n) = there
      /\ ErrsOK(n, Append(errs, OnPath(code, m, there, v)))
  BY <1>2, <1>3, ErrAdded
<1> HIDE DEF n
<1>5. ASSUME Report(TRUE, code, step, v) PROVE Paths'
  <2>1. errs' = Append(errs, OnPath(code, m, there, v)) /\ paths' = Popped(n)
    BY <1>5 DEF Report, m, n
  <2>2. Memory(paths', Steps) /\ Leaves(n, paths') /\ Content(paths', paths') = where
    BY <1>1, <1>4, <2>1, PoppedMemory
  <2>3. ErrsOK(paths', errs')
    BY <1>4, <2>1, <2>2, ErrsKept
  <2>4. QED
    BY <2>2, <2>3 DEF Paths
<1>6. ASSUME errs' = errs, paths' = Popped(Pushed(paths, step)) PROVE Paths'
  <2>1. Memory(paths', Steps) /\ Leaves(m, paths') /\ Content(paths', paths') = where
    BY <1>1, <1>2, <1>6, PoppedMemory DEF m
  <2>2. ErrsOK(paths', errs')
    BY <1>3, <1>6, <2>1, ErrsKept
  <2>3. QED
    BY <2>1, <2>2 DEF Paths
<1>7. ASSUME errs' = errs, paths' = paths PROVE Paths'
  BY <1>1, <1>7 DEF Paths
<1>8. QED
  BY <1>5, <1>6, <1>7

(* The loop goes on. *)
LEMMA Skips ==
  ASSUME IInv, pc = "loop", Skip, UNCHANGED <<call, pc, src, typ, where>>, Paths'
  PROVE  IInv'
<1> DEFINE f == [Top EXCEPT !.k = @ + 1]
<1>1. /\ stack # <<>> /\ Calling(stack) /\ FrameOK(Top) /\ Whole.kind \in Containers
      /\ where = Top.where /\ where \in Seq(Steps)
  BY LoopTop
<1>2. f = [src |-> Top.src, typ |-> Top.typ, made |-> Top.made, k |-> Top.k + 1,
           seen |-> Top.seen, where |-> Top.where]
  BY <1>1 DEF FrameOK
<1>3. stack' = [stack EXCEPT ![Len(stack)] = f]
  BY DEF Skip, Top
<1> HIDE DEF f
<1>4. FrameOK(f)
  BY <1>1, <1>2 DEF FrameOK
<1>5. Calling(stack') /\ stack' # <<>> /\ stack'[Len(stack')] = f
  <2>1. f.where = stack[Len(stack)].where
    BY <1>2 DEF Top
  <2>2. LET t == [stack EXCEPT ![Len(stack)] = f] IN Calling(t) /\ t # <<>> /\ t[Len(t)] = f
    BY <1>1, <1>4, <2>1, SetCall
  <2>3. QED
    BY <1>3, <2>2, Zenon
<1>6. Control'
  BY <1>1, <1>2, <1>5 DEF Control, Top, Whole
<1>7. Args'
  BY DEF IInv, Args
<1>8. QED
  BY <1>1, <1>5, <1>6, <1>7 DEF IInv

(* What an item has become is in its place. *)
LEMMA Stores == ASSUME IInv, Store PROVE IInv'
<1> DEFINE f == [Top EXCEPT !.made = Stored, !.k = @ + 1]
<1>1. /\ stack # <<>> /\ Calling(stack) /\ where = Reached(stack) /\ InRange(Top)
      /\ Whole.kind # "pointer"
  BY DEF IInv, Control, Store
<1>2. FrameOK(Top)
  BY <1>1, TopCall DEF Top
<1>3. Top.where \in Seq(Steps) /\ Top.src \in Values /\ Top.k \in 1..Len(Top.src.kids)
  <2>1. Top.src \in Values /\ Top.k \in Nat \ {0} /\ Top.where \in Seq(Steps)
    BY <1>2 DEF FrameOK
  <2>2. Len(Top.src.kids) \in Nat
    BY <2>1, ValueAssumption, LenProperties
  <2>3. Top.k <= Len(Top.src.kids)
    BY <1>1 DEF InRange, Whole
  <2>4. QED
    BY <2>1, <2>2, <2>3
<1>4. where = Append(Top.where, NextStep) /\ NextStep \in Steps
  BY <1>1, <1>3, StepTypes DEF Reached, Within, Top, Whole, NextStep
<1>5. f = [src |-> Top.src, typ |-> Top.typ, made |-> Stored, k |-> Top.k + 1,
           seen |-> Top.seen, where |-> Top.where]
  BY <1>2, FrameChanged
<1>6. stack' = [stack EXCEPT ![Len(stack)] = f]
  BY DEF Store
<1> HIDE DEF f
<1>7. FrameOK(f)
  BY <1>2, <1>5 DEF FrameOK
<1>8. Calling(stack') /\ stack' # <<>> /\ stack'[Len(stack')] = f
  <2>1. f.where = stack[Len(stack)].where
    BY <1>5 DEF Top
  <2>2. LET t == [stack EXCEPT ![Len(stack)] = f] IN Calling(t) /\ t # <<>> /\ t[Len(t)] = f
    BY <1>1, <1>7, <2>1, SetCall
  <2>3. QED
    BY <1>6, <2>2, Zenon
<1>9. Control'
  <2>1. pc' = "loop" /\ where' = Top.where
    BY DEF Store
  <2>2. Whole.kind \in Containers
    BY <1>1, <1>2 DEF FrameOK, Whole
  <2>3. QED
    BY <1>5, <1>8, <2>1, <2>2 DEF Control, Top, Whole
<1>10. Paths'
  <2>1. /\ Memory(paths, Steps) /\ Content(paths, paths) = where /\ ErrsOK(paths, errs)
        /\ paths' = Popped(paths) /\ errs' = errs /\ where' = Top.where
    BY DEF IInv, Paths, Store
  <2>2. Memory(paths', Steps) /\ Leaves(paths, paths') /\ Content(paths', paths') = Top.where
    <3>1. Content(paths, paths) = Append(Top.where, NextStep)
      BY <1>4, <2>1
    <3>2. /\ Memory(Popped(paths), Steps) /\ Leaves(paths, Popped(paths))
          /\ Content(Popped(paths), Popped(paths)) = Top.where
      BY <1>3, <1>4, <2>1, <3>1, PoppedMemory, Zenon
    <3>3. QED
      BY <2>1, <3>2
  <2>3. QED
    BY <2>1, <2>2, ErrsKept DEF Paths
<1>11. Args'
  BY DEF IInv, Args, Store
<1>12. QED
  BY <1>3, <1>8, <1>9, <1>10, <1>11 DEF IInv, Store

-----------------------------------------------------------------------------
(* Every step keeps the inductive invariant. *)
LEMMA NextKeeps == IInv /\ [Next]_vars => IInv'
<1> SUFFICES ASSUME IInv, [Next]_vars PROVE IInv'
  OBVIOUS
<1>1. CASE Start
  <2>1. stack = <<>> /\ where = <<>>
    BY <1>1 DEF IInv, Control, Start
  <2>2. QED
    BY <1>1, <2>1 DEF IInv, Args, Control, Paths, Start, Reached
<1>2. CASE NoPointer
  BY <1>2, Ends DEF IInv, Control, NoPointer, Codes
<1>3. CASE Finish
  <2>1. where = <<>>
    BY <1>3 DEF IInv, Control, Finish, Reached
  <2>2. QED
    BY <1>3, <2>1, Ends DEF Finish, Codes
<1>4. CASE Custom
  BY <1>4, Returns, Blames DEF Custom, Codes
<1>5. CASE AssignNull
  BY <1>5, Returns DEF AssignNull
<1>6. CASE Follow
  <2>1. pc' = "assign"
    BY <1>6 DEF Follow, Plain
  <2>2. QED
    BY <1>6, <2>1, CallBegins DEF Follow
<1>7. CASE AssignInterface
  BY <1>7, Returns DEF AssignInterface, Plain
<1>8. CASE AssignScalar
  BY <1>8, Returns, Blames DEF AssignScalar, Plain, ScalarError, Codes
<1>9. CASE AssignBytes
  BY <1>9, Returns, Blames DEF AssignBytes, Plain, Codes
<1>10. CASE Mismatch
  BY <1>10, Blames DEF Mismatch, Plain, Codes
<1>11. CASE Enter
  BY <1>11, CallBegins DEF Enter, Plain
<1>12. CASE Item
  BY <1>12, ItemBegins
<1>13. CASE Unknown
  <2>1. pc = "loop" /\ NextStep \in Steps /\ Top.src.kids[Top.k] \in Values
    BY <1>13, ItemTypes DEF Unknown, Looping
  <2>2. Paths'
    BY <1>13, <2>1, ThereAndBack DEF Unknown, Codes
  <2>3. QED
    BY <1>13, <2>1, <2>2, Skips DEF Unknown
<1>14. CASE Missing
  <2> DEFINE f == Whole.ordered[Checked]
  <2>1. pc = "loop" /\ Top.src \in Values /\ Top.typ \in DOMAIN Types
    BY <1>14, LoopTop DEF Missing
  <2>2. KeyStep(f.name) \in Steps
    BY <1>14, <2>1, DecoderAssumption, StepTypes DEF Missing, Whole
  <2>3. Report(TRUE, "ERequiredField", KeyStep(f.name), Top.src) \/ UNCHANGED <<errs, paths>>
    BY <1>14 DEF Missing, Report
  <2> HIDE DEF f
  <2>4. Paths'
    BY <1>14, <2>1, <2>2, <2>3, ThereAndBack DEF Missing, Codes
  <2>5. QED
    BY <1>14, <2>1, <2>4, Skips DEF Missing
<1>15. CASE Leave
  <2>1. stack # <<>> /\ where = Top.where
    BY <1>15, LoopTop DEF Leave
  <2>2. QED
    BY <1>15, <2>1, Pops DEF Leave
<1>16. CASE Pointed
  <2>1. where = Top.where
    BY <1>16 DEF IInv, Control, Pointed, Reached, Within, Top, Whole
  <2>2. QED
    BY <1>16, <2>1, Pops DEF Pointed
<1>17. CASE Store
  BY <1>17, Stores
<1>18. CASE UNCHANGED vars
  BY <1>18 DEF vars, IInv, Args, Control, Paths, Top, Whole
<1>19. QED
  BY <1>1, <1>2, <1>3, <1>4, <1>5, <1>6, <1>7, <1>8, <1>9, <1>10, <1>11, <1>12, <1>13, <1>14,
     <1>15, <1>16, <1>17, <1>18 DEF Next, Assign, Loop

LEMMA Invariant == Spec => []IInv
BY InitHolds, NextKeeps, PTL DEF Spec

(* What is assigned is always a value, dst always has a type of the call's, *)
(* and every slice of steps is within its array. *)
THEOREM TypeCorrect == Spec => []TypeOK
<1>1. IInv => TypeOK
  <2> SUFFICES ASSUME IInv PROVE TypeOK
    OBVIOUS
  <2>1. Args /\ pc \in {"called", "start", "assign", "loop", "return", "done"}
    BY DEF IInv, Control
  <2>2. IsSlice(paths)
    BY DEF IInv, Paths, Memory, IsSlice
  <2>3. \A i \in 1..Len(errs) : IsSlice(errs[i])
    BY DEF IInv, Paths, ErrsOK, Apart, IsSlice
  <2>4. \A i \in 1..Len(stack) : stack[i].src \in Values /\ stack[i].typ \in DOMAIN Types /\ stack[i].k \in Nat
    BY DEF IInv, Calling, Linked, FrameOK
  <2>5. QED
    BY <2>1, <2>2, <2>3, <2>4 DEF TypeOK, Args
<1>2. QED
  BY <1>1, Invariant, PTL

(* Whatever fails below it, each call of assign() leaves the path as it was *)
(* when it began (decode.go 44-98). *)
THEOREM PathCorrect == Spec => []PathIsTheStack
<1>1. IInv => PathIsTheStack
  BY DEF IInv, Control, Paths, PathIsTheStack
<1>2. QED
  BY <1>1, Invariant, PTL

(* No error's path is overwritten by what is appended to the path later     *)
(* (decode.go 101, errors.go 57). *)
THEOREM ErrorPathsCorrect == Spec => []ErrorsKeepTheirPaths
<1>1. IInv => ErrorsKeepTheirPaths
  BY DEF IInv, Paths, ErrsOK, ErrorsKeepTheirPaths
<1>2. QED
  BY <1>1, Invariant, PTL

-----------------------------------------------------------------------------
(* Induction over the natural numbers, on a set. *)
LEMMA SetInduction ==
  ASSUME NEW S, 0 \in S, \A n \in Nat : n \in S => n + 1 \in S
  PROVE  Nat \subseteq S
<1>. DEFINE T == Nat \ S
<1>1. ASSUME T # {} PROVE FALSE
  <2>1. \E x \in T : \A y \in T : ~ (<<y, x>> \in OpToRel(<, Nat))
    <3> HIDE DEF T
    <3>1. T \subseteq Nat
      BY DEF T
    <3>2. T # {}
      BY <1>1
    <3> QED BY ONLY <3>1, <3>2, NatLessThanWellFounded, WFMin
  <2>2. PICK x \in T : \A y \in T : ~ (<<y, x>> \in OpToRel(<, Nat))
    BY <2>1
  <2>3. \A y \in T : ~ (y < x)
    BY <2>2 DEF OpToRel
  <2>4. x \in Nat /\ x \notin S
    BY <2>2
  <2>5. x - 1 \notin T
    BY <2>3, <2>4
  <2>6. QED
    BY <2>4, <2>5
<1>2. QED
  BY <1>1

(* The rows of a table: row k has been entered k names. *)
Rows(names, g, n) == g = [k \in 0..n |-> IF k = 0 THEN <<>> ELSE Entered(g[k - 1], names[k], k)]

LEMMA RowsExist == ASSUME NEW names, NEW n \in Nat PROVE \E g : Rows(names, g, n)
<1> DEFINE S == {k \in Nat : \E g : Rows(names, g, k)}
<1>1. 0 \in S
  <2>1. Rows(names, [k \in 0..0 |-> <<>>], 0)
    BY DEF Rows
  <2>2. QED
    BY <2>1
<1>2. ASSUME NEW k \in Nat, k \in S PROVE k + 1 \in S
  <2>1. PICK g : Rows(names, g, k)
    BY <1>2
  <2> DEFINE h == [i \in 0..(k + 1) |-> IF i = k + 1 THEN Entered(g[k], names[k + 1], k + 1) ELSE g[i]]
  <2>2. \A i \in 0..k : g[i] = IF i = 0 THEN <<>> ELSE Entered(g[i - 1], names[i], i)
    <3>1. \A f, e : f = [i \in 0..k |-> e[i]] => \A i \in 0..k : f[i] = e[i]
      OBVIOUS
    <3>2. QED
      BY <2>1 DEF Rows
  <2>3. \A i \in 0..k : h[i] = g[i]
    OBVIOUS
  <2>4. h[k + 1] = Entered(h[k], names[k + 1], k + 1)
    BY <2>3
  <2> DEFINE r == [i \in 0..(k + 1) |-> IF i = 0 THEN <<>> ELSE Entered(h[i - 1], names[i], i)]
  <2>5. ASSUME NEW i \in 0..(k + 1) PROVE h[i] = r[i]
    <3>1. CASE i = k + 1
      <4>1. i - 1 = k /\ i # 0 /\ names[i] = names[k + 1]
        BY <3>1
      <4>2. QED
        BY <2>4, <3>1, <4>1
    <3>2. CASE i # k + 1
      <4>1. i \in 0..k /\ (i # 0 => i - 1 \in 0..k)
        BY <3>2
      <4>2. QED
        BY <2>2, <2>3, <4>1
    <3>3. QED
      BY <3>1, <3>2
  <2>6. h = r
    BY <2>5
  <2>7. Rows(names, h, k + 1)
    BY <2>6 DEF Rows
  <2>8. QED
    BY <2>7
<1>3. QED
  <2> HIDE DEF S
  <2>1. Nat \subseteq S
    BY <1>1, <1>2, SetInduction
  <2>2. QED
    BY <2>1 DEF S

(* A table's entry for a key is the last name that it is entered for. *)
Keyed(names, j, key) == key \in {names[j], Lower(names[j])}

LastRows(table, names, n) ==
  \A key : /\ key \in DOMAIN table <=> \E j \in 1..n : Keyed(names, j, key)
           /\ key \in DOMAIN table =>
                /\ table[key] \in 1..n /\ Keyed(names, table[key], key)
                /\ \A j \in 1..n : Keyed(names, j, key) => j <= table[key]

LEMMA RowLists ==
  ASSUME NEW names, NEW n \in Nat, NEW g, Rows(names, g, n)
  PROVE  LastRows(g[n], names, n)
<1>1. g[0] = <<>> /\ \A k \in 0..n : k # 0 => g[k] = Entered(g[k - 1], names[k], k)
  <2>1. \A k \in 0..n : g[k] = IF k = 0 THEN <<>> ELSE Entered(g[k - 1], names[k], k)
    BY DEF Rows
  <2>2. QED
    BY <2>1
<1> DEFINE S == {k \in Nat : k <= n => LastRows(g[k], names, k)}
<1>2. 0 \in S
  <2>1. DOMAIN g[0] = {}
    BY <1>1
  <2>2. QED
    BY <2>1 DEF LastRows
<1>3. ASSUME NEW k \in Nat, k \in S PROVE k + 1 \in S
  <2> SUFFICES ASSUME k + 1 <= n PROVE LastRows(g[k + 1], names, k + 1)
    OBVIOUS
  <2> DEFINE old == g[k]
             new == g[k + 1]
  <2>1. LastRows(old, names, k)
    BY <1>3
  <2>2. new = Entered(old, names[k + 1], k + 1)
    <3>1. k + 1 \in 0..n /\ k + 1 # 0 /\ k + 1 - 1 = k
      OBVIOUS
    <3>2. QED
      BY <1>1, <3>1
  <2> HIDE DEF old, new
  <2>3. /\ DOMAIN new = DOMAIN old \cup {names[k + 1], Lower(names[k + 1])}
        /\ \A key \in DOMAIN new : new[key] = IF Keyed(names, k + 1, key) THEN k + 1 ELSE old[key]
    BY <2>2 DEF Entered, Put, Keyed
  <2>4. ASSUME NEW key
        PROVE  /\ key \in DOMAIN new <=> \E j \in 1..(k + 1) : Keyed(names, j, key)
               /\ key \in DOMAIN new =>
                    /\ new[key] \in 1..(k + 1) /\ Keyed(names, new[key], key)
                    /\ \A j \in 1..(k + 1) : Keyed(names, j, key) => j <= new[key]
    <3>1. /\ key \in DOMAIN old <=> \E j \in 1..k : Keyed(names, j, key)
          /\ key \in DOMAIN old =>
               /\ old[key] \in 1..k /\ Keyed(names, old[key], key)
               /\ \A j \in 1..k : Keyed(names, j, key) => j <= old[key]
      BY <2>1 DEF LastRows
    <3>2. \A j \in 1..(k + 1) : j \in 1..k \/ j = k + 1
      OBVIOUS
    <3>3. key \in DOMAIN new <=> key \in DOMAIN old \/ Keyed(names, k + 1, key)
      BY <2>3 DEF Keyed
    <3>4. CASE Keyed(names, k + 1, key)
      BY <2>3, <3>2, <3>3, <3>4
    <3>5. CASE ~ Keyed(names, k + 1, key)
      BY <2>3, <3>1, <3>2, <3>3, <3>5
    <3>6. QED
      BY <3>4, <3>5
  <2>5. QED
    BY <2>4 DEF LastRows, new
<1>4. QED
  <2>1. Nat \subseteq S
    <3> HIDE DEF S
    <3>1. QED
      BY <1>2, <1>3, SetInduction
  <2>2. QED
    BY <2>1

LEMMA TableLists ==
  ASSUME NEW names, Len(names) \in Nat
  PROVE  LastRows(TableOf(names), names, Len(names))
<1> DEFINE table == CHOOSE g : Rows(names, g, Len(names))
<1>1. Rows(names, table, Len(names))
  BY RowsExist
<1>2. TableOf(names) = table[Len(names)]
  BY DEF TableOf, Rows
<1>3. QED
  BY <1>1, <1>2, RowLists

(* The decoder finds the field that a key is for. *)
LEMMA FoundIsFieldFor ==
  ASSUME NEW typ0 \in DOMAIN Types, NEW key
  PROVE  LET t == Types[typ0] IN
         /\ Found(t.table, key) = FieldFor(t, key)
         /\ FieldFor(t, key) \in 0..Len(t.ordered) /\ Len(t.ordered) \in Nat
<1> DEFINE t == Types[typ0]
           names == [i \in 1..Len(t.ordered) |-> t.ordered[i].name]
           n == Len(t.ordered)
<1>1. n \in Nat /\ t.table = TableOf(names)
  BY DecoderAssumption, LenProperties
<1>2. Len(names) = n
  BY <1>1
<1>3. LastRows(t.table, names, n)
  <2> HIDE DEF names
  <2>1. QED
    BY <1>1, <1>2, TableLists
<1>4. \A k : Named(t, k) = {j \in 1..n : Keyed(names, j, k)}
  BY DEF Named, Keyed
<1> HIDE DEF names, n, t
<1>5. ASSUME NEW k
      PROVE  /\ k \in DOMAIN t.table => LastField(t, k) = t.table[k] /\ t.table[k] \in 1..n
             /\ k \notin DOMAIN t.table => LastField(t, k) = 0
  <2>1. /\ k \in DOMAIN t.table <=> Named(t, k) # {}
        /\ k \in DOMAIN t.table =>
             /\ t.table[k] \in Named(t, k) /\ Named(t, k) \subseteq 1..n
             /\ \A j \in Named(t, k) : j <= t.table[k]
    BY <1>3, <1>4 DEF LastRows
  <2>2. ASSUME k \in DOMAIN t.table PROVE Max(Named(t, k)) = t.table[k]
    <3>1. /\ t.table[k] \in Named(t, k)
          /\ \A j \in Named(t, k) : t.table[k] >= j
          /\ \A i \in Named(t, k) : (\A j \in Named(t, k) : i >= j) => i = t.table[k]
      BY <1>1, <2>1, <2>2
    <3>2. QED
      BY <3>1 DEF Max
  <2>3. QED
    BY <2>1, <2>2 DEF LastField
<1>6. QED
  BY <1>1, <1>5 DEF Found, FieldFor, t, n

-----------------------------------------------------------------------------
(* What a call in progress knows of the assignment a that it makes.  The    *)
(* names that members have been assigned to, and the faults, before the     *)
(* n-th item; the fields that are absent are items after all members.       *)
Of(a, c) == a \in Assignments(c) /\ a.opts = c.opts

Names(a, n) == {Types[a.typ].ordered[Slot(a, i)].name : i \in {j \in Inside(a) : j < n}}

Inner(a, n)   == UNION {a.inner[i].faults : i \in {j \in Inside(a) : j < n}}
Unknowns(a, n) == {Append(a.place, StepTo(a.src, i)) : i \in {j \in Strangers(a) : j < n}}
Missed(a, n)  == {Append(a.place, KeyStep(Types[a.typ].ordered[j].name)) :
                     j \in {h \in Absent(a) : h < n - Len(a.src.kids)}}
Sofar(a, n)   == Inner(a, n) \cup Unknowns(a, n) \cup Missed(a, n)

Makes(a, f) == f.src = a.src /\ f.typ = a.typ /\ f.where = a.place

(* f waits for its item b, or is between two of its items.                  *)
Waiting(a, f, b) ==
  /\ Makes(a, f) /\ f.k \in Inside(a) /\ b = a.inner[f.k]
  /\ Form(a) # "pointer" => f.made = Filled(a, f.k)
  /\ Form(a) = "struct" => f.seen = Names(a, f.k + 1)

Between(a, f) ==
  /\ Makes(a, f) /\ Form(a) \in {"list", "map", "struct"}
  /\ f.made = Filled(a, f.k)
  /\ Form(a) = "struct" => f.seen = Names(a, f.k)

(* The first n calls of s, of which the first makes a0, wait for a; before  *)
(* that they have met the faults F. *)
Stands(a0, c, s, n, a, F) ==
  \E p : /\ p[1] = a0 /\ p[n + 1] = a
         /\ \A m \in 1..(n + 1) : Of(p[m], c)
         /\ \A m \in 1..n : Waiting(p[m], s[m], p[m + 1])
         /\ F = UNION {Sofar(p[m], s[m].k) : m \in 1..n}

LEMMA StandsFirst ==
  ASSUME NEW a0, NEW c, NEW s
  PROVE  /\ Of(a0, c) => Stands(a0, c, s, 0, a0, {})
         /\ \A a, F : Stands(a0, c, s, 0, a, F) => a = a0 /\ F = {}
<1>1. ASSUME Of(a0, c) PROVE Stands(a0, c, s, 0, a0, {})
  <2> DEFINE p == [m \in {1} |-> a0]
  <2>1. p[1] = a0 /\ 0 + 1 = 1
    OBVIOUS
  <2> HIDE DEF p
  <2>2. \A m \in 1..(0 + 1) : Of(p[m], c)
    BY <1>1, <2>1
  <2>3. QED
    BY <2>1, <2>2 DEF Stands
<1>2. QED
  BY <1>1 DEF Stands

(* Only the first n calls matter. *)
LEMMA StandsStill ==
  ASSUME NEW a0, NEW c, NEW s, NEW t, NEW n \in Nat, NEW a, NEW F,
         Stands(a0, c, s, n, a, F), \A m \in 1..n : t[m] = s[m]
  PROVE  Stands(a0, c, t, n, a, F)
<1>1. PICK p : /\ p[1] = a0 /\ p[n + 1] = a
               /\ \A m \in 1..(n + 1) : Of(p[m], c)
               /\ \A m \in 1..n : Waiting(p[m], s[m], p[m + 1])
               /\ F = UNION {Sofar(p[m], s[m].k) : m \in 1..n}
  BY DEF Stands
<1>2. \A m \in 1..n : Waiting(p[m], t[m], p[m + 1])
  BY <1>1
<1>3. F = UNION {Sofar(p[m], t[m].k) : m \in 1..n}
  BY <1>1
<1>4. QED
  BY <1>1, <1>2, <1>3 DEF Stands

(* One more call waits. *)
LEMMA StandsDeeper ==
  ASSUME NEW a0, NEW c, NEW s, NEW n \in Nat, NEW a, NEW F, NEW b,
         Stands(a0, c, s, n, a, F), Waiting(a, s[n + 1], b), Of(b, c)
  PROVE  Stands(a0, c, s, n + 1, b, F \cup Sofar(a, s[n + 1].k))
<1>1. PICK p : /\ p[1] = a0 /\ p[n + 1] = a
               /\ \A m \in 1..(n + 1) : Of(p[m], c)
               /\ \A m \in 1..n : Waiting(p[m], s[m], p[m + 1])
               /\ F = UNION {Sofar(p[m], s[m].k) : m \in 1..n}
  BY DEF Stands
<1> DEFINE q == [m \in 1..(n + 2) |-> IF m = n + 2 THEN b ELSE p[m]]
<1>2. q[n + 2] = b /\ \A m \in 1..(n + 1) : q[m] = p[m]
  OBVIOUS
<1> HIDE DEF q
<1>3. q[1] = a0 /\ q[n + 1 + 1] = b
  BY <1>1, <1>2
<1>4. ASSUME NEW m \in 1..(n + 1 + 1) PROVE Of(q[m], c)
  BY <1>1, <1>2
<1>5. ASSUME NEW m \in 1..(n + 1) PROVE Waiting(q[m], s[m], q[m + 1])
  <2>1. CASE m = n + 1
    BY <1>1, <1>2, <1>3, <2>1
  <2>2. CASE m # n + 1
    <3>1. m \in 1..n /\ m + 1 \in 1..(n + 1)
      BY <2>2
    <3>2. QED
      BY <1>1, <1>2, <3>1
  <2>3. QED
    BY <2>1, <2>2
<1>6. F \cup Sofar(a, s[n + 1].k) = UNION {Sofar(q[m], s[m].k) : m \in 1..(n + 1)}
  <2>1. {Sofar(q[m], s[m].k) : m \in 1..(n + 1)} =
          {Sofar(p[m], s[m].k) : m \in 1..n} \cup {Sofar(a, s[n + 1].k)}
    <3>1. 1..(n + 1) = (1..n) \cup {n + 1}
      OBVIOUS
    <3>2. QED
      BY <1>1, <1>2, <3>1
  <2>2. QED
    BY <1>1, <2>1
<1>7. QED
  BY <1>3, <1>4, <1>5, <1>6 DEF Stands

(* One call fewer waits. *)
LEMMA StandsHigher ==
  ASSUME NEW a0, NEW c, NEW s, NEW n \in Nat \ {0}, NEW b, NEW F, Stands(a0, c, s, n, b, F)
  PROVE  \E a, G : /\ Stands(a0, c, s, n - 1, a, G) /\ Of(a, c) /\ Waiting(a, s[n], b)
                   /\ F = G \cup Sofar(a, s[n].k)
<1>1. PICK p : /\ p[1] = a0 /\ p[n + 1] = b
               /\ \A m \in 1..(n + 1) : Of(p[m], c)
               /\ \A m \in 1..n : Waiting(p[m], s[m], p[m + 1])
               /\ F = UNION {Sofar(p[m], s[m].k) : m \in 1..n}
  BY DEF Stands
<1> DEFINE G == UNION {Sofar(p[m], s[m].k) : m \in 1..(n - 1)}
<1>2. n - 1 + 1 = n /\ n \in 1..n /\ n \in 1..(n + 1)
  OBVIOUS
<1>3. F = G \cup Sofar(p[n], s[n].k)
  <2>1. 1..n = (1..(n - 1)) \cup {n}
    OBVIOUS
  <2>2. {Sofar(p[m], s[m].k) : m \in 1..n} =
          {Sofar(p[m], s[m].k) : m \in 1..(n - 1)} \cup {Sofar(p[n], s[n].k)}
    BY <2>1
  <2>3. QED
    BY <1>1, <2>2
<1>4. Stands(a0, c, s, n - 1, p[n], G)
  <2>1. \A m \in 1..(n - 1 + 1) : Of(p[m], c)
    BY <1>1, <1>2
  <2>2. \A m \in 1..(n - 1) : Waiting(p[m], s[m], p[m + 1])
    BY <1>1
  <2>3. QED
    BY <1>1, <1>2, <2>1, <2>2 DEF Stands
<1>5. Of(p[n], c) /\ Waiting(p[n], s[n], b)
  BY <1>1, <1>2
<1>6. QED
  BY <1>3, <1>4, <1>5

-----------------------------------------------------------------------------
(* What the kind of an assignment says of its type and its source.          *)
LEMMA Forms ==
  ASSUME NEW a
  PROVE  LET t == Types[a.typ] IN
         /\ Form(a) = "pointer" => t.kind = "pointer"
         /\ Form(a) = "list" => t.kind \in Lists /\ a.src.kind = "array"
         /\ Form(a) = "map" => t.kind = "map" /\ a.src.kind = "object"
         /\ Form(a) = "struct" => t.kind = "struct" /\ a.src.kind = "object"
         /\ Form(a) \in {"pointer", "list", "map", "struct"} => Fits(a)
<1> DEFINE t == Types[a.typ]
<1>1. \A k \in Scalars : k \notin {"pointer", "list", "map", "struct"}
  BY DEF Scalars, Own
<1>2. Form(a) = "pointer" => t.kind = "pointer"
  BY <1>1 DEF Form, FormOf, Objects
<1>3. Form(a) = "list" => t.kind \in Lists /\ a.src.kind = "array"
  BY <1>1 DEF Form, FormOf, Objects
<1>4. Form(a) \in {"map", "struct"} => t.kind = Form(a) /\ a.src.kind = "object"
  BY <1>1 DEF Form, FormOf
<1>5. Form(a) \in {"pointer", "list", "map", "struct"} => Fits(a)
  BY DEF Fits
<1>6. QED
  BY <1>2, <1>3, <1>4, <1>5

(* An assignment with nothing in it has the one fault of not fitting.       *)
LEMMA Single ==
  ASSUME NEW a, Form(a) \notin {"pointer", "list", "map", "struct"}
  PROVE  Faults(a) = IF Fits(a) THEN {} ELSE {a.place}
<1>1. Inside(a) = {} /\ Strangers(a) = {} /\ Absent(a) = {}
  BY DEF Inside, Strangers, Absent
<1>2. UNION {a.inner[i].faults : i \in Inside(a)} = {}
  BY <1>1
<1>3. {Append(a.place, StepTo(a.src, i)) : i \in Strangers(a)} = {}
  BY <1>1
<1>4. {Append(a.place, KeyStep(Types[a.typ].ordered[j].name)) : j \in Absent(a)} = {}
  BY <1>1
<1>5. QED
  BY <1>2, <1>3, <1>4 DEF Faults

(* A source has as many items as a number says, and a field is one.         *)
LEMMA Numbers ==
  ASSUME NEW a, a.src \in Values, a.typ \in DOMAIN Types
  PROVE  /\ Len(a.src.kids) \in Nat /\ Types[a.typ].length \in Nat
         /\ Len(Types[a.typ].ordered) \in Nat
         /\ Inside(a) \subseteq Nat \ {0} /\ Strangers(a) \subseteq Nat \ {0}
         /\ Absent(a) \subseteq Nat \ {0}
         /\ Form(a) # "pointer" => Inside(a) \subseteq 1..Len(a.src.kids)
<1>1. Len(a.src.kids) \in Nat
  BY ValueAssumption, LenProperties
<1>2. Types[a.typ].length \in Nat /\ Len(Types[a.typ].ordered) \in Nat
  BY DecoderAssumption, LenProperties
<1>3. Inside(a) \subseteq Nat \ {0} /\ (Form(a) # "pointer" => Inside(a) \subseteq 1..Len(a.src.kids))
  BY <1>1 DEF Inside
<1>4. Strangers(a) \subseteq Nat \ {0} /\ Absent(a) \subseteq Nat \ {0}
  BY <1>1, <1>2 DEF Strangers, Absent
<1>5. QED
  BY <1>1, <1>2, <1>3, <1>4

(* What is in a slot changes with the items for it only.                    *)
LEMMA LatestNext ==
  ASSUME NEW a, Inside(a) \subseteq Nat, NEW k \in Nat, NEW s
  PROVE  Latest(a, s, k + 1) = IF k \in Inside(a) /\ Slot(a, k) = s THEN a.inner[k].new
                               ELSE Latest(a, s, k)
<1>1. CASE k \in Inside(a) /\ Slot(a, k) = s
  <2>1. k \in Given(a, s, k + 1) /\ \A i \in Given(a, s, k + 1) : i \in Nat /\ i <= k
    BY <1>1 DEF Given
  <2>2. Max(Given(a, s, k + 1)) = k
    <3>1. \A i \in Given(a, s, k + 1) : (\A j \in Given(a, s, k + 1) : i >= j) => i = k
      BY <2>1
    <3>2. QED
      BY <2>1, <3>1 DEF Max
  <2>3. QED
    BY <1>1, <2>1, <2>2 DEF Latest
<1>2. CASE ~ (k \in Inside(a) /\ Slot(a, k) = s)
  <2>1. Given(a, s, k + 1) = Given(a, s, k)
    BY <1>2 DEF Given
  <2>2. QED
    BY <1>2, <2>1 DEF Latest
<1>3. QED
  BY <1>1, <1>2

LEMMA LatestFirst ==
  ASSUME NEW a, Inside(a) \subseteq Nat \ {0}, NEW s
  PROVE  Latest(a, s, 1) = Initial(a, s)
<1>1. Given(a, s, 1) = {}
  BY DEF Given
<1>2. QED
  BY <1>1 DEF Latest

LEMMA FilledBy ==
  ASSUME NEW a, NEW n, NEW m, \A s : Latest(a, s, n) = Latest(a, s, m), KeysOf(a, n) = KeysOf(a, m)
  PROVE  Filled(a, n) = Filled(a, m)
<1>1. [k \in KeysOf(a, n) |-> Latest(a, k, n)] = [k \in KeysOf(a, m) |-> Latest(a, k, m)]
  OBVIOUS
<1>2. [s \in 1..Size(a) |-> Latest(a, s, n)] = [s \in 1..Size(a) |-> Latest(a, s, m)]
  OBVIOUS
<1>3. QED
  BY <1>1, <1>2 DEF Filled

(* After the last item the container is what it is to be.                   *)
LEMMA LatestLast ==
  ASSUME NEW a, NEW n \in Nat, NEW m \in Nat, \A i \in Inside(a) : i \in Nat /\ i < n /\ i < m
  PROVE  Filled(a, n) = Filled(a, m)
<1>1. \A s : Given(a, s, n) = Given(a, s, m)
  BY DEF Given
<1>2. \A s : Latest(a, s, n) = Latest(a, s, m)
  BY <1>1 DEF Latest
<1>3. {j \in Inside(a) : j < n} = {j \in Inside(a) : j < m}
  OBVIOUS
<1>4. KeysOf(a, n) = KeysOf(a, m)
  BY <1>3 DEF KeysOf
<1>5. QED
  BY <1>2, <1>4, FilledBy

(* An item that is not assigned changes nothing.                            *)
LEMMA FilledSkips ==
  ASSUME NEW a, Inside(a) \subseteq Nat, NEW k \in Nat, k \notin Inside(a)
  PROVE  Filled(a, k + 1) = Filled(a, k) /\ Names(a, k + 1) = Names(a, k)
<1>1. \A s : Latest(a, s, k + 1) = Latest(a, s, k)
  BY LatestNext
<1>2. {j \in Inside(a) : j < k + 1} = {j \in Inside(a) : j < k}
  OBVIOUS
<1>3. KeysOf(a, k + 1) = KeysOf(a, k)
  BY <1>2 DEF KeysOf
<1>4. Names(a, k + 1) = Names(a, k)
  BY <1>2 DEF Names
<1>5. QED
  BY <1>1, <1>3, <1>4, FilledBy

LEMMA NamesNext ==
  ASSUME NEW a, Inside(a) \subseteq Nat, NEW k \in Inside(a)
  PROVE  Names(a, k + 1) = Names(a, k) \cup {Types[a.typ].ordered[Slot(a, k)].name}
<1>1. {j \in Inside(a) : j < k + 1} = {j \in Inside(a) : j < k} \cup {k}
  OBVIOUS
<1>2. QED
  BY <1>1 DEF Names

(* The faults before the first item, after each and after the last.         *)
LEMMA SofarFirst ==
  ASSUME NEW a, Inside(a) \subseteq Nat \ {0}, Strangers(a) \subseteq Nat \ {0},
         Absent(a) \subseteq Nat \ {0}, Len(a.src.kids) \in Nat
  PROVE  Sofar(a, 1) = {}
<1>1. /\ {j \in Inside(a) : j < 1} = {} /\ {j \in Strangers(a) : j < 1} = {}
      /\ {i \in Absent(a) : i < 1 - Len(a.src.kids)} = {}
  OBVIOUS
<1>2. Inner(a, 1) = {} /\ Unknowns(a, 1) = {} /\ Missed(a, 1) = {}
  BY <1>1 DEF Inner, Unknowns, Missed
<1>3. QED
  BY <1>2 DEF Sofar

LEMMA OneMore ==
  ASSUME NEW S, S \subseteq Nat, NEW k \in Int
  PROVE  {i \in S : i < k + 1} = {i \in S : i < k} \cup (IF k \in S THEN {k} ELSE {})
<1>1. \A i \in S : i < k + 1 <=> i < k \/ i = k
  OBVIOUS
<1>2. QED
  BY <1>1

LEMMA SofarNext ==
  ASSUME NEW a, Inside(a) \subseteq Nat \ {0}, Strangers(a) \subseteq Nat \ {0},
         Absent(a) \subseteq Nat \ {0}, Len(a.src.kids) \in Nat, NEW k \in Nat
  PROVE  LET j == k - Len(a.src.kids) IN
         Sofar(a, k + 1) = Sofar(a, k)
           \cup (IF k \in Inside(a) THEN a.inner[k].faults ELSE {})
           \cup (IF k \in Strangers(a) THEN {Append(a.place, StepTo(a.src, k))} ELSE {})
           \cup (IF j \in Absent(a) THEN {Append(a.place, KeyStep(Types[a.typ].ordered[j].name))} ELSE {})
<1> DEFINE j == k - Len(a.src.kids)
<1>1. Inner(a, k + 1) = Inner(a, k) \cup (IF k \in Inside(a) THEN a.inner[k].faults ELSE {})
  BY OneMore DEF Inner
<1>2. Unknowns(a, k + 1) = Unknowns(a, k)
        \cup (IF k \in Strangers(a) THEN {Append(a.place, StepTo(a.src, k))} ELSE {})
  BY OneMore DEF Unknowns
<1>3. Missed(a, k + 1) = Missed(a, k)
        \cup (IF j \in Absent(a) THEN {Append(a.place, KeyStep(Types[a.typ].ordered[j].name))} ELSE {})
  <2> DEFINE l == Len(a.src.kids)
             new == {i \in Absent(a) : i < k + 1 - l}
             old == {i \in Absent(a) : i < k - l}
             fault(i) == Append(a.place, KeyStep(Types[a.typ].ordered[i].name))
  <2>1. Missed(a, k + 1) = {fault(i) : i \in new} /\ Missed(a, k) = {fault(i) : i \in old}
    BY DEF Missed
  <2>2. new = old \cup (IF j \in Absent(a) THEN {j} ELSE {})
    <3>1. j \in Int /\ k + 1 - l = j + 1 /\ k - l = j
      OBVIOUS
    <3> HIDE DEF j, l
    <3>2. new = {i \in Absent(a) : i < j + 1} /\ old = {i \in Absent(a) : i < j}
      BY <3>1
    <3>3. QED
      BY <3>1, <3>2, OneMore
  <2> HIDE DEF fault, new, old, j
  <2>3. Missed(a, k + 1) = Missed(a, k) \cup (IF j \in Absent(a) THEN {fault(j)} ELSE {})
    BY <2>1, <2>2
  <2>4. QED
    BY <2>3 DEF fault
<1> HIDE DEF j
<1>4. QED
  BY <1>1, <1>2, <1>3 DEF Sofar, j

LEMMA SofarLast ==
  ASSUME NEW a, NEW n \in Nat, Fits(a),
         \A i \in Inside(a) \cup Strangers(a) : i < n,
         \A j \in Absent(a) : j < n - Len(a.src.kids)
  PROVE  Sofar(a, n) = Faults(a)
<1>1. /\ {j \in Inside(a) : j < n} = Inside(a) /\ {j \in Strangers(a) : j < n} = Strangers(a)
      /\ {i \in Absent(a) : i < n - Len(a.src.kids)} = Absent(a)
  OBVIOUS
<1>2. /\ Inner(a, n) = UNION {a.inner[i].faults : i \in Inside(a)}
      /\ Unknowns(a, n) = {Append(a.place, StepTo(a.src, i)) : i \in Strangers(a)}
      /\ Missed(a, n) = {Append(a.place, KeyStep(Types[a.typ].ordered[j].name)) : j \in Absent(a)}
  BY <1>1 DEF Inner, Unknowns, Missed
<1>3. Faults(a) = Inner(a, n) \cup (IF Fits(a) THEN {} ELSE {a.place}) \cup Unknowns(a, n) \cup Missed(a, n)
  BY <1>2 DEF Faults
<1>4. QED
  BY <1>3 DEF Sofar

-----------------------------------------------------------------------------
(* Where the decoder is in making a0: the assignment it begins, has made or *)
(* is in the loop of, and the faults it has met. *)
Places(es) == {es[i].place : i \in 1..Len(es)}
Here(a)    == a.src = src /\ a.typ = typ /\ a.place = where

Reports(a) ==
  IF a.faults = {} /\ call.validator = "fails" THEN Len(errs) = 1 /\ errs[1].code = "EUser"
  ELSE Places(errs) = a.faults

Beginning(a0) ==
  \E a : Stands(a0, call, stack, Len(stack), a, Places(errs)) /\ Here(a) /\ val = a.old
Finished(a0) ==
  \E a, F : /\ Stands(a0, call, stack, Len(stack), a, F) /\ Here(a) /\ val = a.new
            /\ Places(errs) = F \cup a.faults
Underway(a0) ==
  \E a, F : /\ Stands(a0, call, stack, Len(stack) - 1, a, F) /\ Between(a, Top)
            /\ Places(errs) = F \cup Sofar(a, Top.k)

Progress(a0) ==
  /\ pc \in {"start", "assign"} => Beginning(a0)
  /\ pc = "return" => Finished(a0)
  /\ pc = "loop" => Underway(a0)
  /\ pc = "done" /\ call.pointer => val = a0.new /\ Reports(a0)

LEMMA MorePlaces ==
  ASSUME NEW S, NEW es \in Seq(S), NEW e
  PROVE  Places(Append(es, e)) = Places(es) \cup {e.place}
<1> DEFINE T == S \cup {e}
           t == Append(es, e)
<1>1. es \in Seq(T) /\ e \in T
  BY SeqMonotonic
<1>2. /\ Len(es) \in Nat /\ Len(t) = Len(es) + 1 /\ t[Len(es) + 1] = e
      /\ \A i \in 1..Len(es) : t[i] = es[i]
  <2> HIDE DEF T
  <2>1. QED
    BY <1>1, AppendProperties, LenProperties
<1> HIDE DEF t
<1>3. 1..(Len(es) + 1) = (1..Len(es)) \cup {Len(es) + 1}
  BY <1>2
<1>4. Places(t) = Places(es) \cup {e.place}
  BY <1>2, <1>3 DEF Places
<1>5. QED
  BY <1>4 DEF t

LEMMA NoPlaces ==
  ASSUME NEW S, NEW es \in Seq(S)
  PROVE  Places(es) = {} <=> es = <<>>
<1>1. Len(es) \in Nat /\ (Len(es) = 0 <=> es = <<>>)
  BY LenProperties, EmptySeq
<1>2. ASSUME es # <<>> PROVE es[1].place \in Places(es)
  <2>1. 1 \in 1..Len(es)
    BY <1>1, <1>2
  <2>2. QED
    BY <2>1 DEF Places
<1>3. ASSUME es = <<>> PROVE Places(es) = {}
  <2>1. 1..Len(es) = {}
    BY <1>1, <1>3
  <2>2. QED
    BY <2>1 DEF Places
<1>4. QED
  BY <1>2, <1>3

(* The assignments that the decoder is about are assignments of the call.   *)
LEMMA StandsFor ==
  ASSUME NEW a0, NEW c \in Calls, NEW s, NEW n \in Nat, NEW a, NEW F, Stands(a0, c, s, n, a, F)
  PROVE  Of(a, c) /\ IsAssignment(a, Assignments(c))
<1>1. n + 1 \in 1..(n + 1)
  OBVIOUS
<1>2. Of(a, c)
  BY <1>1 DEF Stands
<1>3. QED
  BY <1>2, AssignmentsAssumption DEF Of

LEMMA Depth ==
  ASSUME IInv
  PROVE  Len(stack) \in Nat /\ (stack # <<>> => Len(stack) \in Nat \ {0}) /\ (stack = <<>> => Len(stack) = 0)
<1>1. Listed(stack)
  BY DEF IInv, Calling
<1>2. QED
  BY <1>1, LenProperties, EmptySeq DEF Listed

(* assign() returns with what it has made, and without a fault ...          *)
LEMMA Returned ==
  ASSUME IInv, NEW a0, Progress(a0), pc = "assign", NEW x, Return(x),
         \A a : Of(a, call) /\ IsAssignment(a, Assignments(call)) /\ Here(a) /\ val = a.old
                  => a.new = x /\ a.faults = {}
  PROVE  Progress(a0)'
<1>1. PICK a : Stands(a0, call, stack, Len(stack), a, Places(errs)) /\ Here(a) /\ val = a.old
  BY DEF Progress, Beginning
<1>2. Of(a, call) /\ IsAssignment(a, Assignments(call))
  BY <1>1, Depth, StandsFor DEF IInv, Args
<1>3. a.new = x /\ a.faults = {}
  BY <1>1, <1>2
<1>4. UNCHANGED <<call, stack, errs, src, typ, where>> /\ val' = x /\ pc' = "return"
  BY DEF Return
<1>5. Stands(a0, call', stack', Len(stack'), a, Places(errs)) /\ Here(a)' /\ val' = a.new
  BY <1>1, <1>3, <1>4 DEF Here
<1>6. Places(errs') = Places(errs) \cup a.faults
  BY <1>3, <1>4
<1>7. Finished(a0)'
  BY <1>5, <1>6 DEF Finished
<1>8. QED
  BY <1>4, <1>7 DEF Progress

(* ... or with the fault that the source does not fit.                      *)
LEMMA Blamed ==
  ASSUME IInv, NEW a0, Progress(a0), pc = "assign", NEW code, Blame(code),
         \A a : Of(a, call) /\ IsAssignment(a, Assignments(call)) /\ Here(a) /\ val = a.old
                  => a.new = a.old /\ a.faults = {a.place}
  PROVE  Progress(a0)'
<1>1. PICK a : Stands(a0, call, stack, Len(stack), a, Places(errs)) /\ Here(a) /\ val = a.old
  BY DEF Progress, Beginning
<1>2. Of(a, call) /\ IsAssignment(a, Assignments(call))
  BY <1>1, Depth, StandsFor DEF IInv, Args
<1>3. a.new = a.old /\ a.faults = {where}
  BY <1>1, <1>2 DEF Here
<1>4. /\ UNCHANGED <<call, stack, val, src, typ, where>> /\ pc' = "return"
      /\ errs' = Append(errs, OnPath(code, paths, where, src))
  BY DEF Blame
<1>5. Stands(a0, call', stack', Len(stack'), a, Places(errs)) /\ Here(a)' /\ val' = a.new
  BY <1>1, <1>3, <1>4 DEF Here
<1>6. Places(errs') = Places(errs) \cup a.faults
  <2>1. errs \in Seq(Errors)
    BY DEF IInv, Paths, ErrsOK
  <2>2. OnPath(code, paths, where, src).place = where
    BY DEF OnPath
  <2>3. QED
    BY <1>3, <1>4, <2>1, <2>2, MorePlaces
<1>7. Finished(a0)'
  BY <1>5, <1>6 DEF Finished
<1>8. QED
  BY <1>4, <1>7 DEF Progress

(* What a scalar reads as. *)
LEMMA ScalarReads ==
  ASSUME NEW v, NEW kind \in Scalars, NEW opts, opts = call.opts
  PROVE  Readable(v, kind, opts) <=> Takes(v, kind) /\ Reading(v, kind) = "ok"
<1>1. kind \in {"string", "bool", "int", "uint", "float"}
  BY DEF Scalars, Own
<1>2. CASE kind = "string"
  <2>1. Own[kind] = "string" /\ Coercible[kind] = {"number", "boolean"}
    BY <1>2 DEF Own, Coercible
  <2>2. QED
    BY <1>2, <2>1 DEF Readable, Takes, Reading
<1>3. CASE kind = "bool"
  <2>1. Own[kind] = "boolean" /\ Coercible[kind] = {"string"}
    BY <1>3 DEF Own, Coercible
  <2>2. QED
    BY <1>3, <2>1 DEF Readable, Takes, Reading
<1>4. CASE kind \in {"int", "uint", "float"}
  <2>1. Own[kind] = "number" /\ Coercible[kind] = {"string"}
    BY <1>4 DEF Own, Coercible
  <2>2. QED
    BY <1>4, <2>1 DEF Readable, Takes, Reading
<1>5. QED
  BY <1>1, <1>2, <1>3, <1>4

-----------------------------------------------------------------------------
(* assign(), one lemma for each way in which it returns at once.            *)
LEMMA CustomMakes == ASSUME IInv, NEW a0, Progress(a0), Custom PROVE Progress(a0)'
<1>1. ASSUME NEW a, Of(a, call), IsAssignment(a, Assignments(call)), Here(a), val = a.old
      PROVE  /\ Form(a) = "custom" /\ a.new = Made(a)
             /\ a.faults = IF Fits(a) THEN {} ELSE {a.place}
             /\ Fits(a) <=> Strconv("custom", src.text) = "ok"
  <2>1. Form(a) = "custom"
    BY <1>1 DEF Custom, Here, Form, FormOf
  <2>2. a.new = Made(a) /\ a.faults = Faults(a)
    BY <1>1 DEF IsAssignment
  <2>3. Fits(a) <=> Strconv("custom", src.text) = "ok"
    BY <1>1, <2>1 DEF Fits, Here
  <2>4. QED
    BY <2>1, <2>2, <2>3, Single
<1>2. CASE Strconv("custom", src.text) = "ok"
  <2>1. pc = "assign" /\ Return(Go("custom", src.text))
    BY <1>2 DEF Custom
  <2>2. ASSUME NEW a, Of(a, call), IsAssignment(a, Assignments(call)), Here(a), val = a.old
        PROVE  a.new = Go("custom", src.text) /\ a.faults = {}
    BY <1>1, <1>2, <2>2 DEF Made, Here
  <2>3. QED
    BY <2>1, <2>2, Returned
<1>3. CASE Strconv("custom", src.text) # "ok"
  <2>1. pc = "assign" /\ Blame("EUser")
    BY <1>3 DEF Custom
  <2>2. ASSUME NEW a, Of(a, call), IsAssignment(a, Assignments(call)), Here(a), val = a.old
        PROVE  a.new = a.old /\ a.faults = {a.place}
    BY <1>1, <1>3, <2>2 DEF Made
  <2>3. QED
    BY <2>1, <2>2, Blamed
<1>4. QED
  BY <1>2, <1>3

LEMMA NullMakes == ASSUME IInv, NEW a0, Progress(a0), AssignNull PROVE Progress(a0)'
<1>1. pc = "assign" /\ Return(Zero[typ])
  BY DEF AssignNull
<1>2. ASSUME NEW a, Of(a, call), IsAssignment(a, Assignments(call)), Here(a), val = a.old
      PROVE  a.new = Zero[typ] /\ a.faults = {}
  <2>1. Form(a) = "null"
    BY <1>2 DEF AssignNull, Here, Form, FormOf
  <2>2. Fits(a)
    BY <2>1 DEF Fits
  <2>3. QED
    BY <1>2, <2>1, <2>2, Single DEF IsAssignment, Made, Here
<1>3. QED
  BY <1>1, <1>2, Returned

LEMMA InterfaceMakes == ASSUME IInv, NEW a0, Progress(a0), AssignInterface PROVE Progress(a0)'
<1>1. pc = "assign" /\ Return(AnyOf(call.opts.numberAsFloat)[src])
  BY DEF AssignInterface, Plain
<1>2. ASSUME NEW a, Of(a, call), IsAssignment(a, Assignments(call)), Here(a), val = a.old
      PROVE  a.new = AnyOf(call.opts.numberAsFloat)[src] /\ a.faults = {}
  <2>1. Form(a) = "interface"
    BY <1>2 DEF AssignInterface, Plain, Kind, Here, Form, FormOf
  <2>2. Fits(a)
    BY <2>1 DEF Fits
  <2>3. Made(a) = AnyOf(call.opts.numberAsFloat)[src]
    BY <1>2, <2>1, <2>2 DEF Made, Here, Of
  <2>4. QED
    BY <1>2, <2>1, <2>2, <2>3, Single DEF IsAssignment
<1>3. QED
  BY <1>1, <1>2, Returned

LEMMA ScalarMakes == ASSUME IInv, NEW a0, Progress(a0), AssignScalar PROVE Progress(a0)'
<1>1. ASSUME NEW a, Of(a, call), IsAssignment(a, Assignments(call)), Here(a), val = a.old
      PROVE  /\ Form(a) = "scalar" /\ a.new = Made(a)
             /\ a.faults = IF Fits(a) THEN {} ELSE {a.place}
             /\ Fits(a) <=> Takes(src, Kind) /\ Reading(src, Kind) = "ok"
             /\ a.src = src /\ Types[a.typ].kind = Kind
  <2>1. Kind \in Scalars /\ a.src = src /\ Types[a.typ].kind = Kind
    BY <1>1 DEF AssignScalar, Here, Kind
  <2>2. Form(a) = "scalar"
    <3>1. Kind \notin {"pointer", "interface"}
      BY <2>1 DEF Scalars, Own
    <3>2. QED
      BY <1>1, <2>1, <3>1 DEF AssignScalar, Plain, Here, Form, FormOf
  <2>3. a.new = Made(a) /\ a.faults = Faults(a)
    BY <1>1 DEF IsAssignment
  <2>4. Fits(a) <=> Readable(src, Kind, a.opts)
    BY <2>1, <2>2 DEF Fits
  <2>5. Readable(src, Kind, a.opts) <=> Takes(src, Kind) /\ Reading(src, Kind) = "ok"
    BY <1>1, <2>1, ScalarReads DEF Of
  <2>6. QED
    BY <2>1, <2>2, <2>3, <2>4, <2>5, Single
<1>2. CASE Takes(src, Kind) /\ Reading(src, Kind) = "ok"
  <2>1. pc = "assign" /\ Return(Go(Kind, src.text))
    BY <1>2 DEF AssignScalar, Plain
  <2>2. ASSUME NEW a, Of(a, call), IsAssignment(a, Assignments(call)), Here(a), val = a.old
        PROVE  a.new = Go(Kind, src.text) /\ a.faults = {}
    BY <1>1, <1>2, <2>2 DEF Made
  <2>3. QED
    BY <2>1, <2>2, Returned
<1>3. CASE ~ (Takes(src, Kind) /\ Reading(src, Kind) = "ok")
  <2>1. pc = "assign" /\ Blame(ScalarError(src, Kind))
    BY <1>3 DEF AssignScalar, Plain
  <2>2. ASSUME NEW a, Of(a, call), IsAssignment(a, Assignments(call)), Here(a), val = a.old
        PROVE  a.new = a.old /\ a.faults = {a.place}
    BY <1>1, <1>3, <2>2 DEF Made
  <2>3. QED
    BY <2>1, <2>2, Blamed
<1>4. QED
  BY <1>2, <1>3

LEMMA BytesMakes == ASSUME IInv, NEW a0, Progress(a0), AssignBytes PROVE Progress(a0)'
<1>1. ASSUME NEW a, Of(a, call), IsAssignment(a, Assignments(call)), Here(a), val = a.old
      PROVE  /\ Form(a) = "base64" /\ a.new = Made(a)
             /\ a.faults = IF Fits(a) THEN {} ELSE {a.place}
             /\ Fits(a) <=> Strconv("base64", src.text) = "ok"
             /\ a.src = src /\ Types[a.typ].kind = "bytes"
  <2>1. Kind = "bytes" /\ src.kind = "string" /\ a.src = src /\ Types[a.typ].kind = Kind
    BY <1>1 DEF AssignBytes, Here, Kind
  <2>2. Form(a) = "base64"
    <3>1. Kind \notin {"pointer", "interface"} /\ Kind \notin Scalars
      BY <2>1 DEF Scalars, Own
    <3>2. QED
      BY <1>1, <2>1, <3>1 DEF AssignBytes, Plain, Here, Form, FormOf
  <2>3. a.new = Made(a) /\ a.faults = Faults(a)
    BY <1>1 DEF IsAssignment
  <2>4. Fits(a) <=> Strconv("base64", src.text) = "ok"
    BY <2>1, <2>2 DEF Fits
  <2>5. QED
    BY <2>1, <2>2, <2>3, <2>4, Single
<1>2. CASE Strconv("base64", src.text) = "ok"
  <2>1. pc = "assign" /\ Return(Go("bytes", src.text))
    BY <1>2 DEF AssignBytes, Plain
  <2>2. ASSUME NEW a, Of(a, call), IsAssignment(a, Assignments(call)), Here(a), val = a.old
        PROVE  a.new = Go("bytes", src.text) /\ a.faults = {}
    BY <1>1, <1>2, <2>2 DEF Made
  <2>3. QED
    BY <2>1, <2>2, Returned
<1>3. CASE Strconv("base64", src.text) # "ok"
  <2>1. pc = "assign" /\ Blame("ETypeMismatch")
    BY <1>3 DEF AssignBytes, Plain
  <2>2. ASSUME NEW a, Of(a, call), IsAssignment(a, Assignments(call)), Here(a), val = a.old
        PROVE  a.new = a.old /\ a.faults = {a.place}
    BY <1>1, <1>3, <2>2 DEF Made
  <2>3. QED
    BY <2>1, <2>2, Blamed
<1>4. QED
  BY <1>2, <1>3

LEMMA MismatchMakes == ASSUME IInv, NEW a0, Progress(a0), Mismatch PROVE Progress(a0)'
<1>1. pc = "assign" /\ Blame("ETypeMismatch")
  BY DEF Mismatch, Plain
<1>2. ASSUME NEW a, Of(a, call), IsAssignment(a, Assignments(call)), Here(a), val = a.old
      PROVE  a.new = a.old /\ a.faults = {a.place}
  <2>1. a.src = src /\ Types[a.typ].kind = Kind
    BY <1>2 DEF Here, Kind
  <2>2. Kind \notin {"pointer", "interface"} /\ Kind \notin Scalars
    BY DEF Mismatch, Containers, Objects, Lists, Scalars, Own
  <2>3. /\ ~ Customised(src, Types[a.typ]) /\ ~ IsNull(src)
        /\ \/ Kind = "other"
           \/ ~ Enters(src, Kind) /\ ~ (Kind = "bytes" /\ src.kind = "string")
    BY <1>2 DEF Mismatch, Plain, Here
  <2>4. Form(a) = "misfit"
    BY <2>1, <2>2, <2>3 DEF Form, FormOf, Enters, Lists, Objects
  <2>5. ~ Fits(a)
    BY <2>4 DEF Fits
  <2>6. QED
    BY <1>2, <2>4, <2>5, Single DEF IsAssignment, Made
<1>3. QED
  BY <1>1, <1>2, Blamed

(* What is directly in an assignment of the call is one, too.               *)
LEMMA InnerFor ==
  ASSUME NEW c, NEW a, Of(a, c), IsAssignment(a, Assignments(c)), NEW i \in Inside(a)
  PROVE  LET b == a.inner[i] IN
         /\ Of(b, c) /\ b.typ = Elem(a, i)
         /\ b.src = (IF Form(a) = "pointer" THEN a.src ELSE a.src.kids[i])
         /\ b.place = (IF Form(a) = "pointer" THEN a.place ELSE Append(a.place, StepTo(a.src, i)))
         /\ b.old = (IF Form(a) = "map" THEN Zero[Elem(a, i)] ELSE Latest(a, Slot(a, i), i))
<1> DEFINE b == a.inner[i]
<1>1. /\ b \in Assignments(c) /\ b.opts = a.opts /\ b.typ = Elem(a, i)
      /\ b.src = (IF Form(a) = "pointer" THEN a.src ELSE a.src.kids[i])
      /\ b.place = (IF Form(a) = "pointer" THEN a.place ELSE Append(a.place, StepTo(a.src, i)))
      /\ b.old = (IF Form(a) = "map" THEN Zero[Elem(a, i)] ELSE Latest(a, Slot(a, i), i))
  BY DEF IsAssignment
<1>2. QED
  BY <1>1 DEF Of

LEMMA PushStands ==
  ASSUME IInv, NEW a0, NEW a, NEW F, Stands(a0, call, stack, Len(stack), a, F),
         NEW f, stack' = Append(stack, f)
  PROVE  /\ Stands(a0, call, stack', Len(stack), a, F) /\ Len(stack) \in Nat
         /\ Len(stack') = Len(stack) + 1 /\ stack'[Len(stack) + 1] = f
<1>1. /\ Len(stack) \in Nat /\ Len(stack') = Len(stack) + 1 /\ stack'[Len(stack) + 1] = f
      /\ \A i \in 1..Len(stack) : stack'[i] = stack[i]
  BY AppendListed DEF IInv, Calling
<1>2. Stands(a0, call, stack', Len(stack), a, F)
  BY <1>1, StandsStill
<1>3. QED
  BY <1>1, <1>2

(* An assignment begins with no fault. *)
LEMMA NoFaultYet ==
  ASSUME NEW a, a.src \in Values, a.typ \in DOMAIN Types
  PROVE  Sofar(a, 1) = {}
BY Numbers, SofarFirst

LEMMA FollowMakes == ASSUME IInv, NEW a0, Progress(a0), Follow PROVE Progress(a0)'
<1>1. PICK a : Stands(a0, call, stack, Len(stack), a, Places(errs)) /\ Here(a) /\ val = a.old
  BY DEF Progress, Beginning, Follow, Plain
<1>2. Of(a, call) /\ IsAssignment(a, Assignments(call))
  BY <1>1, Depth, StandsFor DEF IInv, Args
<1>3. a.src \in Values /\ a.typ \in DOMAIN Types /\ a.src = src /\ a.typ = typ /\ a.place = where
  BY <1>1 DEF Here, IInv, Args
<1>4. Form(a) = "pointer" /\ Types[typ].kind = "pointer"
  BY <1>3 DEF Follow, Plain, Kind, Form, FormOf
<1> DEFINE f == Frame(Nil)
           b == a.inner[1]
<1>5. f.k = 1 /\ Makes(a, f)
  BY <1>3 DEF Frame, Makes
<1>6. 1 \in Inside(a) /\ Slot(a, 1) = 1 /\ Elem(a, 1) = Types[typ].elem
  BY <1>3, <1>4 DEF Inside, Slot, Elem
<1>7. Waiting(a, f, b)
  BY <1>4, <1>5, <1>6 DEF Waiting
<1>8. /\ Of(b, call) /\ b.typ = Types[typ].elem /\ b.src = src /\ b.place = where
      /\ b.old = Latest(a, 1, 1)
  BY <1>2, <1>3, <1>4, <1>6, InnerFor
<1>9. b.old = IF val = Nil THEN Zero[Types[typ].elem] ELSE val.items[1]
  <2>1. Latest(a, 1, 1) = Initial(a, 1)
    BY <1>3, Numbers, LatestFirst
  <2>2. QED
    BY <1>1, <1>3, <1>4, <1>8, <2>1 DEF Initial
<1>10. /\ stack' = Append(stack, f) /\ typ' = Types[typ].elem /\ pc' = "assign"
       /\ val' = IF val = Nil THEN Zero[Types[typ].elem] ELSE val.items[1]
       /\ UNCHANGED <<call, src, errs, where>>
  BY DEF Follow, Plain
<1> HIDE DEF f, b
<1>11. Stands(a0, call, stack', Len(stack'), b, Places(errs) \cup Sofar(a, 1))
  <2>1. /\ Stands(a0, call, stack', Len(stack), a, Places(errs)) /\ Len(stack) \in Nat
        /\ Len(stack') = Len(stack) + 1 /\ stack'[Len(stack) + 1] = f
    BY <1>1, <1>10, PushStands
  <2>2. QED
    BY <1>5, <1>7, <1>8, <2>1, StandsDeeper
<1>12. Stands(a0, call', stack', Len(stack'), b, Places(errs'))
  BY <1>3, <1>10, <1>11, NoFaultYet
<1>13. Here(b)' /\ val' = b.old
  BY <1>8, <1>9, <1>10 DEF Here
<1>14. Beginning(a0)'
  BY <1>12, <1>13 DEF Beginning
<1>15. QED
  BY <1>10, <1>14 DEF Progress

(* The container as it is before the first item.                            *)
LEMMA FilledFirst ==
  ASSUME NEW a, a.src \in Values, a.typ \in DOMAIN Types, Shaped(a),
         Form(a) \in {"list", "map", "struct"}
  PROVE  LET t == Types[a.typ] IN
         Filled(a, 1) = IF t.kind \in {"slice", "bytes"}
                          THEN Items([i \in 1..Len(a.src.kids) |-> Zero[t.elem]])
                        ELSE IF t.kind = "map" /\ a.old = Nil THEN Entries(<<>>) ELSE a.old
<1> DEFINE t == Types[a.typ]
<1>1. Inside(a) \subseteq Nat \ {0} /\ \A s : Latest(a, s, 1) = Initial(a, s)
  BY Numbers, LatestFirst
<1>2. CASE Form(a) = "map"
  <2>1. t.kind = "map"
    BY <1>2, Forms
  <2>2. KeysOf(a, 1) = IF a.old = Nil THEN {} ELSE DOMAIN a.old.entries
    <3>1. {j \in Inside(a) : j < 1} = {}
      BY <1>1
    <3>2. QED
      BY <3>1 DEF KeysOf
  <2>3. Filled(a, 1) = Entries([k \in KeysOf(a, 1) |-> a.old.entries[k]])
    <3>1. \A k : Latest(a, k, 1) = a.old.entries[k]
      BY <1>1, <1>2 DEF Initial
    <3>2. [k \in KeysOf(a, 1) |-> Latest(a, k, 1)] = [k \in KeysOf(a, 1) |-> a.old.entries[k]]
      BY <3>1
    <3>3. QED
      BY <1>2, <3>2 DEF Filled
  <2>4. CASE a.old = Nil
    <3>1. [k \in KeysOf(a, 1) |-> a.old.entries[k]] = <<>>
      BY <2>2, <2>4
    <3>2. QED
      BY <2>1, <2>3, <2>4, <3>1
  <2>5. CASE a.old # Nil
    <3>1. a.old = Entries([k \in DOMAIN a.old.entries |-> a.old.entries[k]])
      BY <1>2, <2>5 DEF Shaped
    <3>2. QED
      BY <2>1, <2>2, <2>3, <2>5, <3>1
  <2>6. QED
    BY <2>4, <2>5
<1>3. CASE Form(a) # "map" /\ t.kind \in {"slice", "bytes"}
  <2>1. Form(a) = "list" /\ Size(a) = Len(a.src.kids)
    BY <1>3, Forms DEF Size
  <2>2. \A s : Latest(a, s, 1) = Zero[t.elem]
    BY <1>1, <1>3 DEF Initial
  <2>3. Filled(a, 1) = Items([s \in 1..Len(a.src.kids) |-> Zero[t.elem]])
    BY <1>3, <2>1, <2>2 DEF Filled
  <2>4. QED
    BY <1>3, <2>3
<1>4. CASE Form(a) # "map" /\ t.kind \notin {"slice", "bytes"}
  <2>1. Form(a) = "struct" \/ (Form(a) = "list" /\ t.kind = "array")
    BY <1>4, Forms DEF Lists
  <2>2. a.old = Items([s \in 1..Size(a) |-> a.old.items[s]])
    BY <2>1 DEF Shaped
  <2>3. a.old # Nil
    BY <2>2 DEF Items, Nil, GoValue
  <2>4. \A s : Latest(a, s, 1) = a.old.items[s]
    BY <1>1, <1>4, <2>3 DEF Initial
  <2>5. Filled(a, 1) = Items([s \in 1..Size(a) |-> a.old.items[s]])
    <3>1. [s \in 1..Size(a) |-> Latest(a, s, 1)] = [s \in 1..Size(a) |-> a.old.items[s]]
      BY <2>4
    <3>2. QED
      BY <1>4, <3>1 DEF Filled
  <2>6. QED
    BY <1>4, <2>1, <2>2, <2>3, <2>5, Forms
<1>5. QED
  BY <1>2, <1>3, <1>4

LEMMA EnterMakes == ASSUME IInv, NEW a0, Progress(a0), Enter PROVE Progress(a0)'
<1>1. PICK a : Stands(a0, call, stack, Len(stack), a, Places(errs)) /\ Here(a) /\ val = a.old
  BY DEF Progress, Beginning, Enter, Plain
<1>2. Of(a, call) /\ IsAssignment(a, Assignments(call))
  BY <1>1, Depth, StandsFor DEF IInv, Args
<1>3. a.src \in Values /\ a.typ \in DOMAIN Types /\ a.src = src /\ a.typ = typ /\ a.place = where
  BY <1>1 DEF Here, IInv, Args
<1>4. Form(a) \in {"list", "map", "struct"}
  <2>1. Kind \notin {"pointer", "interface"} /\ Kind \notin Scalars
    BY DEF Enter, Containers, Objects, Lists, Scalars, Own
  <2>2. ~ Customised(src, Types[typ]) /\ ~ IsNull(src) /\ Enters(src, Kind)
    BY DEF Enter, Plain
  <2>3. QED
    BY <1>3, <2>1, <2>2 DEF Form, FormOf, Kind, Enters, Objects
<1> DEFINE f == Frame(Fresh)
<1>5. f.k = 1 /\ f.made = Fresh /\ f.seen = {} /\ Makes(a, f)
  BY <1>3 DEF Frame, Makes
<1>6. Filled(a, 1) = Fresh
  <2>1. Shaped(a)
    BY <1>2 DEF IsAssignment
  <2>2. QED
    BY <1>1, <1>3, <1>4, <2>1, FilledFirst DEF Fresh, Kind
<1>7. Names(a, 1) = {}
  <2>1. {j \in Inside(a) : j < 1} = {}
    BY <1>3, Numbers
  <2>2. QED
    BY <2>1 DEF Names
<1>8. stack' = Append(stack, f) /\ pc' = "loop" /\ UNCHANGED <<call, errs>>
  BY DEF Enter
<1> HIDE DEF f
<1>9. Between(a, f)
  BY <1>4, <1>5, <1>6, <1>7 DEF Between
<1>10. /\ Stands(a0, call, stack', Len(stack), a, Places(errs)) /\ Len(stack) \in Nat
       /\ Len(stack') = Len(stack) + 1 /\ stack'[Len(stack) + 1] = f
  BY <1>1, <1>8, PushStands
<1>11. Top' = f /\ Len(stack') - 1 = Len(stack)
  BY <1>10 DEF Top
<1>12. Places(errs') = Places(errs) \cup Sofar(a, 1)
  BY <1>3, <1>8, NoFaultYet
<1>13. Underway(a0)'
  BY <1>5, <1>8, <1>9, <1>10, <1>11, <1>12 DEF Underway
<1>14. QED
  BY <1>8, <1>13 DEF Progress

-----------------------------------------------------------------------------
(* The loop of a container. *)
LEMMA InLoop ==
  ASSUME IInv, NEW a0, Progress(a0), pc = "loop"
  PROVE  \E a, F : /\ Stands(a0, call, stack, Len(stack) - 1, a, F) /\ Between(a, Top)
                   /\ Places(errs) = F \cup Sofar(a, Top.k)
                   /\ Of(a, call) /\ IsAssignment(a, Assignments(call))
                   /\ a.src = Top.src /\ a.typ = Top.typ /\ a.src \in Values /\ a.typ \in DOMAIN Types
                   /\ a.place = where /\ Types[a.typ] = Whole
                   /\ Whole.kind = "struct" <=> Form(a) = "struct"
                   /\ Whole.kind = "map" <=> Form(a) = "map"
<1>1. PICK a, F : /\ Stands(a0, call, stack, Len(stack) - 1, a, F) /\ Between(a, Top)
                  /\ Places(errs) = F \cup Sofar(a, Top.k)
  BY DEF Progress, Underway
<1>2. stack # <<>> /\ Top.src \in Values /\ Top.typ \in DOMAIN Types /\ where = Top.where
  BY LoopTop
<1>3. Len(stack) - 1 \in Nat
  BY <1>2, Depth
<1>4. Of(a, call) /\ IsAssignment(a, Assignments(call))
  BY <1>1, <1>3, StandsFor DEF IInv, Args
<1>5. a.src = Top.src /\ a.typ = Top.typ /\ a.place = where /\ Types[a.typ] = Whole
  BY <1>1, <1>2 DEF Between, Makes, Whole
<1>6. (Whole.kind = "struct" <=> Form(a) = "struct") /\ (Whole.kind = "map" <=> Form(a) = "map")
  BY <1>1, <1>5, Forms DEF Between, Lists
<1>7. QED
  BY <1>1, <1>2, <1>4, <1>5, <1>6

(* A change of the innermost call. *)
LEMMA TopStands ==
  ASSUME IInv, stack # <<>>, NEW f, stack' = [stack EXCEPT ![Len(stack)] = f]
  PROVE  /\ Len(stack) \in Nat \ {0} /\ Len(stack) - 1 \in Nat
         /\ Len(stack') = Len(stack) /\ Top' = f /\ stack'[Len(stack)] = f
         /\ \A a0, a, F : Stands(a0, call, stack, Len(stack) - 1, a, F)
                            => Stands(a0, call, stack', Len(stack) - 1, a, F)
<1>1. /\ Len(stack) \in Nat \ {0} /\ Len(stack') = Len(stack)
      /\ stack'[Len(stack)] = f /\ \A i \in 1..(Len(stack) - 1) : stack'[i] = stack[i]
  BY LastListed DEF IInv, Calling
<1>2. Len(stack) - 1 \in Nat
  <2>1. Len(stack) \in Nat \ {0}
    BY <1>1
  <2>2. QED
    BY ONLY <2>1
<1>3. ASSUME NEW a0, NEW a, NEW F, Stands(a0, call, stack, Len(stack) - 1, a, F)
      PROVE  Stands(a0, call, stack', Len(stack) - 1, a, F)
  BY <1>1, <1>2, <1>3, StandsStill
<1>4. QED
  BY <1>1, <1>2, <1>3 DEF Top

(* The item is one that is to be assigned, if a field is for it.            *)
LEMMA ItemInside ==
  ASSUME Looping, NEW a, a.src = Top.src, a.typ = Top.typ, a.src \in Values, a.typ \in DOMAIN Types,
         Types[a.typ] = Whole, Form(a) \in {"list", "map", "struct"}, Top.k \in Nat \ {0},
         Whole.kind = "struct" <=> Form(a) = "struct"
  PROVE  /\ Top.k \in 1..Len(a.src.kids)
         /\ Whole.kind = "struct" => Slot(a, Top.k) = Field /\ Field \in 0..Len(Whole.ordered)
         /\ Top.k \in Inside(a) <=> (Whole.kind = "struct" => Field # 0)
<1>1. Len(a.src.kids) \in Nat /\ Whole.length \in Nat
  BY Numbers
<1>2. Top.k \in 1..Len(a.src.kids) /\ (Whole.kind = "array" => Top.k <= Whole.length)
  BY <1>1 DEF Looping, Count
<1>3. ASSUME Whole.kind = "struct" PROVE Slot(a, Top.k) = Field /\ Field \in 0..Len(Whole.ordered)
  <2>1. /\ Found(Whole.table, a.src.keys[Top.k]) = FieldFor(Whole, a.src.keys[Top.k])
        /\ FieldFor(Whole, a.src.keys[Top.k]) \in 0..Len(Whole.ordered)
    BY FoundIsFieldFor
  <2>2. QED
    BY <1>3, <2>1 DEF Slot, Field
<1>4. QED
  BY <1>2, <1>3 DEF Inside

LEMMA ItemMakes == ASSUME IInv, NEW a0, Progress(a0), Item PROVE Progress(a0)'
<1>1. pc = "loop" /\ Looping /\ (Whole.kind = "struct" => Field # 0)
  BY DEF Item, Looping
<1>2. PICK a, F : /\ Stands(a0, call, stack, Len(stack) - 1, a, F) /\ Between(a, Top)
                  /\ Places(errs) = F \cup Sofar(a, Top.k)
                  /\ Of(a, call) /\ IsAssignment(a, Assignments(call))
                  /\ a.src = Top.src /\ a.typ = Top.typ /\ a.src \in Values /\ a.typ \in DOMAIN Types
                  /\ a.place = where /\ Types[a.typ] = Whole
                  /\ Whole.kind = "struct" <=> Form(a) = "struct"
                  /\ Whole.kind = "map" <=> Form(a) = "map"
  BY <1>1, InLoop
<1>3. /\ stack # <<>> /\ FrameOK(Top) /\ Top.k \in Nat \ {0}
      /\ Form(a) \in {"list", "map", "struct"}
  BY <1>1, <1>2, LoopTop DEF Between
<1>4. /\ Top.k \in 1..Len(a.src.kids) /\ Top.k \in Inside(a)
      /\ Whole.kind = "struct" => Slot(a, Top.k) = Field /\ Field \in 1..Len(Whole.ordered)
  BY <1>1, <1>2, <1>3, ItemInside
<1> DEFINE f == [Top EXCEPT !.seen = @ \cup Seen]
           b == a.inner[Top.k]
<1>5. /\ f.src = Top.src /\ f.typ = Top.typ /\ f.made = Top.made /\ f.k = Top.k
      /\ f.seen = Top.seen \cup Seen /\ f.where = Top.where
  <2>1. f = [src |-> Top.src, typ |-> Top.typ, made |-> Top.made, k |-> Top.k,
             seen |-> Top.seen \cup Seen, where |-> Top.where]
    BY <1>3, FrameChanged
  <2> HIDE DEF f
  <2>2. QED
    BY <2>1
<1>6. stack' = [stack EXCEPT ![Len(stack)] = f]
  BY DEF Item, Top
<1>7. /\ Of(b, call) /\ b.typ = Elem(a, Top.k) /\ b.src = a.src.kids[Top.k]
      /\ b.place = Append(a.place, StepTo(a.src, Top.k))
      /\ b.old = (IF Form(a) = "map" THEN Zero[Elem(a, Top.k)] ELSE Latest(a, Slot(a, Top.k), Top.k))
  <2>1. Form(a) # "pointer"
    BY <1>3
  <2>2. Of(a, call) /\ IsAssignment(a, Assignments(call)) /\ Top.k \in Inside(a)
    BY <1>2, <1>4
  <2> HIDE DEF f
  <2>3. /\ Of(b, call) /\ b.typ = Elem(a, Top.k)
        /\ b.src = (IF Form(a) = "pointer" THEN a.src ELSE a.src.kids[Top.k])
        /\ b.place = (IF Form(a) = "pointer" THEN a.place ELSE Append(a.place, StepTo(a.src, Top.k)))
        /\ b.old = (IF Form(a) = "map" THEN Zero[Elem(a, Top.k)] ELSE Latest(a, Slot(a, Top.k), Top.k))
    BY ONLY <2>2, InnerFor
  <2> HIDE DEF b
  <2>4. QED
    BY ONLY <2>1, <2>3
<1> HIDE DEF f, b
<1>8. Waiting(a, f, b)
  <2>1. Makes(a, f) /\ f.k \in Inside(a) /\ b = a.inner[f.k]
    BY <1>2, <1>4, <1>5 DEF Between, Makes, b
  <2>2. f.made = Filled(a, f.k)
    BY <1>2, <1>5 DEF Between
  <2>3. ASSUME Form(a) = "struct" PROVE f.seen = Names(a, f.k + 1)
    <3>1. Top.seen = Names(a, Top.k) /\ Inside(a) \subseteq Nat
      BY <1>2, <2>3, Numbers DEF Between
    <3>2. Seen = {Whole.ordered[Slot(a, Top.k)].name}
      BY <1>2, <1>4, <2>3 DEF Seen
    <3>3. QED
      BY <1>2, <1>4, <1>5, <3>1, <3>2, NamesNext
  <2>4. QED
    BY <2>1, <2>2, <2>3 DEF Waiting
<1>9. Stands(a0, call, stack', Len(stack'), b, F \cup Sofar(a, Top.k))
  <2>1. /\ Len(stack) - 1 \in Nat /\ Len(stack') = Len(stack) /\ Len(stack) \in Nat
        /\ stack'[Len(stack)] = f /\ Stands(a0, call, stack', Len(stack) - 1, a, F)
    BY <1>2, <1>3, <1>6, TopStands
  <2> DEFINE n == Len(stack) - 1
  <2>2. n + 1 = Len(stack)
    BY ONLY <2>1
  <2>3. Waiting(a, stack'[n + 1], b)
    BY <1>8, <2>1, <2>2
  <2>4. Sofar(a, stack'[n + 1].k) = Sofar(a, Top.k)
    BY <1>5, <2>1, <2>2
  <2> HIDE DEF n
  <2>5. n \in Nat /\ Stands(a0, call, stack', n, a, F)
    BY <2>1 DEF n
  <2>6. Stands(a0, call, stack', n + 1, b, F \cup Sofar(a, stack'[n + 1].k))
    BY <1>7, <2>3, <2>5, StandsDeeper
  <2>7. QED
    BY <2>1, <2>2, <2>4, <2>6
<1>10. src' = b.src /\ typ' = b.typ /\ where' = b.place
  <2>1. ItemType = Elem(a, Top.k)
    BY <1>2, <1>4 DEF ItemType, Elem
  <2>2. QED
    BY <1>2, <1>7, <2>1 DEF Item, NextStep
<1>11. val' = b.old
  <2>1. Top.made = Filled(a, Top.k)
    BY <1>2 DEF Between
  <2>2. CASE Form(a) = "map"
    BY <1>2, <1>7, <2>2 DEF Item, ItemValue, Elem
  <2>3. CASE Form(a) # "map"
    <3>1. Slot(a, Top.k) \in 1..Size(a)
      <4>1. CASE Form(a) = "struct"
        BY <1>2, <1>4, <4>1 DEF Size
      <4>2. CASE Form(a) = "list"
        BY <1>2, <1>4, <4>2, Numbers DEF Size, Slot, Inside
      <4>3. QED
        BY <1>3, <2>3, <4>1, <4>2
    <3>2. Top.made.items = [s \in 1..Size(a) |-> Latest(a, s, Top.k)]
      BY <2>1, <2>3 DEF Filled, Items, GoValue
    <3>3. ItemValue = Top.made.items[Slot(a, Top.k)]
      BY <1>2, <1>3, <1>4, <2>3 DEF ItemValue, Slot
    <3>4. QED
      BY <1>7, <2>3, <3>1, <3>2, <3>3 DEF Item
  <2>4. QED
    BY <2>2, <2>3
<1>12. pc' = "assign" /\ call' = call /\ errs' = errs
  BY DEF Item
<1>13. Beginning(a0)'
  BY <1>2, <1>9, <1>10, <1>11, <1>12 DEF Beginning, Here
<1>14. QED
  BY <1>12, <1>13 DEF Progress

(* A member or field that is nothing to assign: the loop goes on, with the  *)
(* fault if it is one. *)
LEMMA SkipMakes ==
  ASSUME IInv, NEW a0, pc = "loop", Skip, UNCHANGED <<call, pc>>, stack # <<>>, FrameOK(Top),
         NEW a, NEW F, Stands(a0, call, stack, Len(stack) - 1, a, F), Between(a, Top),
         Inside(a) \subseteq Nat, Top.k \in Nat, Top.k \notin Inside(a),
         Places(errs') = F \cup Sofar(a, Top.k + 1)
  PROVE  Progress(a0)'
<1> DEFINE f == [Top EXCEPT !.k = @ + 1]
<1>1. f = [src |-> Top.src, typ |-> Top.typ, made |-> Top.made, k |-> Top.k + 1,
           seen |-> Top.seen, where |-> Top.where]
  BY DEF FrameOK
<1>2. stack' = [stack EXCEPT ![Len(stack)] = f]
  BY DEF Skip, Top
<1> HIDE DEF f
<1>3. /\ f.src = Top.src /\ f.typ = Top.typ /\ f.made = Top.made /\ f.k = Top.k + 1
      /\ f.seen = Top.seen /\ f.where = Top.where
  BY <1>1
<1>4. Filled(a, f.k) = Filled(a, Top.k) /\ Names(a, f.k) = Names(a, Top.k)
  BY <1>3, FilledSkips
<1>5. Between(a, f)
  BY <1>3, <1>4 DEF Between, Makes
<1>6. /\ Len(stack') = Len(stack) /\ Top' = f
      /\ Stands(a0, call, stack', Len(stack) - 1, a, F)
  BY <1>2, TopStands
<1>7. Stands(a0, call', stack', Len(stack') - 1, a, F)
  BY <1>6
<1>8. Between(a, Top')
  BY <1>5, <1>6
<1>9. Places(errs') = F \cup Sofar(a, Top'.k)
  BY <1>3, <1>6
<1>10. Underway(a0)'
  BY <1>7, <1>8, <1>9 DEF Underway
<1>11. pc' = "loop"
  OBVIOUS
<1>12. QED
  BY <1>10, <1>11 DEF Progress

LEMMA Reported ==
  ASSUME IInv, NEW code, NEW step, NEW v, where \in Seq(Steps)
  PROVE  /\ Report(TRUE, code, step, v) => Places(errs') = Places(errs) \cup {Append(where, step)}
         /\ errs' = errs => Places(errs') = Places(errs)
<1>1. errs \in Seq(Errors)
  BY DEF IInv, Paths, ErrsOK
<1>2. ASSUME Report(TRUE, code, step, v) PROVE Places(errs') = Places(errs) \cup {Append(where, step)}
  <2> DEFINE e == OnPath(code, Pushed(paths, step), Append(where, step), v)
  <2>1. errs' = Append(errs, e)
    BY <1>2 DEF Report
  <2>2. e.place = Append(where, step)
    BY DEF OnPath
  <2> HIDE DEF e
  <2>3. QED
    BY <1>1, <2>1, <2>2, MorePlaces
<1>3. QED
  BY <1>2

LEMMA UnknownMakes == ASSUME IInv, NEW a0, Progress(a0), Unknown PROVE Progress(a0)'
<1>1. pc = "loop" /\ Looping /\ Whole.kind = "struct" /\ Field = 0
  BY DEF Unknown, Looping
<1>2. PICK a, F : /\ Stands(a0, call, stack, Len(stack) - 1, a, F) /\ Between(a, Top)
                  /\ Places(errs) = F \cup Sofar(a, Top.k)
                  /\ Of(a, call) /\ IsAssignment(a, Assignments(call))
                  /\ a.src = Top.src /\ a.typ = Top.typ /\ a.src \in Values /\ a.typ \in DOMAIN Types
                  /\ a.place = where /\ Types[a.typ] = Whole
                  /\ Whole.kind = "struct" <=> Form(a) = "struct"
                  /\ Whole.kind = "map" <=> Form(a) = "map"
  BY <1>1, InLoop
<1>3. /\ stack # <<>> /\ FrameOK(Top) /\ Top.k \in Nat \ {0} /\ where \in Seq(Steps)
      /\ Form(a) = "struct"
  BY <1>1, <1>2, LoopTop
<1>4. Top.k \in 1..Len(a.src.kids) /\ Top.k \notin Inside(a)
  BY <1>1, <1>2, <1>3, ItemInside
<1>5. /\ Inside(a) \subseteq Nat \ {0} /\ Strangers(a) \subseteq Nat \ {0}
      /\ Absent(a) \subseteq Nat \ {0} /\ Len(a.src.kids) \in Nat
  BY <1>2, Numbers
<1>6. Top.k \in Strangers(a) <=> call.opts.disallowUnknown
  BY <1>2, <1>3, <1>4 DEF Strangers, Of
<1>7. Top.k - Len(a.src.kids) \notin Absent(a)
  BY <1>4, <1>5
<1>8. Sofar(a, Top.k + 1) = Sofar(a, Top.k)
        \cup (IF call.opts.disallowUnknown THEN {Append(where, NextStep)} ELSE {})
  <2>1. Sofar(a, Top.k + 1) = Sofar(a, Top.k) \cup {}
          \cup (IF Top.k \in Strangers(a) THEN {Append(a.place, StepTo(a.src, Top.k))} ELSE {}) \cup {}
    BY <1>3, <1>4, <1>5, <1>7, SofarNext
  <2>2. QED
    BY <1>2, <1>6, <2>1 DEF NextStep
<1>9. Places(errs') = Places(errs)
        \cup (IF call.opts.disallowUnknown THEN {Append(where, NextStep)} ELSE {})
  BY <1>3, Reported DEF Unknown
<1>10. Places(errs') = F \cup Sofar(a, Top.k + 1)
  BY <1>2, <1>8, <1>9
<1>11. Skip /\ UNCHANGED <<call, pc>>
  BY DEF Unknown
<1>12. QED
  BY <1>1, <1>2, <1>3, <1>4, <1>5, <1>10, <1>11, SkipMakes

LEMMA MissingMakes == ASSUME IInv, NEW a0, Progress(a0), Missing PROVE Progress(a0)'
<1>1. pc = "loop" /\ Whole.kind = "struct" /\ call.opts.requireFields /\ Checked \in 1..Len(Whole.ordered)
  BY DEF Missing, Requires
<1>2. PICK a, F : /\ Stands(a0, call, stack, Len(stack) - 1, a, F) /\ Between(a, Top)
                  /\ Places(errs) = F \cup Sofar(a, Top.k)
                  /\ Of(a, call) /\ IsAssignment(a, Assignments(call))
                  /\ a.src = Top.src /\ a.typ = Top.typ /\ a.src \in Values /\ a.typ \in DOMAIN Types
                  /\ a.place = where /\ Types[a.typ] = Whole
                  /\ Whole.kind = "struct" <=> Form(a) = "struct"
                  /\ Whole.kind = "map" <=> Form(a) = "map"
  BY <1>1, InLoop
<1>3. /\ stack # <<>> /\ FrameOK(Top) /\ Top.k \in Nat \ {0} /\ where \in Seq(Steps)
      /\ Form(a) = "struct"
  BY <1>1, <1>2, LoopTop
<1>4. /\ Inside(a) \subseteq Nat \ {0} /\ Strangers(a) \subseteq Nat \ {0}
      /\ Absent(a) \subseteq Nat \ {0} /\ Len(a.src.kids) \in Nat
      /\ Inside(a) \subseteq 1..Len(a.src.kids)
  BY <1>2, <1>3, Numbers
<1> DEFINE l == Len(a.src.kids)
           field == Whole.ordered[Checked]
           missed == field.required /\ field.name \notin Top.seen
<1>5. Checked = Top.k - l
  BY <1>1, <1>2 DEF Checked, Count
<1>6. Top.k > l /\ Top.k \notin Inside(a) /\ Top.k \notin Strangers(a)
  <2>1. Top.k > l
    BY <1>1, <1>3, <1>4, <1>5
  <2>2. QED
    BY <1>4, <2>1 DEF Strangers
<1>7. Checked \in Absent(a) <=> missed
  <2>1. Top.seen = {Whole.ordered[Slot(a, i)].name : i \in {j \in Inside(a) : j < Top.k}}
    BY <1>2, <1>3 DEF Between, Names
  <2>2. {j \in Inside(a) : j < Top.k} = Inside(a)
    BY <1>3, <1>4, <1>6
  <2>3. field.name \notin Top.seen <=> \A i \in Inside(a) : Whole.ordered[Slot(a, i)].name # field.name
    BY <2>1, <2>2
  <2>4. QED
    BY <1>1, <1>2, <1>3, <2>3 DEF Absent, Of
<1> HIDE DEF missed
<1>8. Sofar(a, Top.k + 1) = Sofar(a, Top.k)
        \cup (IF missed THEN {Append(where, KeyStep(field.name))} ELSE {})
  <2> DEFINE j == Top.k - Len(a.src.kids)
  <2>1. Sofar(a, Top.k + 1) = Sofar(a, Top.k) \cup {} \cup {}
          \cup (IF j \in Absent(a) THEN {Append(a.place, KeyStep(Types[a.typ].ordered[j].name))} ELSE {})
    BY <1>3, <1>4, <1>6, SofarNext
  <2>2. j = Checked
    BY <1>5
  <2> HIDE DEF j
  <2>3. QED
    BY <1>2, <1>7, <2>1, <2>2
<1>9. Places(errs') = Places(errs)
        \cup (IF missed THEN {Append(where, KeyStep(field.name))} ELSE {})
  <2>1. Report(missed, "ERequiredField", KeyStep(field.name), Top.src)
    BY DEF Missing, missed
  <2>2. CASE missed
    BY <1>3, <2>1, <2>2, Reported DEF Report
  <2>3. CASE ~ missed
    BY <2>1, <2>3 DEF Report
  <2>4. QED
    BY <2>2, <2>3
<1>10. Places(errs') = F \cup Sofar(a, Top.k + 1)
  BY <1>2, <1>8, <1>9
<1>11. Skip /\ UNCHANGED <<call, pc>>
  BY DEF Missing
<1>12. QED
  BY <1>1, <1>2, <1>3, <1>4, <1>6, <1>10, <1>11, SkipMakes

-----------------------------------------------------------------------------
(* A call ends. *)
LEMMA PopStands ==
  ASSUME IInv, stack # <<>>, stack' = Pop(stack), NEW a0, NEW a, NEW F,
         Stands(a0, call, stack, Len(stack) - 1, a, F)
  PROVE  Stands(a0, call, stack', Len(stack'), a, F)
<1>1. /\ Len(stack) \in Nat \ {0} /\ Len(stack') = Len(stack) - 1
      /\ \A i \in 1..(Len(stack) - 1) : stack'[i] = stack[i]
  BY PopListed DEF IInv, Calling
<1>2. Len(stack) - 1 \in Nat
  <2>1. Len(stack) \in Nat \ {0}
    BY <1>1
  <2>2. QED
    BY ONLY <2>1
<1>3. Stands(a0, call, stack', Len(stack) - 1, a, F)
  BY <1>1, <1>2, StandsStill
<1>4. QED
  BY <1>1, <1>3

(* After its last item a container is what it is to be, with all its faults. *)
LEMMA LeaveMakes == ASSUME IInv, NEW a0, Progress(a0), Leave PROVE Progress(a0)'
<1>1. pc = "loop" /\ Checked > (IF Requires THEN Len(Whole.ordered) ELSE 0)
  BY DEF Leave
<1>2. PICK a, F : /\ Stands(a0, call, stack, Len(stack) - 1, a, F) /\ Between(a, Top)
                  /\ Places(errs) = F \cup Sofar(a, Top.k)
                  /\ Of(a, call) /\ IsAssignment(a, Assignments(call))
                  /\ a.src = Top.src /\ a.typ = Top.typ /\ a.src \in Values /\ a.typ \in DOMAIN Types
                  /\ a.place = where /\ Types[a.typ] = Whole
                  /\ Whole.kind = "struct" <=> Form(a) = "struct"
                  /\ Whole.kind = "map" <=> Form(a) = "map"
  BY <1>1, InLoop
<1>3. stack # <<>> /\ Top.k \in Nat \ {0} /\ Form(a) \in {"list", "map", "struct"}
  BY <1>1, <1>2, LoopTop DEF Between
<1> DEFINE l == Len(a.src.kids)
<1>4. /\ Strangers(a) \subseteq Nat \ {0} /\ Absent(a) \subseteq Nat \ {0} /\ l \in Nat
      /\ Inside(a) \subseteq 1..l /\ Whole.length \in Nat /\ Len(Whole.ordered) \in Nat
  BY <1>2, <1>3, Numbers
<1>5. /\ Top.k > Count(a.src, Whole) /\ Count(a.src, Whole) \in Nat
      /\ Count(a.src, Whole) = IF Whole.kind = "array" /\ Whole.length < l THEN Whole.length ELSE l
      /\ Requires => Top.k - l > Len(Whole.ordered)
  <2>1. Count(a.src, Whole) = IF Whole.kind = "array" /\ Whole.length < l THEN Whole.length ELSE l
    BY DEF Count
  <2>2. Checked = Top.k - Count(a.src, Whole)
    BY <1>2 DEF Checked
  <2>3. CASE Requires
    BY <1>1, <1>3, <1>4, <2>1, <2>2, <2>3 DEF Requires
  <2>4. CASE ~ Requires
    BY <1>1, <1>3, <1>4, <2>1, <2>2, <2>4
  <2>5. QED
    BY <2>3, <2>4
<1>6. ASSUME NEW i \in Inside(a) PROVE i \in Nat /\ i < Top.k /\ i < l + 1
  <2>1. Whole.kind = "array" => i <= Whole.length
    BY <1>2, <1>3 DEF Inside
  <2>2. QED
    BY <1>3, <1>4, <1>5, <2>1
<1>7. ASSUME NEW i \in Strangers(a) PROVE i < Top.k
  <2>1. i \in 1..l /\ Whole.kind = "struct"
    BY <1>2 DEF Strangers
  <2>2. QED
    BY <1>3, <1>4, <1>5, <2>1
<1>8. ASSUME NEW j \in Absent(a) PROVE j < Top.k - l
  <2>1. j \in 1..Len(Whole.ordered) /\ Requires
    BY <1>2 DEF Absent, Requires, Of
  <2>2. QED
    BY <1>3, <1>4, <1>5, <2>1
<1>9. Fits(a)
  BY <1>3, Forms
<1>10. a.new = Top.made
  <2>1. Filled(a, Top.k) = Filled(a, l + 1)
    BY <1>3, <1>4, <1>6, LatestLast
  <2>2. Made(a) = Filled(a, l + 1)
    BY <1>3, <1>9 DEF Made
  <2>3. QED
    BY <1>2, <2>1, <2>2 DEF IsAssignment, Between
<1>11. Sofar(a, Top.k) = a.faults
  <2>1. Sofar(a, Top.k) = Faults(a)
    BY <1>3, <1>6, <1>7, <1>8, <1>9, SofarLast
  <2>2. QED
    BY <1>2, <2>1 DEF IsAssignment
<1>12. /\ val' = Top.made /\ src' = Top.src /\ typ' = Top.typ /\ stack' = Pop(stack)
       /\ pc' = "return" /\ UNCHANGED <<call, errs, where>>
  BY DEF Leave
<1>13. Stands(a0, call, stack', Len(stack'), a, F)
  BY <1>2, <1>3, <1>12, PopStands
<1>14. Here(a)' /\ val' = a.new /\ Places(errs') = F \cup a.faults
  BY <1>2, <1>10, <1>11, <1>12 DEF Here
<1>15. Finished(a0)'
  BY <1>12, <1>13, <1>14 DEF Finished
<1>16. QED
  BY <1>12, <1>15 DEF Progress

(* What has been made is what the innermost call waits for.                 *)
LEMMA InReturn ==
  ASSUME IInv, NEW a0, Progress(a0), pc = "return", stack # <<>>
  PROVE  \E a, b, G : /\ Stands(a0, call, stack, Len(stack) - 1, a, G) /\ Waiting(a, Top, b)
                      /\ Places(errs) = G \cup Sofar(a, Top.k) \cup b.faults
                      /\ val = b.new /\ where = b.place
                      /\ Of(a, call) /\ IsAssignment(a, Assignments(call))
                      /\ a.src = Top.src /\ a.typ = Top.typ /\ a.src \in Values /\ a.typ \in DOMAIN Types
                      /\ Types[a.typ] = Whole /\ Top.k \in Nat \ {0}
                      /\ Form(a) \in {"pointer", "list", "map", "struct"}
                      /\ \A form \in {"pointer", "map", "struct"} : Whole.kind = form <=> Form(a) = form
<1>1. PICK b, F : /\ Stands(a0, call, stack, Len(stack), b, F) /\ Here(b) /\ val = b.new
                  /\ Places(errs) = F \cup b.faults
  BY DEF Progress, Finished
<1>2. Len(stack) \in Nat \ {0}
  BY Depth
<1>3. PICK a, G : /\ Stands(a0, call, stack, Len(stack) - 1, a, G) /\ Of(a, call)
                  /\ Waiting(a, stack[Len(stack)], b) /\ F = G \cup Sofar(a, stack[Len(stack)].k)
  BY <1>1, <1>2, StandsHigher
<1>4. FrameOK(Top)
  BY TopCall DEF IInv, Top
<1>5. /\ a.src = Top.src /\ a.typ = Top.typ /\ a.src \in Values /\ a.typ \in DOMAIN Types
      /\ Types[a.typ] = Whole /\ Top.k \in Nat \ {0} /\ Top.k \in Inside(a)
  BY <1>3, <1>4 DEF Waiting, Makes, Top, Whole, FrameOK
<1>6. Form(a) \in {"pointer", "list", "map", "struct"}
  BY <1>5 DEF Inside
<1>7. \A form \in {"pointer", "map", "struct"} : Whole.kind = form <=> Form(a) = form
  BY <1>5, <1>6, Forms DEF Lists
<1>8. IsAssignment(a, Assignments(call))
  BY <1>3, AssignmentsAssumption DEF Of, IInv, Args
<1>9. QED
  BY <1>1, <1>3, <1>5, <1>6, <1>7, <1>8 DEF Top, Here

LEMMA PointedMakes == ASSUME IInv, NEW a0, Progress(a0), Pointed PROVE Progress(a0)'
<1>1. pc = "return" /\ stack # <<>> /\ Whole.kind = "pointer"
  BY DEF Pointed
<1>2. PICK a, b, G : /\ Stands(a0, call, stack, Len(stack) - 1, a, G) /\ Waiting(a, Top, b)
                     /\ Places(errs) = G \cup Sofar(a, Top.k) \cup b.faults
                     /\ val = b.new /\ where = b.place
                     /\ Of(a, call) /\ IsAssignment(a, Assignments(call))
                     /\ a.src = Top.src /\ a.typ = Top.typ /\ a.src \in Values /\ a.typ \in DOMAIN Types
                     /\ Types[a.typ] = Whole /\ Top.k \in Nat \ {0}
                     /\ Form(a) \in {"pointer", "list", "map", "struct"}
                     /\ \A form \in {"pointer", "map", "struct"} : Whole.kind = form <=> Form(a) = form
  BY <1>1, InReturn
<1>3. Form(a) = "pointer" /\ Inside(a) = {1} /\ Top.k = 1 /\ b = a.inner[1]
  <2>1. Form(a) = "pointer"
    BY <1>1, <1>2
  <2>2. Inside(a) = {1}
    BY <2>1 DEF Inside
  <2>3. QED
    BY <1>2, <2>1, <2>2 DEF Waiting
<1>4. a.place = where
  <2>1. b.place = a.place
    BY <1>2, <1>3 DEF IsAssignment
  <2>2. QED
    BY <1>2, <2>1
<1>5. Fits(a) /\ Strangers(a) = {} /\ Absent(a) = {}
  BY <1>3, Forms DEF Strangers, Absent
<1>6. a.new = Pointer(val)
  <2>1. Made(a) = Pointer(a.inner[1].new)
    BY <1>3, <1>5 DEF Made
  <2>2. QED
    BY <1>2, <1>3, <2>1 DEF IsAssignment
<1>7. a.faults = b.faults
  <2>1. UNION {a.inner[i].faults : i \in Inside(a)} = b.faults
    BY <1>3
  <2>2. {Append(a.place, StepTo(a.src, i)) : i \in Strangers(a)} = {}
    BY <1>5
  <2>3. {Append(a.place, KeyStep(Types[a.typ].ordered[j].name)) : j \in Absent(a)} = {}
    BY <1>5
  <2>4. Faults(a) = b.faults
    BY <1>5, <2>1, <2>2, <2>3 DEF Faults
  <2>5. QED
    BY <1>2, <2>4 DEF IsAssignment
<1>8. Sofar(a, Top.k) = {}
  BY <1>2, <1>3, NoFaultYet
<1>9. /\ val' = Pointer(val) /\ src' = Top.src /\ typ' = Top.typ /\ stack' = Pop(stack)
      /\ pc' = "return" /\ UNCHANGED <<call, errs, where>>
  BY DEF Pointed
<1>10. Stands(a0, call, stack', Len(stack'), a, G)
  BY <1>1, <1>2, <1>9, PopStands
<1>11. Here(a)' /\ val' = a.new /\ Places(errs') = G \cup a.faults
  BY <1>2, <1>4, <1>6, <1>7, <1>8, <1>9 DEF Here
<1>12. Finished(a0)'
  BY <1>9, <1>10, <1>11 DEF Finished
<1>13. QED
  BY <1>9, <1>12 DEF Progress

(* What an item has become is what is in its place from then on.            *)
LEMMA FilledNext ==
  ASSUME NEW a, a.src \in Values, a.typ \in DOMAIN Types, NEW k \in Inside(a),
         Form(a) \in {"list", "map", "struct"}, NEW made, made = Filled(a, k), NEW x, x = a.inner[k].new
  PROVE  /\ Form(a) = "map" =>
              [made EXCEPT !.entries = Put(@, a.src.keys[k], x)] = Filled(a, k + 1)
         /\ Form(a) # "map" => [made EXCEPT !.items[Slot(a, k)] = x] = Filled(a, k + 1)
<1>1. Inside(a) \subseteq Nat /\ k \in Nat
  BY Numbers
<1>2. \A s : Latest(a, s, k + 1) = IF Slot(a, k) = s THEN x ELSE Latest(a, s, k)
  BY <1>1, LatestNext
<1>3. ASSUME Form(a) = "map"
      PROVE  [made EXCEPT !.entries = Put(@, a.src.keys[k], x)] = Filled(a, k + 1)
  <2> DEFINE key == a.src.keys[k]
             old == [s \in KeysOf(a, k) |-> Latest(a, s, k)]
             new == [s \in KeysOf(a, k + 1) |-> Latest(a, s, k + 1)]
  <2>1. Filled(a, k + 1) = Entries(new) /\ made = Entries(old) /\ Slot(a, k) = key
    BY <1>3 DEF Filled, Slot
  <2>2. KeysOf(a, k + 1) = KeysOf(a, k) \cup {key}
    <3>1. {j \in Inside(a) : j < k + 1} = {j \in Inside(a) : j < k} \cup {k}
      BY <1>1
    <3>2. QED
      BY <3>1 DEF KeysOf
  <2>3. Put(old, key, x) = new
    <3>1. DOMAIN old = KeysOf(a, k)
      OBVIOUS
    <3>2. \A s \in KeysOf(a, k + 1) : (IF s = key THEN x ELSE old[s]) = Latest(a, s, k + 1)
      BY <1>2, <2>1, <2>2
    <3>3. QED
      BY <2>2, <3>1, <3>2 DEF Put
  <2> HIDE DEF old, new, key
  <2>4. [Entries(old) EXCEPT !.entries = Put(@, key, x)] = Entries(Put(old, key, x))
    BY DEF Entries, GoValue
  <2>5. QED
    BY <2>1, <2>3, <2>4 DEF key
<1>4. ASSUME Form(a) # "map" PROVE [made EXCEPT !.items[Slot(a, k)] = x] = Filled(a, k + 1)
  <2> DEFINE old == [s \in 1..Size(a) |-> Latest(a, s, k)]
             new == [s \in 1..Size(a) |-> Latest(a, s, k + 1)]
             slot == Slot(a, k)
  <2>1. Filled(a, k + 1) = Items(new) /\ made = Items(old)
    BY <1>4 DEF Filled
  <2>2. [old EXCEPT ![slot] = x] = new
    BY <1>2
  <2> HIDE DEF old, new, slot
  <2>3. [Items(old) EXCEPT !.items[slot] = x] = Items([old EXCEPT ![slot] = x])
    BY DEF Items, GoValue
  <2>4. QED
    BY <2>1, <2>2, <2>3 DEF slot
<1>5. QED
  BY <1>3, <1>4

LEMMA StoreMakes == ASSUME IInv, NEW a0, Progress(a0), Store PROVE Progress(a0)'
<1>1. pc = "return" /\ stack # <<>> /\ Whole.kind # "pointer"
  BY DEF Store
<1>2. PICK a, b, G : /\ Stands(a0, call, stack, Len(stack) - 1, a, G) /\ Waiting(a, Top, b)
                     /\ Places(errs) = G \cup Sofar(a, Top.k) \cup b.faults
                     /\ val = b.new /\ where = b.place
                     /\ Of(a, call) /\ IsAssignment(a, Assignments(call))
                     /\ a.src = Top.src /\ a.typ = Top.typ /\ a.src \in Values /\ a.typ \in DOMAIN Types
                     /\ Types[a.typ] = Whole /\ Top.k \in Nat \ {0}
                     /\ Form(a) \in {"pointer", "list", "map", "struct"}
                     /\ \A form \in {"pointer", "map", "struct"} : Whole.kind = form <=> Form(a) = form
  BY <1>1, InReturn
<1>3. Form(a) \in {"list", "map", "struct"} /\ FrameOK(Top)
  BY <1>1, <1>2, TopCall DEF IInv, Top
<1>4. /\ Inside(a) \subseteq Nat \ {0} /\ Strangers(a) \subseteq Nat \ {0}
      /\ Absent(a) \subseteq Nat \ {0} /\ Len(a.src.kids) \in Nat
      /\ Inside(a) \subseteq 1..Len(a.src.kids)
  BY <1>2, <1>3, Numbers
<1>5. /\ Top.k \in Inside(a) /\ b = a.inner[Top.k] /\ Top.made = Filled(a, Top.k) /\ Makes(a, Top)
      /\ Form(a) = "struct" => Top.seen = Names(a, Top.k + 1)
  BY <1>2, <1>3 DEF Waiting
<1> DEFINE f == [Top EXCEPT !.made = Stored, !.k = @ + 1]
<1>6. /\ f.src = Top.src /\ f.typ = Top.typ /\ f.made = Stored /\ f.k = Top.k + 1
      /\ f.seen = Top.seen /\ f.where = Top.where
  <2>1. f = [src |-> Top.src, typ |-> Top.typ, made |-> Stored, k |-> Top.k + 1,
             seen |-> Top.seen, where |-> Top.where]
    BY <1>3, FrameChanged
  <2> HIDE DEF f
  <2>2. QED
    BY <2>1
<1>7. stack' = [stack EXCEPT ![Len(stack)] = f] /\ pc' = "loop" /\ UNCHANGED <<call, errs>>
  BY DEF Store
<1> HIDE DEF f
<1>8. Stored = Filled(a, Top.k + 1)
  <2>1. CASE Form(a) = "map"
    <3>1. Stored = [Top.made EXCEPT !.entries = Put(@, a.src.keys[Top.k], val)]
      BY <1>2, <2>1 DEF Stored
    <3>2. QED
      BY <1>2, <1>3, <1>5, <2>1, <3>1, FilledNext
  <2>2. CASE Form(a) = "struct"
    <3>1. Slot(a, Top.k) = Field
      <4>1. Found(Whole.table, a.src.keys[Top.k]) = FieldFor(Whole, a.src.keys[Top.k])
        BY <1>2, FoundIsFieldFor
      <4>2. QED
        BY <1>2, <2>2, <4>1 DEF Slot, Field
    <3>2. Stored = [Top.made EXCEPT !.items[Slot(a, Top.k)] = val]
      BY <1>2, <2>2, <3>1 DEF Stored
    <3>3. QED
      BY <1>2, <1>3, <1>5, <2>2, <3>2, FilledNext
  <2>3. CASE Form(a) = "list"
    <3>1. Slot(a, Top.k) = Top.k
      BY <2>3 DEF Slot
    <3>2. Stored = [Top.made EXCEPT !.items[Slot(a, Top.k)] = val]
      BY <1>2, <2>3, <3>1 DEF Stored
    <3>3. QED
      BY <1>2, <1>3, <1>5, <2>3, <3>2, FilledNext
  <2>4. QED
    BY <1>3, <2>1, <2>2, <2>3
<1>9. Between(a, f)
  BY <1>3, <1>5, <1>6, <1>8 DEF Between, Makes
<1>10. Sofar(a, Top.k + 1) = Sofar(a, Top.k) \cup b.faults
  <2>1. Top.k \notin Strangers(a)
    BY <1>5 DEF Strangers
  <2>2. Top.k - Len(a.src.kids) \notin Absent(a)
    BY <1>4, <1>5
  <2>3. Sofar(a, Top.k + 1) = Sofar(a, Top.k) \cup a.inner[Top.k].faults \cup {} \cup {}
    BY <1>2, <1>4, <1>5, <2>1, <2>2, SofarNext
  <2>4. QED
    BY <1>5, <2>3
<1>11. /\ Len(stack') = Len(stack) /\ Top' = f
       /\ Stands(a0, call, stack', Len(stack) - 1, a, G)
  BY <1>1, <1>2, <1>7, TopStands
<1>12. Stands(a0, call', stack', Len(stack') - 1, a, G) /\ Between(a, Top')
  BY <1>7, <1>9, <1>11
<1>13. Places(errs') = G \cup Sofar(a, Top'.k)
  BY <1>2, <1>6, <1>7, <1>10, <1>11
<1>14. Underway(a0)'
  BY <1>12, <1>13 DEF Underway
<1>15. QED
  BY <1>7, <1>14 DEF Progress

-----------------------------------------------------------------------------
(* Decode() ends: it has made what it began with.                           *)
LEMMA FinishMakes == ASSUME IInv, NEW a0, Progress(a0), Finish PROVE Progress(a0)'
<1>1. pc = "return" /\ Len(stack) = 0 /\ pc' = "done" /\ UNCHANGED <<call, val>>
  BY Depth DEF Finish
<1>2. val = a0.new /\ Places(errs) = a0.faults
  <2>1. PICK a, F : /\ Stands(a0, call, stack, 0, a, F) /\ val = a.new
                    /\ Places(errs) = F \cup a.faults
    BY <1>1 DEF Progress, Finished
  <2>2. a = a0 /\ F = {}
    BY <2>1, StandsFirst
  <2>3. QED
    BY <2>1, <2>2
<1>3. errs = <<>> <=> a0.faults = {}
  BY <1>2, NoPlaces DEF IInv, Paths, ErrsOK
<1>4. Reports(a0)'
  <2>1. CASE errs = <<>> /\ call.validator = "fails"
    <3> DEFINE e == OnPath("EUser", paths, where, src)
    <3>1. errs' = <<e>> /\ e.code = "EUser"
      BY <2>1 DEF Finish, OnPath
    <3> HIDE DEF e
    <3>2. Len(errs') = 1 /\ errs'[1].code = "EUser"
      BY <3>1
    <3>3. QED
      BY <1>1, <1>3, <2>1, <3>2 DEF Reports
  <2>2. CASE ~ (errs = <<>> /\ call.validator = "fails")
    <3>1. errs' = errs
      BY <2>2 DEF Finish
    <3>2. QED
      BY <1>1, <1>2, <1>3, <2>2, <3>1 DEF Reports
  <2>3. QED
    BY <2>1, <2>2
<1>5. QED
  BY <1>1, <1>2, <1>4 DEF Progress

(* The call's own assignment is the first that is begun.                    *)
LEMMA InitProgress ==
  ASSUME Init, NEW a0 \in Assignments(call), Concerns(a0, call)
  PROVE  Progress(a0)
<1>1. Of(a0, call) /\ Here(a0) /\ val = a0.old
  BY DEF Init, Begins, Concerns, Of, Here
<1>2. Len(stack) = 0 /\ Places(errs) = {} /\ pc = "start"
  <2>1. \A i \in 1..Len(errs) : FALSE
    BY DEF Init, Begins
  <2>2. QED
    BY <2>1 DEF Init, Begins, Places
<1>3. Stands(a0, call, stack, Len(stack), a0, Places(errs))
  BY <1>1, <1>2, StandsFirst
<1>4. Beginning(a0)
  BY <1>1, <1>3 DEF Beginning
<1>5. QED
  BY <1>2, <1>4 DEF Progress

LEMMA NextMakes == ASSUME IInv, NEW a0, Progress(a0), [Next]_vars PROVE Progress(a0)'
<1>1. CASE Start
  <2>1. pc = "start" /\ pc' = "assign" /\ UNCHANGED <<call, src, typ, val, stack, errs, where>>
    BY <1>1 DEF Start
  <2>2. Beginning(a0)'
    BY <2>1 DEF Progress, Beginning, Here
  <2>3. QED
    BY <2>1, <2>2 DEF Progress
<1>2. CASE NoPointer
  BY <1>2 DEF NoPointer, Progress
<1>3. CASE UNCHANGED vars
  BY <1>3 DEF vars, Progress, Beginning, Finished, Underway, Here, Reports, Top
<1>4. QED
  BY <1>1, <1>2, <1>3, CustomMakes, NullMakes, FollowMakes, InterfaceMakes, ScalarMakes, BytesMakes,
     MismatchMakes, EnterMakes, ItemMakes, UnknownMakes, MissingMakes, LeaveMakes, PointedMakes,
     StoreMakes, FinishMakes DEF Next, Assign, Loop

Progresses == \A a0 \in Assignments(call) : Concerns(a0, call) => Progress(a0)

LEMMA MakesTheAssignment == Spec => []Progresses
<1>1. Init => Progresses
  BY InitProgress DEF Progresses
<1>2. IInv /\ Progresses /\ [Next]_vars => Progresses'
  <2> SUFFICES ASSUME IInv, Progresses, [Next]_vars PROVE Progresses'
    OBVIOUS
  <2>1. call' = call
    BY DEF Next, Assign, Loop, Start, NoPointer, Custom, AssignNull, Follow, AssignInterface,
       AssignScalar, AssignBytes, Mismatch, Enter, Item, Unknown, Missing, Leave, Pointed, Store,
       Finish, Return, Blame, vars
  <2>2. QED
    BY <2>1, NextMakes DEF Progresses
<1>3. QED
  BY <1>1, <1>2, Invariant, PTL DEF Spec

(* Decode reports exactly the places of the value that do not fit the       *)
(* destination, once it has been through all of it (decode.go 8-101).       *)
THEOREM FaultsReported == Spec => []FaultsAreReported
<1>1. Progresses => FaultsAreReported
  BY DEF Progresses, Progress, FaultsAreReported, Decoded, Reports, Places
<1>2. QED
  BY <1>1, MakesTheAssignment, PTL

(* What fits is assigned, and what does not keeps what it held, also where  *)
(* Decode fails (decode.go 64-98). *)
THEOREM ValueAssigned == Spec => []AssignsTheValue
<1>1. Progresses => AssignsTheValue
  BY DEF Progresses, Progress, AssignsTheValue, Decoded
<1>2. QED
  BY <1>1, MakesTheAssignment, PTL

-----------------------------------------------------------------------------
(* Options.  What the options of a set s of places make of the defaults: of *)
(* each flag, and of the depth, the last that speaks of it counts.          *)
Spoken(options, s, what) == s \cap Speakers(options, what)

FlagBy(options, s, flag) ==
  IF Spoken(options, s, flag) = {} THEN Defaults.flag[flag]
  ELSE FlagOf(options[Max(Spoken(options, s, flag))], flag)

DepthBy(options, s) ==
  LET last == options[Max(Spoken(options, s, "MaxDepth"))]
  IN IF Spoken(options, s, "MaxDepth") = {} THEN DefaultDepth
     ELSE IF last.what = "all" THEN Positive(last.all).MaxDepth ELSE last.depth

By(options, s) == [flag |-> [f \in Flags |-> FlagBy(options, s, f)], MaxDepth |-> DepthBy(options, s)]

(* m is the last of the places s. *)
IsLast(s, m) == s \subseteq Nat /\ m \in s /\ \A i \in s : i <= m

LEMMA LastPlace ==
  ASSUME NEW s, NEW m, IsLast(s, m)
  PROVE  Max(s) = m
<1>1. m \in s /\ \A j \in s : m >= j
  BY DEF IsLast
<1>2. \A i \in s : (\A j \in s : i >= j) => i = m
  BY DEF IsLast
<1> QED BY <1>1, <1>2 DEF Max

LEMMA HasLast ==
  ASSUME NEW n \in Nat, NEW s, s \subseteq 1..n, s # {}
  PROVE  IsLast(s, Max(s))
<1> DEFINE S == {k \in Nat : \A t : t \subseteq 1..k /\ t # {} => \E m \in t : \A i \in t : i <= m}
<1>1. 0 \in S
  OBVIOUS
<1>2. ASSUME NEW k \in Nat, k \in S PROVE k + 1 \in S
  <2> SUFFICES ASSUME NEW t, t \subseteq 1..(k + 1), t # {} PROVE \E m \in t : \A i \in t : i <= m
    OBVIOUS
  <2>1. CASE k + 1 \in t
    BY <2>1
  <2>2. CASE k + 1 \notin t
    <3>1. t \subseteq 1..k
      BY <2>2
    <3> QED BY <1>2, <3>1
  <2> QED BY <2>1, <2>2
<1> HIDE DEF S
<1>3. n \in S
  BY <1>1, <1>2, SetInduction
<1>4. PICK m \in s : \A i \in s : i <= m
  BY <1>3 DEF S
<1>5. IsLast(s, m)
  BY <1>4 DEF IsLast
<1> QED BY <1>5, LastPlace

LEMMA SpokenNext ==
  ASSUME NEW options, NEW s, NEW m, IsLast(s, m), NEW what
  PROVE  /\ m \in Speakers(options, what) =>
              Spoken(options, s, what) # {} /\ Max(Spoken(options, s, what)) = m
         /\ m \notin Speakers(options, what) => Spoken(options, s, what) = Spoken(options, s \ {m}, what)
<1>1. ASSUME m \in Speakers(options, what)
      PROVE  Spoken(options, s, what) # {} /\ Max(Spoken(options, s, what)) = m
  <2> DEFINE p == Spoken(options, s, what)
  <2>1. IsLast(p, m)
    BY <1>1 DEF Spoken, IsLast
  <2> HIDE DEF p
  <2>2. Max(p) = m
    BY <2>1, LastPlace
  <2> QED BY <2>1, <2>2 DEF p, IsLast
<1>2. m \notin Speakers(options, what) => Spoken(options, s, what) = Spoken(options, s \ {m}, what)
  BY DEF Spoken
<1> QED BY <1>1, <1>2

LEMMA FlagNext ==
  ASSUME NEW options, NEW s, NEW m, IsLast(s, m), NEW f
  PROVE  FlagBy(options, s, f) =
           IF m \in Speakers(options, f) THEN FlagOf(options[m], f) ELSE FlagBy(options, s \ {m}, f)
<1> DEFINE p == Spoken(options, s, f)
           q == Spoken(options, s \ {m}, f)
<1>1. /\ m \in Speakers(options, f) => p # {} /\ Max(p) = m
      /\ m \notin Speakers(options, f) => p = q
  BY SpokenNext
<1>2. /\ FlagBy(options, s, f) = IF p = {} THEN Defaults.flag[f] ELSE FlagOf(options[Max(p)], f)
      /\ FlagBy(options, s \ {m}, f) = IF q = {} THEN Defaults.flag[f] ELSE FlagOf(options[Max(q)], f)
  BY DEF FlagBy
<1> HIDE DEF p, q
<1> QED BY <1>1, <1>2

LEMMA DepthNext ==
  ASSUME NEW options, NEW s, NEW m, IsLast(s, m)
  PROVE  DepthBy(options, s) =
           IF m \notin Speakers(options, "MaxDepth") THEN DepthBy(options, s \ {m})
           ELSE IF options[m].what = "all" THEN Positive(options[m].all).MaxDepth ELSE options[m].depth
<1> DEFINE p == Spoken(options, s, "MaxDepth")
           q == Spoken(options, s \ {m}, "MaxDepth")
           After(x) == IF x.what = "all" THEN Positive(x.all).MaxDepth ELSE x.depth
<1>1. /\ m \in Speakers(options, "MaxDepth") => p # {} /\ Max(p) = m
      /\ m \notin Speakers(options, "MaxDepth") => p = q
  BY SpokenNext
<1>2. /\ DepthBy(options, s) = IF p = {} THEN DefaultDepth ELSE After(options[Max(p)])
      /\ DepthBy(options, s \ {m}) = IF q = {} THEN DefaultDepth ELSE After(options[Max(q)])
  BY DEF DepthBy
<1>3. DepthBy(options, s) = IF m \notin Speakers(options, "MaxDepth") THEN DepthBy(options, s \ {m})
                           ELSE After(options[m])
  <2> HIDE DEF p, q, After
  <2> QED BY <1>1, <1>2
<1> QED BY <1>3

(* One more option, the last of s, is applied. *)
LEMMA AppliedLast ==
  ASSUME NEW options \in Seq(Option), NEW s, s \subseteq 1..Len(options), NEW m, IsLast(s, m)
  PROVE  By(options, s) = Apply(By(options, s \ {m}), options[m])
<1> DEFINE o == options[m]
           F == [f \in Flags |-> FlagBy(options, s, f)]
           G == [f \in Flags |-> FlagBy(options, s \ {m}, f)]
           D == DepthBy(options, s)
           E == DepthBy(options, s \ {m})
<1>1. s \subseteq Nat /\ o \in Option /\ \A what : m \in Speakers(options, what) <=> o.what \in {what, "all"}
  <2>1. Len(options) \in Nat /\ m \in 1..Len(options)
    BY LenProperties DEF IsLast
  <2> QED BY <2>1 DEF Speakers
<1>2. \A f : FlagBy(options, s, f) = IF o.what \in {f, "all"} THEN FlagOf(o, f) ELSE FlagBy(options, s \ {m}, f)
  <2> SUFFICES ASSUME NEW f
               PROVE  FlagBy(options, s, f) = IF o.what \in {f, "all"} THEN FlagOf(o, f) ELSE FlagBy(options, s \ {m}, f)
    OBVIOUS
  <2>1. FlagBy(options, s, f) = IF m \in Speakers(options, f) THEN FlagOf(o, f) ELSE FlagBy(options, s \ {m}, f)
    BY <1>1, FlagNext
  <2> QED BY <1>1, <2>1
<1>3. D = IF o.what \notin {"MaxDepth", "all"} THEN E
          ELSE IF o.what = "all" THEN Positive(o.all).MaxDepth ELSE o.depth
  BY <1>1, DepthNext
<1>4. By(options, s) = [flag |-> F, MaxDepth |-> D] /\ By(options, s \ {m}) = [flag |-> G, MaxDepth |-> E]
  BY DEF By
<1>5. \A f \in Flags : F[f] = IF o.what \in {f, "all"} THEN FlagOf(o, f) ELSE G[f]
  BY <1>2
<1>6. F = [f \in Flags |-> F[f]] /\ G = [f \in Flags |-> G[f]]
  OBVIOUS
<1>7. "nil" \notin Flags /\ "all" \notin Flags /\ "MaxDepth" \notin Flags
  BY DEF Flags
<1> HIDE DEF o, F, G, D, E
<1>8. CASE o.what = "nil"
  <2>1. F = G
    BY <1>5, <1>6, <1>7, <1>8
  <2> QED BY <1>3, <1>4, <1>8, <2>1 DEF Apply, o
<1>9. CASE o.what = "all"
  <2>1. o.all \in Records
    BY <1>1 DEF Option
  <2>2. F = o.all.flag
    BY <1>5, <1>6, <1>9, <2>1 DEF FlagOf, Records
  <2>3. Positive(o.all) = [flag |-> o.all.flag, MaxDepth |-> Positive(o.all).MaxDepth]
    BY <2>1 DEF Positive, Records
  <2>4. D = Positive(o.all).MaxDepth
    BY <1>3, <1>9
  <2>5. Apply(By(options, s \ {m}), options[m]) = Positive(o.all)
    BY <1>9 DEF Apply, o
  <2> QED BY <1>4, <2>2, <2>3, <2>4, <2>5
<1>10. CASE o.what = "MaxDepth"
  <2>1. F = G
    BY <1>5, <1>6, <1>7, <1>10
  <2>2. D = o.depth
    BY <1>3, <1>10
  <2>3. Apply(By(options, s \ {m}), options[m]) = [By(options, s \ {m}) EXCEPT !.MaxDepth = o.depth]
    BY <1>10 DEF Apply, o
  <2>4. [[flag |-> G, MaxDepth |-> E] EXCEPT !.MaxDepth = o.depth] = [flag |-> G, MaxDepth |-> o.depth]
    OBVIOUS
  <2> QED BY <1>4, <2>1, <2>2, <2>3, <2>4
<1>11. CASE o.what \in Flags
  <2>1. o.what \notin {"nil", "all", "MaxDepth"}
    BY <1>7, <1>11
  <2>2. F = [G EXCEPT ![o.what] = o.on]
    BY <1>5, <1>6, <1>11, <2>1 DEF FlagOf
  <2>3. D = E
    BY <1>3, <2>1
  <2>4. Apply(By(options, s \ {m}), options[m]) = [By(options, s \ {m}) EXCEPT !.flag[o.what] = o.on]
    BY <2>1 DEF Apply, o
  <2>5. [[flag |-> G, MaxDepth |-> E] EXCEPT !.flag[o.what] = o.on]
          = [flag |-> [G EXCEPT ![o.what] = o.on], MaxDepth |-> E]
    <3> DEFINE R == [flag |-> G, MaxDepth |-> E]
               H == [G EXCEPT ![o.what] = o.on]
    <3>1. R.flag = G
      OBVIOUS
    <3>2. [R EXCEPT !.flag[o.what] = o.on] = [R EXCEPT !.flag = [R.flag EXCEPT ![o.what] = o.on]]
      <4> HIDE DEF R
      <4> QED OBVIOUS
    <3>3. [R EXCEPT !.flag[o.what] = o.on] = [R EXCEPT !.flag = H]
      BY <3>1, <3>2
    <3> HIDE DEF H
    <3>4. [R EXCEPT !.flag = H] = [flag |-> H, MaxDepth |-> E]
      OBVIOUS
    <3> QED BY <3>3, <3>4 DEF H
  <2> QED BY <1>4, <2>2, <2>3, <2>4, <2>5
<1> QED BY <1>1, <1>8, <1>9, <1>10, <1>11 DEF Option

LEMMA NoneApplied ==
  ASSUME NEW options
  PROVE  By(options, {}) = Defaults
<1>1. \A what : Spoken(options, {}, what) = {}
  BY DEF Spoken
<1>2. DepthBy(options, {}) = DefaultDepth /\ \A f \in Flags : FlagBy(options, {}, f) = Defaults.flag[f]
  BY <1>1 DEF DepthBy, FlagBy
<1> DEFINE F == [f \in Flags |-> f \in {"EscapeHTML", "NumberAsFloat64"}]
<1>3. Defaults = [flag |-> F, MaxDepth |-> DefaultDepth]
  BY DEF Defaults
<1>4. Defaults.flag = F
  BY <1>3
<1>5. [f \in Flags |-> FlagBy(options, {}, f)] = F
  <2>1. \A f \in Flags : FlagBy(options, {}, f) = F[f]
    BY <1>2, <1>4
  <2>2. F = [f \in Flags |-> F[f]]
    OBVIOUS
  <2> HIDE DEF F
  <2> QED BY <2>1, <2>2
<1> QED BY <1>2, <1>3, <1>5 DEF By

(* The loop of resolve(), a fold over the options. *)
LEMMA AllApplied ==
  ASSUME NEW options \in Seq(Option)
  PROVE  FoldLeft(Apply, Defaults, options) = By(options, 1..Len(options))
<1> DEFINE n == Len(options)
           D == SUBSET (1..n)
           Body(f) == [s \in D |-> IF s = {} THEN Defaults ELSE Apply(f[s \ {Max(s)}], options[Max(s)])]
           iter == CHOOSE f : f = Body(f)
           g == [s \in D |-> By(options, s)]
           T == {k \in Nat : k <= n => iter[1..k] = By(options, 1..k)}
<1>1. n \in Nat /\ DOMAIN options = 1..n
  BY LenProperties
<1>2. FoldLeft(Apply, Defaults, options) = iter[1..n]
  BY <1>1 DEF FoldLeft, MapThenFoldSet
<1> HIDE DEF n
<1>3. ASSUME NEW s \in D
      PROVE  By(options, s) = IF s = {} THEN Defaults ELSE Apply(By(options, s \ {Max(s)}), options[Max(s)])
  <2>1. CASE s = {}
    BY <2>1, NoneApplied
  <2>2. CASE s # {}
    <3> DEFINE m == Max(s)
    <3>1. IsLast(s, m)
      BY <1>1, <2>2, HasLast
    <3> HIDE DEF m
    <3>2. By(options, s) = Apply(By(options, s \ {m}), options[m])
      BY <3>1, AppliedLast DEF n
    <3> QED BY <2>2, <3>2 DEF m
  <2> QED BY <2>1, <2>2
<1>4. g = Body(g)
  <2>1. \A s \in D : s # {} => g[s \ {Max(s)}] = By(options, s \ {Max(s)})
    OBVIOUS
  <2>2. \A s \in D : By(options, s) = IF s = {} THEN Defaults ELSE Apply(g[s \ {Max(s)}], options[Max(s)])
    BY <1>3, <2>1
  <2> HIDE DEF D
  <2> QED BY <2>2
<1>5. iter = Body(iter)
  <2> HIDE DEF Body
  <2> QED BY <1>4
<1>6. \A s \in D : iter[s] = IF s = {} THEN Defaults ELSE Apply(iter[s \ {Max(s)}], options[Max(s)])
  <2> HIDE DEF iter, D
  <2> QED BY <1>5
<1> HIDE DEF iter
<1>7. 0 \in T
  <2>1. 1..0 = {} /\ 1..0 \in D
    OBVIOUS
  <2>2. iter[1..0] = By(options, 1..0)
    <3> HIDE DEF D
    <3> QED BY <1>3, <1>6, <2>1
  <2> QED BY <2>2
<1>8. ASSUME NEW k \in Nat, k \in T PROVE k + 1 \in T
  <2> SUFFICES ASSUME k + 1 <= n PROVE iter[1..(k + 1)] = By(options, 1..(k + 1))
    OBVIOUS
  <2> DEFINE s == 1..(k + 1)
  <2>1. s \in D /\ s # {} /\ IsLast(s, k + 1) /\ s \ {k + 1} = 1..k /\ k <= n
    <3>1. k <= n /\ s \subseteq 1..n
      BY <1>1
    <3>2. s # {} /\ s \ {k + 1} = 1..k
      <4>1. k + 1 \in s
        OBVIOUS
      <4>2. \A i : i \in 1..k <=> i \in s /\ i # k + 1
        OBVIOUS
      <4> HIDE DEF s
      <4> QED BY <4>1, <4>2
    <3>3. IsLast(s, k + 1)
      BY DEF IsLast
    <3> QED BY <3>1, <3>2, <3>3
  <2>2. Max(s) = k + 1
    <3> HIDE DEF s
    <3> QED BY <2>1, LastPlace
  <2>3. iter[1..k] = By(options, 1..k)
    BY <1>8, <2>1
  <2> HIDE DEF s, D
  <2>4. iter[s] = Apply(iter[1..k], options[k + 1]) /\ By(options, s) = Apply(By(options, 1..k), options[k + 1])
    BY <1>3, <1>6, <2>1, <2>2
  <2> QED BY <2>3, <2>4 DEF s
<1>9. n \in T
  <2> HIDE DEF T
  <2> QED BY <1>1, <1>7, <1>8, SetInduction
<1> QED BY <1>1, <1>2, <1>9 DEF n

(* Of any list of options, the last that speaks of a flag, or of the depth, *)
(* counts: with WithOptions speaking of all, nil options of none, and a     *)
(* depth that is not positive, whoever gives it, standing for the default   *)
(* one (options.go 15-45). *)
THEOREM LastWordCounts ==
  ASSUME NEW options \in Seq(Option)
  PROVE  /\ \A flag \in Flags : Resolve(options).flag[flag] = LastWord(options, flag)
         /\ Resolve(options).MaxDepth = LastDepth(options)
<1> DEFINE all == 1..Len(options)
           r == By(options, all)
           F == [f \in Flags |-> FlagBy(options, all, f)]
           E == DepthBy(options, all)
<1>1. Resolve(options) = Positive(r) /\ r = [flag |-> F, MaxDepth |-> E]
  BY AllApplied DEF Resolve, By
<1>2. Positive(r).flag = F /\ Positive(r).MaxDepth = IF E <= 0 THEN DefaultDepth ELSE E
  <2> HIDE DEF F, E, r
  <2> QED BY <1>1 DEF Positive
<1>3. \A what : Spoken(options, all, what) = Speakers(options, what)
  BY DEF Spoken, Speakers
<1>4. \A f \in Flags : F[f] = LastWord(options, f)
  BY <1>3 DEF FlagBy, LastWord
<1>5. (IF E <= 0 THEN DefaultDepth ELSE E) = LastDepth(options)
  <2> DEFINE S == Speakers(options, "MaxDepth")
             last == options[Max(S)]
  <2>1. E = IF S = {} THEN DefaultDepth ELSE IF last.what = "all" THEN Positive(last.all).MaxDepth ELSE last.depth
    BY <1>3 DEF DepthBy
  <2>2. LastDepth(options) = IF S = {} \/ DepthOf(last) <= 0 THEN DefaultDepth ELSE DepthOf(last)
    BY DEF LastDepth
  <2>3. S # {} => last \in Option
    <3> SUFFICES ASSUME S # {} PROVE last \in Option
      OBVIOUS
    <3>1. Len(options) \in Nat /\ S \subseteq 1..Len(options)
      BY LenProperties DEF Speakers
    <3>2. Max(S) \in S
      <4> HIDE DEF S
      <4> QED BY <3>1, HasLast DEF IsLast
    <3>3. \A i \in 1..Len(options) : options[i] \in Option
      OBVIOUS
    <3> HIDE DEF S
    <3> QED BY <3>1, <3>2, <3>3
  <2> HIDE DEF S, last, E
  <2>4. CASE S = {}
    BY <2>1, <2>2, <2>4 DEF DefaultDepth
  <2>5. CASE S # {}
    <3>1. last.all \in Records /\ last.depth \in Int
      BY <2>3, <2>5 DEF Option
    <3>2. Positive(last.all).MaxDepth = IF last.all.MaxDepth <= 0 THEN DefaultDepth ELSE last.all.MaxDepth
      BY <3>1 DEF Positive, Records
    <3>3. CASE last.what = "all"
      BY <2>1, <2>2, <2>5, <3>1, <3>2, <3>3 DEF DepthOf, DefaultDepth, Records
    <3>4. CASE last.what # "all"
      BY <2>1, <2>2, <2>5, <3>1, <3>4 DEF DepthOf
    <3> QED BY <3>3, <3>4
  <2> QED BY <2>4, <2>5
<1> HIDE DEF F, E, r
<1> QED BY <1>1, <1>2, <1>4, <1>5

(* What DecodeStrict() makes of its caller's options: each of its three     *)
(* flags is set unless the caller speaks of it, or of all options, and then *)
(* the caller has the last word; of all else it has it anyway (jsonx.go     *)
(* 49-50). *)
THEOREM StrictUnlessTold ==
  ASSUME NEW options \in Seq(Option)
  PROVE  LET r == Resolve(Strict \o options)
         IN /\ \A flag \in Flags :
                 r.flag[flag] = IF Speakers(options, flag) = {} /\ flag \in {"DisallowUnknown", "RequireFields", "NoCoerce"}
                                THEN TRUE ELSE LastWord(options, flag)
            /\ r.MaxDepth = LastDepth(options)
<1> DEFINE told == Strict \o options
           n == Len(options)
<1>1. Strict \in Seq(Option) /\ Len(Strict) = 3 /\ n \in Nat
  <2>1. \A f \in Flags : Set(f, TRUE) \in Option
    <3>1. Defaults \in Records
      BY DEF Defaults, Records, DefaultDepth
    <3> QED BY <3>1 DEF Set, Setting, Option
  <2>2. {"DisallowUnknown", "RequireFields", "NoCoerce"} \subseteq Flags
    BY DEF Flags
  <2>3. n \in Nat
    BY LenProperties
  <2> DEFINE x == Set("DisallowUnknown", TRUE)
             y == Set("RequireFields", TRUE)
             z == Set("NoCoerce", TRUE)
  <2>4. x \in Option /\ y \in Option /\ z \in Option
    BY <2>1, <2>2
  <2>5. Strict = <<x, y, z>>
    BY DEF Strict
  <2> HIDE DEF x, y, z
  <2> QED BY <2>3, <2>4, <2>5
<1>2. /\ told \in Seq(Option) /\ Len(told) = n + 3
      /\ \A i \in 1..(n + 3) : told[i] = IF i <= 3 THEN Strict[i] ELSE options[i - 3]
  <2>1. /\ told \in Seq(Option) /\ Len(told) = Len(Strict) + n
        /\ \A i \in 1..(Len(Strict) + n) : told[i] = IF i <= Len(Strict) THEN Strict[i] ELSE options[i - Len(Strict)]
    BY ONLY <1>1, options \in Seq(Option), ConcatProperties
  <2> HIDE DEF told, n
  <2> QED BY <1>1, <2>1
<1>3. /\ told[1].what = "DisallowUnknown" /\ told[2].what = "RequireFields" /\ told[3].what = "NoCoerce"
      /\ \A i \in 1..3 : told[i].on = TRUE
      /\ \A i \in 1..n : told[i + 3] = options[i]
  <2>1. /\ \A i \in 1..3 : told[i] = Strict[i]
        /\ \A i \in 1..n : told[i + 3] = options[i]
    <3>1. \A i \in 1..3 : i \in 1..(n + 3) /\ i <= 3
      BY <1>1
    <3>2. \A i \in 1..n : i + 3 \in 1..(n + 3) /\ ~ (i + 3 <= 3) /\ (i + 3) - 3 = i
      BY <1>1
    <3> HIDE DEF told, n
    <3> QED BY <1>2, <3>1, <3>2
  <2>2. \A i \in 1..3 : i = 1 \/ i = 2 \/ i = 3
    OBVIOUS
  <2> QED BY <2>1, <2>2 DEF Strict, Set, Setting
<1>4. ASSUME NEW what
      PROVE  LET S == Speakers(options, what)
             IN /\ S # {} => Speakers(told, what) # {} /\ told[Max(Speakers(told, what))] = options[Max(S)]
                /\ S = {} => Speakers(told, what) = {i \in 1..3 : told[i].what \in {what, "all"}}
  <2> DEFINE S == Speakers(options, what)
             U == Speakers(told, what)
  <2>1. \A i \in 1..(n + 3) : i \in 1..3 \/ (i - 3 \in 1..n /\ i = (i - 3) + 3)
    BY <1>1
  <2>2. \A i \in 1..n : i + 3 \in U <=> i \in S
    BY <1>1, <1>2, <1>3 DEF Speakers
  <2>3. S \subseteq 1..n /\ U \subseteq 1..(n + 3)
    BY <1>2 DEF Speakers
  <2>4. ASSUME S # {} PROVE U # {} /\ told[Max(U)] = options[Max(S)]
    <3> DEFINE m == Max(S)
    <3>1. IsLast(S, m)
      <4> HIDE DEF S
      <4> QED BY <1>1, <2>3, <2>4, HasLast
    <3> HIDE DEF m
    <3>2. m \in S /\ m \in 1..n /\ m + 3 \in U
      <4>1. m \in S
        BY <3>1 DEF IsLast
      <4> HIDE DEF S, U
      <4> QED BY <2>2, <2>3, <4>1
    <3>3. IsLast(U, m + 3)
      <4> HIDE DEF S, U
      <4>1. ASSUME NEW i \in U PROVE i <= m + 3
        <5>1. CASE i \in 1..3
          BY <3>2, <5>1
        <5>2. CASE i \notin 1..3
          <6>1. i - 3 \in 1..n /\ i \in Int /\ i - 3 \in S
            BY <2>1, <2>2, <2>3, <5>2
          <6>2. i - 3 <= m
            BY <3>1, <6>1 DEF IsLast
          <6> QED BY <3>2, <6>1, <6>2
        <5> QED BY <5>1, <5>2
      <4>2. U \subseteq Nat
        BY <2>3
      <4> QED BY <3>2, <4>1, <4>2 DEF IsLast
    <3>4. Max(U) = m + 3
      <4> HIDE DEF S, U
      <4> QED BY <3>3, LastPlace
    <3>5. told[m + 3] = options[m]
      BY <1>3, <3>2
    <3> HIDE DEF S, U
    <3> QED BY <3>2, <3>4, <3>5 DEF m
  <2>5. ASSUME S = {} PROVE U = {i \in 1..3 : told[i].what \in {what, "all"}}
    <3>1. \A i \in U : i \in 1..3
      <4> HIDE DEF S, U
      <4> QED BY <2>1, <2>2, <2>3, <2>5
    <3>2. \A i \in 1..3 : i \in 1..(n + 3)
      BY <1>1
    <3> QED BY <1>2, <3>1, <3>2 DEF Speakers
  <2> QED BY <2>4, <2>5
<1> HIDE DEF told
<1>5. ASSUME NEW flag \in Flags
      PROVE  LastWord(told, flag) =
               IF Speakers(options, flag) = {} /\ flag \in {"DisallowUnknown", "RequireFields", "NoCoerce"}
               THEN TRUE ELSE LastWord(options, flag)
  <2> DEFINE S == Speakers(options, flag)
             U == Speakers(told, flag)
  <2>1. /\ LastWord(told, flag) = IF U = {} THEN Defaults.flag[flag] ELSE FlagOf(told[Max(U)], flag)
        /\ LastWord(options, flag) = IF S = {} THEN Defaults.flag[flag] ELSE FlagOf(options[Max(S)], flag)
    BY DEF LastWord
  <2>2. /\ S # {} => U # {} /\ told[Max(U)] = options[Max(S)]
        /\ S = {} => U = {i \in 1..3 : told[i].what \in {flag, "all"}}
    BY <1>4
  <2> HIDE DEF S, U
  <2>3. CASE S # {}
    BY <2>1, <2>2, <2>3 DEF S
  <2>4. CASE S = {} /\ U = {}
    <3>1. \A i \in 1..3 : told[i].what # flag
      BY <2>2, <2>4
    <3>2. flag \notin {"DisallowUnknown", "RequireFields", "NoCoerce"}
      BY <1>3, <3>1
    <3> QED BY <2>1, <2>4, <3>2 DEF S
  <2>5. CASE S = {} /\ U # {}
    <3>1. U \subseteq 1..3
      BY <2>2, <2>5
    <3>2. Max(U) \in U
      BY <2>5, <3>1, HasLast DEF IsLast
    <3> DEFINE m == Max(U)
    <3>3. m \in 1..3 /\ told[m].what \in {flag, "all"}
      BY <2>2, <2>5, <3>2
    <3> HIDE DEF m
    <3>4. m = 1 \/ m = 2 \/ m = 3
      BY <3>3
    <3>5. told[m].what \in {"DisallowUnknown", "RequireFields", "NoCoerce"} /\ told[m].on = TRUE
      BY <1>3, <3>3, <3>4
    <3>6. told[m].what # "all" /\ flag = told[m].what
      BY <3>3, <3>5
    <3>7. FlagOf(told[m], flag) = TRUE
      BY <3>5, <3>6 DEF FlagOf
    <3> QED BY <2>1, <2>5, <3>5, <3>6, <3>7 DEF S, m
  <2> QED BY <2>3, <2>4, <2>5
<1>6. LastDepth(told) = LastDepth(options)
  <2> DEFINE S == Speakers(options, "MaxDepth")
             U == Speakers(told, "MaxDepth")
  <2>1. /\ S # {} => U # {} /\ told[Max(U)] = options[Max(S)]
        /\ S = {} => U = {i \in 1..3 : told[i].what \in {"MaxDepth", "all"}}
    BY <1>4
  <2>2. \A i \in 1..3 : told[i].what \notin {"MaxDepth", "all"}
    <3>1. \A i \in 1..3 : i = 1 \/ i = 2 \/ i = 3
      OBVIOUS
    <3> QED BY <1>3, <3>1
  <2>3. S = {} => U = {}
    <3> HIDE DEF S, U
    <3> QED BY <2>1, <2>2
  <2>4. /\ LastDepth(told) = IF U = {} \/ DepthOf(told[Max(U)]) <= 0 THEN DefaultDepth ELSE DepthOf(told[Max(U)])
        /\ LastDepth(options) = IF S = {} \/ DepthOf(options[Max(S)]) <= 0 THEN DefaultDepth ELSE DepthOf(options[Max(S)])
    BY DEF LastDepth
  <2> HIDE DEF S, U
  <2> QED BY <2>1, <2>3, <2>4
<1> QED BY <1>2, <1>5, <1>6, LastWordCounts DEF told

=============================================================================
