---------------------------- MODULE EncoderProofs ----------------------------
(***************************************************************************)
(* Proofs about Encoder, for every value that Marshal may be called with,   *)
(* finite or not, every MaxDepth and all options.                           *)
(*                                                                          *)
(* The steps change the stack in four ways: not at all, by a new call, by a *)
(* change of the innermost one that leaves its container, and by a return.  *)
(* There is a lemma for each, per part of the invariant.                    *)
(*                                                                         *)
(* That what is written is the value is proved for the occurrences that the *)
(* calls in progress wait for: one for each call, and the buffers as they   *)
(* were when it began.  A step adds to the last of them, or takes it away.  *)
(* That what is refused has no text, and the error says why, is proved from *)
(* where the encoder is: below which containers, and how deep.              *)
(***************************************************************************)
EXTENDS Writing, SequenceTheorems, FiniteSetTheorems, WellFoundedInduction, TLAPS

(* What is left of a container are items of it. *)
Indices(x) == 1..Len(heap[x].items)
LeftOver   == \A i \in 1..Len(stack) : stack[i].left \in Seq(Indices(stack[i].node))

(* tree() is called for parser.Values only. *)
TreesWithin == pc = "value" /\ InTree => Cell.kind \in Trees \cup TreeLeaves

IInv ==
  /\ TypeOK /\ heap \in Heaps
  /\ LeftOver /\ TreesWithin
  /\ SeenIsTheStack /\ BuffersAreRestored /\ DepthBounded

-----------------------------------------------------------------------------
(* The last element of a sequence, replaced and removed. *)
LEMMA OnSetLast ==
  ASSUME NEW S, NEW s \in Seq(S), s # <<>>, NEW e \in S
  PROVE  /\ SetLast(s, e) \in Seq(S) /\ Len(SetLast(s, e)) = Len(s)
         /\ \A i \in 1..Len(s) : SetLast(s, e)[i] = IF i = Len(s) THEN e ELSE s[i]
<1>1. Len(s) \in Nat \ {0}
  BY EmptySeq
<1>2. Len(s) \in 1..Len(s)
  BY <1>1
<1>3. QED
  BY <1>2, ExceptSeq DEF SetLast

(* The sequence without its last element.                                   *)
LEMMA OnPop ==
  ASSUME NEW S, NEW s \in Seq(S), s # <<>>
  PROVE  /\ Pop(s) \in Seq(S) /\ Len(Pop(s)) = Len(s) - 1
         /\ \A i \in 1..(Len(s) - 1) : Pop(s)[i] = s[i]
<1>1. Len(s) \in Nat \ {0}
  BY EmptySeq
<1>2. \A i \in 1..(Len(s) - 1) : s[i] \in S
  BY <1>1, ElementOfSeq
<1>3. 1 \in Int /\ Len(s) - 1 \in Int
  BY <1>1
<1>4. /\ SubSeq(s, 1, Len(s) - 1) \in Seq(S)
      /\ Len(SubSeq(s, 1, Len(s) - 1)) = IF 1 <= Len(s) - 1 THEN Len(s) - 1 - 1 + 1 ELSE 0
      /\ \A i \in 1..(Len(s) - 1 - 1 + 1) : SubSeq(s, 1, Len(s) - 1)[i] = s[1 + i - 1]
  BY <1>2, <1>3, SubSeqProperties
<1>5. \A n \in Nat \ {0} : n - 1 - 1 + 1 = n - 1 /\ (IF 1 <= n - 1 THEN n - 1 - 1 + 1 ELSE 0) = n - 1
  OBVIOUS
<1>6. \A i \in 1..(Len(s) - 1) : 1 + i - 1 = i
  OBVIOUS
<1>7. QED
  BY <1>1, <1>4, <1>5, <1>6 DEF Pop

(* What the type invariant says of the innermost call and the innermost     *)
(* buffer. *)
LEMMA TypeFacts ==
  ASSUME TypeOK
  PROVE  /\ Len(stack) \in Nat
         /\ \A i \in 1..Len(stack) : stack[i] \in Frames
         /\ stack # <<>> => /\ Len(stack) \in 1..Len(stack) /\ Top \in Frames
                            /\ Top.node \in Nodes /\ Whole \in Cells
         /\ Cell \in Cells
         /\ buffers # <<>> /\ buffers[Len(buffers)] \in Seq(Tokens)
<1>1. Len(stack) \in Nat /\ \A i \in 1..Len(stack) : stack[i] \in Frames
  BY ElementOfSeq, LenProperties DEF TypeOK
<1>2. ASSUME stack # <<>>
      PROVE  Len(stack) \in 1..Len(stack) /\ Top \in Frames /\ Top.node \in Nodes /\ Whole \in Cells
  <2>1. Len(stack) \in Nat \ {0}
    BY <1>2, EmptySeq DEF TypeOK
  <2>2. Len(stack) \in 1..Len(stack)
    BY <2>1
  <2>3. Top \in Frames
    BY <1>1, <2>2 DEF Top
  <2>4. QED
    BY <2>2, <2>3 DEF Frames, Whole, TypeOK
<1>3. buffers # <<>> /\ buffers[Len(buffers)] \in Seq(Tokens)
  <2>1. Len(buffers) \in Nat /\ Len(buffers) >= 1
    BY LenProperties DEF TypeOK
  <2>2. Len(buffers) \in 1..Len(buffers)
    BY <2>1
  <2>3. buffers[Len(buffers)] \in Seq(Tokens)
    BY <2>2, ElementOfSeq DEF TypeOK
  <2>4. buffers # <<>>
    BY <2>1
  <2>5. QED
    BY <2>3, <2>4
<1>4. Cell \in Cells
  BY DEF TypeOK, Cell
<1>5. QED
  BY <1>1, <1>2, <1>3, <1>4

-----------------------------------------------------------------------------
(* What the steps write are tokens. *)
LEMMA TokenTypes ==
  /\ \A t \in {"quote", "unquote", "{", "}", "[", "]", ",", ":"} : Token(t) \in Tokens
  /\ \A n \in Nat : Name(n) \in Tokens
  /\ \A d \in Nat : Newline(d) \in Seq(Tokens)
  /\ \A k \in Leaves, x \in Nodes : Leaf(k, x) \in Seq(Tokens)
  /\ \A k : Opening(k) \in Tokens /\ Closing(k) \in Tokens
  /\ \A f : Separator(f) \in Seq(Tokens)
  /\ \A k : \A n \in Nat : Label(k, n) \in Seq(Tokens)
  /\ \A s \in Seq(Tokens) : Escaped(s) \in Seq(Tokens)
  /\ <<>> \in Seq(Tokens) /\ \A t \in Tokens : <<t>> \in Seq(Tokens)
<1>1. \A t \in {"quote", "unquote", "{", "}", "[", "]", ",", ":"} : Token(t) \in Tokens
  BY DEF Token, Tokens
<1>2. \A n \in Nat : Name(n) \in Tokens
  BY DEF Name, Tokens
<1>3. \A t \in Tokens : <<t>> \in Seq(Tokens)
  OBVIOUS
<1>4. <<>> \in Seq(Tokens)
  OBVIOUS
<1>5. \A d \in Nat : Newline(d) \in Seq(Tokens)
  <2>1. \A d \in Nat : [text |-> "newline", of |-> d] \in Tokens
    BY DEF Tokens
  <2>2. QED
    BY <2>1, <1>3, <1>4 DEF Newline
<1>6. \A k \in Leaves, x \in Nodes : Leaf(k, x) \in Seq(Tokens)
  <2>1. \A k \in Leaves, x \in Nodes : [text |-> k, of |-> x] \in Tokens
    BY DEF Tokens
  <2>2. QED
    BY <2>1, <1>3, <1>4 DEF Leaf
<1>7. \A k : Opening(k) \in Tokens /\ Closing(k) \in Tokens
  BY <1>1 DEF Opening, Closing
<1>8. \A f : Separator(f) \in Seq(Tokens)
  BY <1>1, <1>3, <1>4 DEF Separator
<1>9. \A k : \A n \in Nat : Label(k, n) \in Seq(Tokens)
  <2>1. \A s, t \in Tokens : <<s, t>> \in Seq(Tokens)
    OBVIOUS
  <2>2. QED
    BY <2>1, <1>1, <1>2, <1>4 DEF Label
<1>10. \A s \in Seq(Tokens) : Escaped(s) \in Seq(Tokens)
  BY <1>1, <1>3, ConcatProperties DEF Escaped
<1>11. QED
  BY <1>1, <1>2, <1>3, <1>4, <1>5, <1>6, <1>7, <1>8, <1>9, <1>10

(* Writing changes no buffer but the last. *)
LEMMA Writes ==
  ASSUME TypeOK, NEW text \in Seq(Tokens), Write(text)
  PROVE  buffers' \in Seq(Seq(Tokens)) /\ Len(buffers') = Len(buffers)
<1>1. buffers \in Seq(Seq(Tokens)) /\ buffers # <<>> /\ buffers[Len(buffers)] \in Seq(Tokens)
  BY TypeFacts DEF TypeOK
<1>2. buffers[Len(buffers)] \o text \in Seq(Tokens)
  BY <1>1, ConcatProperties
<1>3. QED
  BY <1>1, <1>2, OnSetLast DEF Write

(* An order of a container's items is a sequence of them. *)
LEMMA OrderTypes ==
  ASSUME NEW cell \in Cells, NEW p \in Orders(cell)
  PROVE  p \in Seq(1..Len(cell.items)) /\ p \in Seq(Nat)
<1>1. Len(cell.items) \in Nat
  BY LenProperties DEF Cells
<1>2. Live(cell) \subseteq 1..Len(cell.items) /\ 1..Len(cell.items) \subseteq Nat
  BY DEF Live
<1>3. Cardinality(Live(cell)) \in Nat
  <2>1. IsFiniteSet(1..Len(cell.items))
    BY <1>1, FS_Interval
  <2>2. IsFiniteSet(Live(cell))
    BY <1>2, <2>1, FS_Subset
  <2>3. QED
    BY <2>2, FS_CardinalityType
<1>4. p \in [1..Cardinality(Live(cell)) -> Live(cell)]
  BY DEF Orders
<1>5. p \in Seq(Live(cell))
  BY <1>3, <1>4
<1>6. QED
  BY <1>2, <1>5, SeqMonotonic

-----------------------------------------------------------------------------
(* Which of the calls in progress quote, and the parts of the invariant     *)
(* that speak of the stack. *)
Quoting == {i \in 1..Len(stack) : stack[i].quoting}

StackParts == LeftOver /\ SeenIsTheStack /\ DepthBounded

(* Finitely many calls quote, since finitely many are in progress.          *)
LEMMA QuotingFinite ==
  ASSUME TypeOK
  PROVE  IsFiniteSet(Quoting) /\ Cardinality(Quoting) \in Nat
<1>1. Len(stack) \in Nat
  BY TypeFacts
<1>2. IsFiniteSet(1..Len(stack)) /\ Quoting \subseteq 1..Len(stack)
  BY <1>1, FS_Interval DEF Quoting
<1>3. QED
  BY <1>2, FS_Subset, FS_CardinalityType

(* The stack with another innermost call. *)
LEMMA OnSetTop ==
  ASSUME TypeOK, stack # <<>>, NEW e \in Frames
  PROVE  /\ SetLast(stack, e) \in Seq(Frames) /\ Len(SetLast(stack, e)) = Len(stack)
         /\ \A i \in 1..Len(stack) : SetLast(stack, e)[i] = IF i = Len(stack) THEN e ELSE stack[i]
<1>1. stack \in Seq(Frames)
  BY DEF TypeOK
<1>2. QED
  BY <1>1, OnSetLast, Zenon

(* Nothing is called and nothing returns. *)
LEMMA StackKept ==
  ASSUME IInv, UNCHANGED <<heap, stack, seen>>
  PROVE  StackParts'
BY DEF IInv, StackParts, LeftOver, Indices, SeenIsTheStack, Entered, Visit, DepthBounded

(* Writing to the innermost buffer leaves the others alone.                 *)
LEMMA BuffersKept ==
  ASSUME IInv, UNCHANGED stack, Len(buffers') = Len(buffers)
  PROVE  BuffersAreRestored'
BY DEF IInv, BuffersAreRestored

(* The innermost call goes on with the same container. *)
LEMMA TopChanged ==
  ASSUME IInv, stack # <<>>, UNCHANGED <<heap, seen>>,
         NEW e \in Frames, e.node = Top.node, e.left \in Seq(Indices(Top.node)),
         stack' = SetLast(stack, e)
  PROVE  StackParts' /\ stack' \in Seq(Frames) /\ Len(stack') = Len(stack)
<1>1. stack \in Seq(Frames) /\ Len(stack) \in 1..Len(stack)
  BY TypeFacts DEF IInv, TypeOK
<1>2. /\ stack' \in Seq(Frames) /\ Len(stack') = Len(stack)
      /\ \A i \in 1..Len(stack) : stack'[i] = IF i = Len(stack) THEN e ELSE stack[i]
  BY OnSetTop DEF IInv
<1>3. \A i \in 1..Len(stack) : stack'[i].node = stack[i].node
  BY <1>2 DEF Top
<1>4. LeftOver'
  BY <1>2, <1>3 DEF IInv, LeftOver, Indices, Top
<1>5. SeenIsTheStack' /\ DepthBounded'
  BY <1>2, <1>3 DEF IInv, SeenIsTheStack, Entered, Visit, DepthBounded
<1>6. QED
  BY <1>2, <1>4, <1>5 DEF StackParts

(* A call is made for a container that has not been entered. *)
LEMMA Opened ==
  ASSUME IInv, Calls, UNCHANGED heap, Cell.kind \in Containers,
         Visits(at) \cap seen = {}, seen' = seen \cup Visits(at),
         NEW e \in Frames, e.node = at, e.left \in Seq(Indices(at)),
         stack' = Append(stack, e)
  PROVE  StackParts' /\ stack' \in Seq(Frames)
<1> DEFINE n == Len(stack)
<1>1. stack \in Seq(Frames) /\ n \in Nat
  BY TypeFacts DEF IInv, TypeOK
<1>2. /\ stack' \in Seq(Frames) /\ Len(stack') = n + 1 /\ stack'[n + 1] = e
      /\ \A i \in 1..n : stack'[i] = stack[i]
  BY <1>1, AppendProperties
<1>3. 1..(n + 1) = 1..n \cup {n + 1} /\ n + 1 \notin 1..n
  BY <1>1
<1> HIDE DEF n
<1>4. LeftOver'
  BY <1>2, <1>3 DEF IInv, LeftOver, Indices, n
<1>5. SeenIsTheStack'
  <2>1. \A x : Visit(x)' = Visit(x)
    BY DEF Visit
  <2>2. Entered' = Entered \cup (IF Cell.kind \in Tracked THEN {n + 1} ELSE {})
    BY <1>2, <1>3 DEF Entered, Cell, n
  <2>3. Entered \subseteq 1..n
    BY DEF Entered, n
  <2>4. Visits(at) = IF Cell.kind \in Tracked THEN {Visit(at)} ELSE {}
    BY DEF Visits, Cell
  <2>5. \A i \in Entered : Visit(stack[i].node) \in seen
    BY DEF IInv, SeenIsTheStack
  <2>6. seen' = {Visit(stack'[i].node) : i \in Entered'}
    BY <1>2, <1>3, <2>2, <2>3, <2>4 DEF IInv, SeenIsTheStack
  <2>7. ASSUME NEW i \in Entered', NEW j \in Entered', Visit(stack'[i].node) = Visit(stack'[j].node)
        PROVE  i = j
    <3>1. CASE i \in Entered /\ j \in Entered
      BY <1>2, <2>3, <2>7, <3>1 DEF IInv, SeenIsTheStack
    <3>2. CASE i = n + 1 /\ j \in Entered
      BY <1>2, <2>2, <2>3, <2>4, <2>5, <2>7, <3>2, <1>3
    <3>3. CASE j = n + 1 /\ i \in Entered
      BY <1>2, <2>2, <2>3, <2>4, <2>5, <2>7, <3>3, <1>3
    <3>4. QED
      BY <2>2, <3>1, <3>2, <3>3
  <2>8. QED
    BY <2>1, <2>6, <2>7 DEF SeenIsTheStack
<1>6. DepthBounded'
  <2>1. heap[at].kind \notin Trees => n + 1 <= MaxDepth + 1
    <3>1. ASSUME heap[at].kind \notin Trees PROVE n <= MaxDepth
      BY <3>1 DEF IInv, TreesWithin, Calls, Cell, Depth, n, Containers, Trees, TreeLeaves
    <3>2. QED
      BY <1>1, <3>1, EncoderAssumption DEF n
  <2>2. QED
    BY <1>2, <1>3, <2>1 DEF IInv, DepthBounded, n
<1>7. QED
  BY <1>2, <1>4, <1>5, <1>6 DEF StackParts

(* The innermost call returns and forgets its container. *)
LEMMA Closed ==
  ASSUME IInv, stack # <<>>, UNCHANGED heap,
         seen' = seen \ Visits(Top.node), stack' = Pop(stack)
  PROVE  StackParts' /\ stack' \in Seq(Frames)
<1> DEFINE n == Len(stack)
<1>1. stack \in Seq(Frames) /\ n \in Nat \ {0} /\ n \in 1..n
  BY TypeFacts, EmptySeq DEF IInv, TypeOK
<1>2. /\ stack' \in Seq(Frames) /\ Len(stack') = n - 1
      /\ \A i \in 1..(n - 1) : stack'[i] = stack[i]
  BY <1>1, OnPop
<1>3. 1..n = 1..(n - 1) \cup {n} /\ n \notin 1..(n - 1)
  BY <1>1
<1> HIDE DEF n
<1>4. LeftOver'
  BY <1>2, <1>3 DEF IInv, LeftOver, Indices, n
<1>5. SeenIsTheStack'
  <2>1. \A x : Visit(x)' = Visit(x)
    BY DEF Visit
  <2>2. Entered' = Entered \ {n}
    BY <1>2, <1>3 DEF Entered, n
  <2>3. Entered \subseteq 1..n
    BY DEF Entered, n
  <2>4. Visits(Top.node) = IF n \in Entered THEN {Visit(stack[n].node)} ELSE {}
    BY <1>1 DEF Visits, Top, Entered, n
  <2>5. seen' = {Visit(stack[i].node) : i \in Entered \ {n}}
    BY <2>4 DEF IInv, SeenIsTheStack
  <2>6. \A i \in Entered' : stack'[i] = stack[i] /\ i \in Entered
    BY <1>2, <1>3, <2>2, <2>3
  <2>7. QED
    BY <2>1, <2>2, <2>5, <2>6 DEF IInv, SeenIsTheStack
<1>6. DepthBounded'
  BY <1>2, <1>3 DEF IInv, DepthBounded, n
<1>7. QED
  BY <1>2, <1>4, <1>5, <1>6 DEF StackParts

-----------------------------------------------------------------------------
(* Errors, leaves and references: the calls in progress stay as they are.   *)
LEMMA FailStep ==
  ASSUME IInv, NEW e \in Errors, Fail(e)
  PROVE  IInv'
<1>1. TypeOK' /\ heap' \in Heaps /\ TreesWithin'
  BY DEF IInv, TypeOK, Fail, TreesWithin
<1>2. StackParts' /\ BuffersAreRestored'
  BY StackKept, BuffersKept DEF Fail
<1>3. QED
  BY <1>1, <1>2 DEF IInv, StackParts

(* A leaf is written.                                                       *)
LEMMA LeafStep ==
  ASSUME IInv, WriteLeaf
  PROVE  IInv'
<1>1. Leaf(Cell.kind, at) \in Seq(Tokens)
  BY TokenTypes DEF IInv, TypeOK, WriteLeaf
<1>2. buffers' \in Seq(Seq(Tokens)) /\ Len(buffers') = Len(buffers)
  BY <1>1, Writes DEF IInv, WriteLeaf
<1>3. TypeOK' /\ heap' \in Heaps /\ TreesWithin'
  BY <1>2 DEF IInv, TypeOK, WriteLeaf, TreesWithin
<1>4. StackParts' /\ BuffersAreRestored'
  BY <1>2, StackKept, BuffersKept DEF WriteLeaf
<1>5. QED
  BY <1>3, <1>4 DEF IInv, StackParts

(* A reference is followed; there are none in a parser.Value.               *)
LEMMA FollowStep ==
  ASSUME IInv, Follow
  PROVE  IInv'
<1>1. Cell.items \in Seq(Items) /\ Len(Cell.items) = 1
  BY TypeFacts, EncoderAssumption DEF IInv, TypeOK, Follow, Cells, Cell
<1>2. at' \in Nodes
  <2>1. 1 \in 1..Len(Cell.items)
    BY <1>1
  <2>2. Cell.items[1] \in Items
    BY <1>1, <2>1, ElementOfSeq
  <2>3. QED
    BY <2>2 DEF Follow, Items
<1>3. ~ InTree /\ InTree' = InTree
  BY DEF IInv, Follow, Calls, TreesWithin, InTree, Whole, Top, References, Trees, TreeLeaves
<1>4. TypeOK' /\ heap' \in Heaps /\ TreesWithin'
  BY <1>2, <1>3 DEF IInv, TypeOK, Follow, TreesWithin
<1>5. StackParts' /\ BuffersAreRestored'
  BY StackKept, BuffersKept DEF Follow
<1>6. QED
  BY <1>4, <1>5 DEF IInv, StackParts

(* Marshal returns.                                                         *)
LEMMA ReturnStep ==
  ASSUME IInv, Return
  PROVE  IInv'
<1>1. TypeOK' /\ heap' \in Heaps /\ TreesWithin'
  BY DEF IInv, TypeOK, Return, TreesWithin
<1>2. StackParts' /\ BuffersAreRestored'
  BY StackKept, BuffersKept DEF Return
<1>3. QED
  BY <1>1, <1>2 DEF IInv, StackParts

-----------------------------------------------------------------------------
(* A container is opened. *)
LEMMA OpenStep ==
  ASSUME IInv, Open
  PROVE  IInv'
<1>1. PICK order \in Orders(Cell) :
        stack' = Append(stack, [node |-> at, left |-> order, first |-> TRUE, quoting |-> FALSE])
  BY DEF Open
<1> DEFINE e == [node |-> at, left |-> order, first |-> TRUE, quoting |-> FALSE]
           n == Len(stack)
<1>2. e \in Frames /\ e.node = at /\ e.left \in Seq(Indices(at)) /\ ~ e.quoting
  <2>1. order \in Seq(Indices(at)) /\ order \in Seq(Nat)
    BY OrderTypes, TypeFacts DEF IInv, Indices, Cell
  <2>2. QED
    BY <2>1 DEF Frames, IInv, TypeOK
<1>3. stack' = Append(stack, e)
  BY <1>1
<1> HIDE DEF e, n
<1>4. StackParts' /\ stack' \in Seq(Frames)
  BY <1>2, <1>3, Opened DEF Open
<1>5. buffers' \in Seq(Seq(Tokens)) /\ Len(buffers') = Len(buffers)
  <2>1. <<Opening(Cell.kind)>> \in Seq(Tokens)
    BY TokenTypes
  <2>2. QED
    BY <2>1, Writes DEF IInv, Open
<1>6. TypeOK' /\ heap' \in Heaps /\ TreesWithin'
  <2>1. seen' \subseteq [typ : Tracked, ptr : Nat]
    <3>1. Cell.kind \in Tracked => Visit(at) \in [typ : Tracked, ptr : Nat]
      BY TypeFacts DEF IInv, Visit, Cell, Cells
    <3>2. Visits(at) \subseteq [typ : Tracked, ptr : Nat]
      BY <3>1 DEF Visits, Cell
    <3>3. QED
      BY <3>2 DEF IInv, TypeOK, Open
  <2>2. QED
    BY <1>4, <1>5, <2>1 DEF IInv, TypeOK, Open, TreesWithin
<1>7. BuffersAreRestored'
  <2>1. /\ n \in Nat /\ Len(stack') = n + 1 /\ stack'[n + 1] = e
        /\ \A i \in 1..n : stack'[i] = stack[i]
    <3>1. stack \in Seq(Frames) /\ n \in Nat
      BY TypeFacts DEF IInv, TypeOK, n
    <3>2. QED
      BY <1>2, <1>3, <3>1, AppendProperties DEF n
  <2>2. 1..(n + 1) = 1..n \cup {n + 1}
    BY <2>1
  <2>3. Quoting' = Quoting
    BY <1>2, <2>1, <2>2 DEF Quoting, n
  <2>4. QED
    BY <1>5, <2>3 DEF IInv, BuffersAreRestored, Quoting
<1>8. QED
  BY <1>4, <1>6, <1>7 DEF IInv, StackParts

(* A container is closed. *)
LEMMA CloseStep ==
  ASSUME IInv, Close
  PROVE  IInv'
<1>1. stack # <<>> /\ Len(stack) \in Nat /\ Len(stack) \in 1..Len(stack)
  BY TypeFacts DEF IInv, Close
<1>2. StackParts' /\ stack' \in Seq(Frames)
  BY <1>1, Closed DEF Close
<1>3. buffers' \in Seq(Seq(Tokens)) /\ Len(buffers') = Len(buffers)
  <2>1. Newline(Depth - 1) \in Seq(Tokens) /\ <<Closing(Whole.kind)>> \in Seq(Tokens) /\ <<>> \in Seq(Tokens)
    <3>1. Depth - 1 \in Nat
      BY <1>1 DEF Depth
    <3>2. QED
      BY <3>1, TokenTypes
  <2>2. (IF Top.first THEN <<>> ELSE Newline(Depth - 1)) \o <<Closing(Whole.kind)>> \in Seq(Tokens)
    BY <2>1, ConcatProperties
  <2>3. QED
    BY <2>2, Writes DEF IInv, Close
<1>4. TypeOK' /\ heap' \in Heaps /\ TreesWithin'
  BY <1>2, <1>3 DEF IInv, TypeOK, Close, TreesWithin
<1>5. BuffersAreRestored'
  <2> DEFINE n == Len(stack)
  <2>1. /\ Len(stack') = n - 1
        /\ \A i \in 1..(n - 1) : stack'[i] = stack[i]
    BY <1>1, OnPop DEF IInv, TypeOK, Close
  <2>2. 1..n = 1..(n - 1) \cup {n}
    BY <1>1
  <2>3. ~ stack[n].quoting
    BY DEF Close, Top
  <2> HIDE DEF n
  <2>4. Quoting' = Quoting
    BY <2>1, <2>2, <2>3 DEF Quoting, n
  <2>5. QED
    BY <1>3, <2>4 DEF IInv, BuffersAreRestored, Quoting
<1>6. QED
  BY <1>2, <1>4, <1>5 DEF IInv, StackParts

-----------------------------------------------------------------------------
(* The innermost call goes on: what changes is whether it quotes.           *)
LEMMA TopQuotes ==
  ASSUME IInv, stack # <<>>, stack' \in Seq(Frames), NEW e \in Frames, stack' = SetLast(stack, e)
  PROVE  Quoting' = IF e.quoting THEN Quoting \cup {Len(stack)} ELSE Quoting \ {Len(stack)}
<1>1. Len(stack) \in 1..Len(stack)
  BY TypeFacts DEF IInv
<1>2. /\ Len(SetLast(stack, e)) = Len(stack)
      /\ \A i \in 1..Len(stack) : SetLast(stack, e)[i] = IF i = Len(stack) THEN e ELSE stack[i]
  BY OnSetTop DEF IInv
<1>3. QED
  BY <1>1, <1>2 DEF Quoting

(* The next item of a container, in a buffer of its own if it is quoted.    *)
LEMMA ItemStep ==
  ASSUME IInv, Item
  PROVE  IInv'
<1> DEFINE item == Whole.items[Head(Top.left)]
           quoted == Whole.kind = "struct" /\ item.quoted
           text == buffers[Len(buffers)] \o Separator(Top.first) \o Newline(Depth)
                     \o Label(Whole.kind, item.name)
           e == [Top EXCEPT !.left = Tail(@), !.first = FALSE, !.quoting = quoted]
<1>1. /\ stack # <<>> /\ Len(stack) \in 1..Len(stack) /\ Len(stack) \in Nat
      /\ Top \in Frames /\ ~ Top.quoting /\ Top.left # <<>>
      /\ Whole \in Cells /\ Top.left \in Seq(Indices(Top.node))
  BY TypeFacts DEF IInv, Item, LeftOver, Top
<1>2. /\ at' = item.node
      /\ stack' = SetLast(stack, e)
      /\ buffers' = SetLast(buffers, text) \o (IF quoted THEN << <<>> >> ELSE <<>>)
      /\ pc' = "value" /\ UNCHANGED <<heap, opts, seen, err>>
  BY DEF Item
<1>3. Head(Top.left) \in 1..Len(Whole.items) /\ item \in Items
  <2>1. Head(Top.left) \in Indices(Top.node)
    BY <1>1, HeadTailProperties
  <2>2. Whole.items \in Seq(Items)
    BY <1>1 DEF Cells
  <2>3. QED
    BY <2>1, <2>2, ElementOfSeq DEF Indices, Whole
<1>4. /\ e \in Frames /\ e.node = Top.node /\ e.left \in Seq(Indices(Top.node))
      /\ e.quoting = quoted
  <2>1. Tail(Top.left) \in Seq(Indices(Top.node)) /\ Tail(Top.left) \in Seq(Nat)
    <3>1. Tail(Top.left) \in Seq(Indices(Top.node))
      BY <1>1, HeadTailProperties
    <3>2. Indices(Top.node) \subseteq Nat
      BY DEF Indices
    <3>3. QED
      BY <3>1, <3>2, SeqMonotonic
  <2>2. quoted \in BOOLEAN
    BY <1>3 DEF Items
  <2>3. QED
    BY <1>1, <2>1, <2>2 DEF Frames
<1>5. text \in Seq(Tokens)
  <2>1. /\ buffers[Len(buffers)] \in Seq(Tokens) /\ Separator(Top.first) \in Seq(Tokens)
        /\ Newline(Depth) \in Seq(Tokens) /\ Label(Whole.kind, item.name) \in Seq(Tokens)
    BY <1>1, <1>3, TypeFacts, TokenTypes DEF IInv, Depth, Items
  <2>2. QED
    BY <2>1, ConcatProperties
<1> HIDE DEF item, quoted, text, e
<1>6. StackParts' /\ stack' \in Seq(Frames)
  BY <1>1, <1>2, <1>4, TopChanged
<1>7. buffers' \in Seq(Seq(Tokens)) /\ Len(buffers') = Len(buffers) + (IF quoted THEN 1 ELSE 0)
  <2>1. SetLast(buffers, text) \in Seq(Seq(Tokens)) /\ Len(SetLast(buffers, text)) = Len(buffers)
    BY <1>5, OnSetLast, TypeFacts DEF IInv, TypeOK
  <2>2. << <<>> >> \in Seq(Seq(Tokens)) /\ <<>> \in Seq(Seq(Tokens)) /\ Len(<< <<>> >>) = 1
    OBVIOUS
  <2>3. QED
    BY <1>2, <2>1, <2>2, ConcatProperties
<1>8. TreesWithin'
  <2>1. Whole' = Whole
    <3>1. Top' = e
      <4>1. /\ Len(SetLast(stack, e)) = Len(stack)
            /\ \A i \in 1..Len(stack) : SetLast(stack, e)[i] = IF i = Len(stack) THEN e ELSE stack[i]
        BY <1>1, <1>4, OnSetTop DEF IInv
      <4>2. QED
        BY <1>1, <1>2, <4>1 DEF Top
    <3>2. QED
      BY <1>2, <1>4, <3>1 DEF Whole
  <2>2. Whole.kind \in Trees => heap[item.node].kind \in Trees \cup TreeLeaves
    BY <1>1, <1>3, EncoderAssumption DEF IInv, Whole, item, Frames
  <2>3. QED
    BY <1>2, <2>1, <2>2 DEF TreesWithin, InTree, Cell
<1>9. BuffersAreRestored'
  <2>1. Quoting' = IF quoted THEN Quoting \cup {Len(stack)} ELSE Quoting \ {Len(stack)}
    BY <1>1, <1>2, <1>4, <1>6, TopQuotes
  <2>2. Len(stack) \notin Quoting
    BY <1>1 DEF Quoting, Top
  <2>3. Cardinality(Quoting') = Cardinality(Quoting) + (IF quoted THEN 1 ELSE 0)
    <3>1. IsFiniteSet(Quoting) /\ Cardinality(Quoting) \in Nat
      BY QuotingFinite DEF IInv
    <3>2. Cardinality(Quoting \cup {Len(stack)}) = Cardinality(Quoting) + 1
      BY <2>2, <3>1, FS_AddElement
    <3>3. Quoting \ {Len(stack)} = Quoting
      BY <2>2
    <3>4. CASE quoted
      BY <2>1, <3>2, <3>4
    <3>5. CASE ~ quoted
      <4>1. Cardinality(Quoting') = Cardinality(Quoting)
        BY <2>1, <3>3, <3>5
      <4>2. QED
        BY <3>1, <3>5, <4>1
    <3>6. QED
      BY <3>4, <3>5
  <2>4. QED
    BY <1>7, <2>3, QuotingFinite DEF IInv, BuffersAreRestored, Quoting
<1>10. TypeOK' /\ heap' \in Heaps
  <2>1. Len(buffers') >= 1
    <3>1. Len(buffers) \in Nat /\ Len(buffers) >= 1
      BY LenProperties DEF IInv, TypeOK
    <3>2. QED
      BY <1>7, <3>1
  <2>2. at' \in Nodes
    BY <1>2, <1>3 DEF Items
  <2>3. QED
    BY <1>2, <1>6, <1>7, <2>1, <2>2 DEF IInv, TypeOK
<1>11. QED
  BY <1>6, <1>8, <1>9, <1>10 DEF IInv, StackParts

(* The quoted item is escaped and its buffer dropped.                       *)
LEMMA UnquoteStep ==
  ASSUME IInv, Unquote
  PROVE  IInv'
<1> DEFINE e == [Top EXCEPT !.quoting = FALSE]
           outer == Pop(buffers)
           text == outer[Len(outer)] \o Escaped(buffers[Len(buffers)])
<1>1. /\ stack # <<>> /\ Len(stack) \in 1..Len(stack)
      /\ Top \in Frames /\ Top.quoting /\ Top.left \in Seq(Indices(Top.node))
  BY TypeFacts DEF IInv, Unquote, LeftOver, Top
<1>2. e \in Frames /\ e.node = Top.node /\ e.left \in Seq(Indices(Top.node)) /\ ~ e.quoting
  BY <1>1 DEF Frames
<1>3. /\ stack' = SetLast(stack, e) /\ buffers' = SetLast(outer, text)
      /\ pc' = "next" /\ UNCHANGED <<heap, opts, at, seen, err>>
  BY DEF Unquote
<1>4. Len(stack) \in Quoting
  BY <1>1 DEF Quoting, Top
<1>5. Cardinality(Quoting) \in Nat \ {0}
  BY <1>4, QuotingFinite, FS_EmptySet DEF IInv
<1>6. Len(buffers) \in Nat /\ Len(buffers) >= 2
  <2>1. Len(buffers) = 1 + Cardinality(Quoting)
    BY DEF IInv, BuffersAreRestored, Quoting
  <2>2. QED
    BY <1>5, <2>1
<1>7. outer \in Seq(Seq(Tokens)) /\ outer # <<>> /\ Len(outer) = Len(buffers) - 1 /\ outer[Len(outer)] \in Seq(Tokens)
  <2>1. outer \in Seq(Seq(Tokens)) /\ Len(outer) = Len(buffers) - 1
    BY OnPop, TypeFacts DEF IInv, TypeOK
  <2>2. Len(outer) \in 1..Len(outer) /\ Len(outer) # 0
    BY <1>6, <2>1
  <2>3. outer[Len(outer)] \in Seq(Tokens)
    BY <2>1, <2>2, ElementOfSeq
  <2>4. outer # <<>>
    BY <2>2, EmptySeq
  <2>5. QED
    BY <2>1, <2>3, <2>4
<1>8. text \in Seq(Tokens)
  BY <1>7, TypeFacts, TokenTypes, ConcatProperties DEF IInv
<1> HIDE DEF e, outer, text
<1>9. StackParts' /\ stack' \in Seq(Frames)
  BY <1>1, <1>2, <1>3, TopChanged
<1>10. buffers' \in Seq(Seq(Tokens)) /\ Len(buffers') = Len(buffers) - 1
  BY <1>3, <1>7, <1>8, OnSetLast
<1>11. TypeOK' /\ heap' \in Heaps /\ TreesWithin'
  <2>1. Len(buffers') >= 1
    BY <1>6, <1>10
  <2>2. QED
    BY <1>3, <1>9, <1>10, <2>1 DEF IInv, TypeOK, TreesWithin
<1>12. BuffersAreRestored'
  <2>1. Quoting' = Quoting \ {Len(stack)}
    BY <1>1, <1>2, <1>3, <1>9, TopQuotes
  <2>2. Cardinality(Quoting') = Cardinality(Quoting) - 1
    BY <1>4, <2>1, QuotingFinite, FS_RemoveElement DEF IInv
  <2>3. QED
    BY <1>5, <1>10, <2>2 DEF IInv, BuffersAreRestored, Quoting
<1>13. QED
  BY <1>9, <1>11, <1>12 DEF IInv, StackParts

-----------------------------------------------------------------------------
(* Marshal starts with no container entered and one empty buffer.           *)
LEMMA InitIInv == Init => IInv
<1> SUFFICES ASSUME Init PROVE IInv
  OBVIOUS
<1>1. stack = <<>> /\ 1..Len(stack) = {}
  <2>1. stack = <<>> /\ Len(stack) = 0
    BY DEF Init
  <2>2. QED
    BY <2>1
<1>2. TypeOK
  <2>1. buffers \in Seq(Seq(Tokens)) /\ Len(buffers) >= 1
    <3>1. << <<>> >> \in Seq(Seq(Tokens)) /\ Len(<< <<>> >>) = 1
      OBVIOUS
    <3>2. buffers = << <<>> >>
      BY DEF Init
    <3>3. QED
      BY <3>1, <3>2
  <2>2. heap \in [Nodes -> Cells] /\ at \in Nodes /\ opts \in [sortKeys : BOOLEAN, indented : BOOLEAN]
    BY EncoderAssumption DEF Init
  <2>3. stack \in Seq(Frames)
    BY <1>1
  <2>4. QED
    BY <2>1, <2>2, <2>3 DEF Init, TypeOK
<1>3. BuffersAreRestored
  <2>1. {i \in 1..Len(stack) : stack[i].quoting} = {}
    BY <1>1
  <2>2. Len(buffers) = 1
    BY DEF Init
  <2>3. QED
    BY <2>1, <2>2, FS_EmptySet DEF BuffersAreRestored
<1>4. heap \in Heaps /\ LeftOver /\ TreesWithin /\ SeenIsTheStack /\ DepthBounded
  BY <1>1 DEF Init, LeftOver, TreesWithin, InTree, SeenIsTheStack, Entered, DepthBounded
<1>5. QED
  BY <1>2, <1>3, <1>4 DEF IInv

(* The invariant is inductive. *)
LEMMA Invariance == Spec => []IInv
<1>1. IInv /\ [Next]_vars => IInv'
  <2> SUFFICES ASSUME IInv, [Next]_vars PROVE IInv'
    OBVIOUS
  <2>1. CASE TooDeep
    BY <2>1, FailStep DEF TooDeep, Errors
  <2>2. CASE WriteLeaf
    BY <2>2, LeafStep
  <2>3. CASE Refuse
    BY <2>3, FailStep DEF Refuse, Refusals, Errors
  <2>4. CASE Follow
    BY <2>4, FollowStep
  <2>5. CASE Cycle
    BY <2>5, FailStep DEF Cycle, Errors
  <2>6. CASE Open
    BY <2>6, OpenStep
  <2>7. CASE Item
    BY <2>7, ItemStep
  <2>8. CASE Unquote
    BY <2>8, UnquoteStep
  <2>9. CASE Close
    BY <2>9, CloseStep
  <2>10. CASE Return
    BY <2>10, ReturnStep
  <2>11. CASE UNCHANGED vars
    <3>1. TypeOK' /\ heap' \in Heaps /\ TreesWithin'
      BY <2>11 DEF vars, IInv, TypeOK, TreesWithin, InTree, Whole, Top, Cell
    <3>2. StackParts' /\ BuffersAreRestored'
      BY <2>11, StackKept, BuffersKept DEF vars
    <3>3. QED
      BY <3>1, <3>2 DEF IInv, StackParts
  <2>12. QED
    BY <2>1, <2>2, <2>3, <2>4, <2>5, <2>6, <2>7, <2>8, <2>9, <2>10, <2>11 DEF Next
<1>2. QED
  BY <1>1, InitIInv, PTL DEF Spec

-----------------------------------------------------------------------------
(* Type correctness of the walk. *)
THEOREM TypeCorrect == Spec => []TypeOK
<1>1. IInv => TypeOK
  BY DEF IInv
<1>2. QED
  BY <1>1, Invariance, PTL

(* enter() and leave() keep e.seen equal to the containers being written,   *)
(* for every value, cyclic ones and shared parts included. *)
THEOREM SeenCorrect == Spec => []SeenIsTheStack
<1>1. IInv => SeenIsTheStack
  BY DEF IInv
<1>2. QED
  BY <1>1, Invariance, PTL

(* objectStruct() restores e.b however deeply quoted fields nest.           *)
THEOREM BuffersCorrect == Spec => []BuffersAreRestored
<1>1. IInv => BuffersAreRestored
  BY DEF IInv
<1>2. QED
  BY <1>1, Invariance, PTL

(* value() is never called deeper than MaxDepth + 1, on any value.          *)
THEOREM DepthCorrect == Spec => []DepthBounded
<1>1. IInv => DepthBounded
  BY DEF IInv
<1>2. QED
  BY <1>1, Invariance, PTL

-----------------------------------------------------------------------------
(* Buffers of which the last has been written to.                           *)
Lists(S) == {B \in Seq(Seq(S)) : B # <<>>}
Added(B, t) == SetLast(B, B[Len(B)] \o t)

(* The last of these buffers is a sequence.                                 *)
LEMMA LastOf ==
  ASSUME NEW S, NEW B \in Lists(S)
  PROVE  Len(B) \in Nat \ {0} /\ Len(B) \in 1..Len(B) /\ B[Len(B)] \in Seq(S)
<1>1. Len(B) \in Nat \ {0}
  BY EmptySeq DEF Lists
<1>2. Len(B) \in 1..Len(B)
  BY <1>1
<1>3. QED
  BY <1>1, <1>2, ElementOfSeq DEF Lists

(* What is written to the last buffer leaves the others as they are.        *)
LEMMA AddedTo ==
  ASSUME NEW S, NEW B \in Lists(S), NEW s \in Seq(S)
  PROVE  /\ Added(B, s) \in Lists(S) /\ Len(Added(B, s)) = Len(B)
         /\ \A i \in 1..Len(B) : Added(B, s)[i] = IF i = Len(B) THEN B[Len(B)] \o s ELSE B[i]
<1>1. B[Len(B)] \o s \in Seq(S)
  BY LastOf, ConcatProperties
<1> DEFINE T == Seq(S)
           e == B[Len(B)] \o s
<1>2. B \in Seq(T) /\ B # <<>> /\ e \in T
  BY <1>1 DEF Lists
<1> HIDE DEF T, e
<1>3. /\ SetLast(B, e) \in Seq(T) /\ Len(SetLast(B, e)) = Len(B)
      /\ \A i \in 1..Len(B) : SetLast(B, e)[i] = IF i = Len(B) THEN e ELSE B[i]
  BY <1>2, OnSetLast
<1>4. SetLast(B, e) # <<>>
  BY <1>3, LastOf, EmptySeq
<1>5. QED
  BY <1>3, <1>4 DEF Added, Lists, T, e

(* Writing one text after the other is writing both.                        *)
LEMMA AddedTwice ==
  ASSUME NEW S, NEW B \in Lists(S), NEW s \in Seq(S), NEW t \in Seq(S)
  PROVE  Added(Added(B, s), t) = Added(B, s \o t)
<1> DEFINE C == Added(B, s)
           l == B[Len(B)]
<1>1. s \o t \in Seq(S) /\ l \in Seq(S)
  BY LastOf, ConcatProperties
<1>2. /\ C \in Lists(S) /\ Len(C) = Len(B) /\ C[Len(C)] = l \o s
      /\ \A i \in 1..Len(B) : i # Len(B) => C[i] = B[i]
  <2>1. /\ C \in Lists(S) /\ Len(C) = Len(B)
        /\ \A i \in 1..Len(B) : C[i] = IF i = Len(B) THEN l \o s ELSE B[i]
    BY AddedTo
  <2> HIDE DEF C
  <2>2. QED
    BY <2>1, LastOf
<1>3. (l \o s) \o t = l \o (s \o t)
  <2> HIDE DEF l
  <2>1. QED
    BY <1>1, ConcatAssociative
<1> HIDE DEF C
<1>4. /\ Added(C, t) \in Lists(S) /\ Len(Added(C, t)) = Len(B)
      /\ \A i \in 1..Len(B) : Added(C, t)[i] = IF i = Len(B) THEN l \o (s \o t) ELSE B[i]
  <2>1. /\ Added(C, t) \in Lists(S) /\ Len(Added(C, t)) = Len(C)
        /\ \A i \in 1..Len(C) : Added(C, t)[i] = IF i = Len(C) THEN C[Len(C)] \o t ELSE C[i]
    BY <1>2, AddedTo
  <2>2. QED
    BY <1>2, <1>3, <2>1
<1>5. /\ Added(B, s \o t) \in Lists(S) /\ Len(Added(B, s \o t)) = Len(B)
      /\ \A i \in 1..Len(B) : Added(B, s \o t)[i] = IF i = Len(B) THEN l \o (s \o t) ELSE B[i]
  BY <1>1, AddedTo
<1> DEFINE T == Seq(S)
           x == Added(C, t)
           y == Added(B, s \o t)
<1>6. x \in Seq(T) /\ y \in Seq(T) /\ Len(x) = Len(y) /\ \A i \in 1..Len(x) : x[i] = y[i]
  BY <1>4, <1>5 DEF Lists
<1>7. x = y
  <2> HIDE DEF x, y, T
  <2>1. QED
    BY <1>6, SeqEqual
<1>8. QED
  BY <1>7 DEF C

(* A buffer of its own, written to and taken away.                          *)
LEMMA OwnBuffer ==
  ASSUME NEW S, NEW B \in Lists(S)
  PROVE  /\ B \o << <<>> >> = Append(B, <<>>)
         /\ \A t \in Seq(S) :
              /\ Append(B, t) \in Lists(S) /\ Len(Append(B, t)) = Len(B) + 1
              /\ Append(B, t)[Len(B) + 1] = t
              /\ Pop(Append(B, t)) = B
              /\ Added(Append(B, <<>>), t) = Append(B, t)
<1> DEFINE T == Seq(S)
<1>1. B \in Seq(T) /\ Len(B) \in Nat /\ <<>> \in T
  BY LastOf, EmptySeq DEF Lists
<1>2. B \o << <<>> >> = Append(B, <<>>)
  <2> HIDE DEF T
  <2>1. QED
    BY <1>1, AppendIsConcat
<1>3. ASSUME NEW t \in T
      PROVE  /\ Append(B, t) \in Seq(T) /\ Append(B, t) # <<>>
             /\ Len(Append(B, t)) = Len(B) + 1
             /\ \A i \in 1..Len(B) : Append(B, t)[i] = B[i]
             /\ Append(B, t)[Len(B) + 1] = t
  <2> HIDE DEF T
  <2>1. QED
    BY <1>1, <1>3, AppendProperties
<1>4. ASSUME NEW t \in T PROVE Pop(Append(B, t)) = B
  <2> HIDE DEF T
  <2>1. /\ Pop(Append(B, t)) \in Seq(T) /\ Len(Pop(Append(B, t))) = Len(B)
        /\ \A i \in 1..Len(B) : Pop(Append(B, t))[i] = B[i]
    <3> DEFINE E == Append(B, t)
    <3>1. E \in Seq(T) /\ E # <<>> /\ Len(E) - 1 = Len(B) /\ \A i \in 1..Len(B) : E[i] = B[i]
      BY <1>1, <1>3, <1>4
    <3> HIDE DEF E
    <3>2. /\ Pop(E) \in Seq(T) /\ Len(Pop(E)) = Len(B)
          /\ \A i \in 1..Len(B) : Pop(E)[i] = E[i]
      BY <3>1, OnPop
    <3>3. QED
      BY <3>1, <3>2 DEF E
  <2>2. QED
    BY <1>1, <2>1, SeqEqual
<1>5. ASSUME NEW t \in T PROVE Added(Append(B, <<>>), t) = Append(B, t)
  <2> DEFINE E == Append(B, <<>>)
  <2>1. E \in Lists(S) /\ Len(E) = Len(B) + 1 /\ E[Len(E)] = <<>> /\ \A i \in 1..Len(B) : E[i] = B[i]
    BY <1>1, <1>3 DEF Lists
  <2>2. <<>> \o t = t
    BY ConcatEmptySeq
  <2> HIDE DEF E
  <2>3. /\ Added(E, t) \in Lists(S) /\ Len(Added(E, t)) = Len(B) + 1
        /\ \A i \in 1..(Len(B) + 1) : Added(E, t)[i] = IF i = Len(B) + 1 THEN t ELSE E[i]
    <3>1. /\ Added(E, t) \in Lists(S) /\ Len(Added(E, t)) = Len(E)
          /\ \A i \in 1..Len(E) : Added(E, t)[i] = IF i = Len(E) THEN E[Len(E)] \o t ELSE E[i]
      BY <2>1, <1>5, AddedTo
    <3>2. QED
      BY <2>1, <2>2, <3>1
  <2>4. \A i \in 1..(Len(B) + 1) : i # Len(B) + 1 => i \in 1..Len(B)
    BY <1>1
  <2>5. \A i \in 1..(Len(B) + 1) : Added(E, t)[i] = Append(B, t)[i]
    BY <1>3, <2>1, <2>3, <2>4
  <2> DEFINE x == Added(E, t)
             y == Append(B, t)
  <2>6. x \in Seq(T) /\ y \in Seq(T) /\ Len(x) = Len(y) /\ \A i \in 1..Len(x) : x[i] = y[i]
    BY <1>3, <2>3, <2>5 DEF Lists
  <2>7. x = y
    <3> HIDE DEF x, y, T
    <3>1. QED
      BY <2>6, SeqEqual
  <2>8. QED
    BY <2>7 DEF E
<1>6. QED
  BY <1>2, <1>3, <1>4, <1>5 DEF Lists

-----------------------------------------------------------------------------
(* What a call in progress has written of the occurrence w, after what was  *)
(* in the buffers B when it began: the first k items of an order, of which  *)
(* f.left are those that follow.                                            *)
Rest(order, k, left) ==
  Len(left) = Len(order) - k /\ \A j \in 1..Len(left) : left[j] = order[k + j]

Encloses(w, f) == Allowed(w) /\ Met(w).kind \in Containers /\ f.node = w.node

Between(w, f, B, C) ==
  \E order \in Arrangements(w) : \E k \in 0..Len(order) : \E body \in Bodies(w, order, k) :
    /\ Encloses(w, f) /\ Rest(order, k, f.left) /\ (f.first <=> k = 0) /\ ~ f.quoting
    /\ body \in Seq(Tokens)
    /\ C = Added(B, <<Opening(Met(w).kind)>> \o body)

(* It waits for its k-th item, which is v or a reference to it, and for     *)
(* which the buffers were C.                                                *)
Alike(v, w) == Texts(v) = Texts(w) /\ v.depth = w.depth /\ v.inTree = w.inTree

Leading(w, i, k, body) == <<Opening(Met(w).kind)>> \o (body \o Lead(w, i, k = 1))

Waiting(w, f, v, B, C) ==
  \E order \in Arrangements(w) : \E k \in 1..Len(order) : \E body \in Bodies(w, order, k - 1) :
    /\ Encloses(w, f) /\ Rest(order, k, f.left) /\ ~ f.first /\ f.quoting = Quoted(w, order[k])
    /\ Alike(v, Inner(w, order[k]))
    /\ body \in Seq(Tokens)
    /\ LET D == Added(B, Leading(w, order[k], k, body))
       IN C = IF f.quoting THEN Append(D, <<>>) ELSE D

Of(h, o, w, B) ==
  /\ w \in Occurrences(h, o) /\ w = Occurrence(h, o, w.node, w.depth, w.inTree)
  /\ w.node \in Nodes /\ w.depth \in Nat /\ w.inTree \in BOOLEAN
  /\ B \in Lists(Tokens)

(* The first n calls of s wait for w, and the buffers were B before it.     *)
Stands(h, o, s, n, w, B) ==
  \E p, b :
    /\ Alike(p[1], Outermost(h, o)) /\ b[1] = << <<>> >>
    /\ p[n + 1] = w /\ b[n + 1] = B
    /\ \A m \in 1..(n + 1) : Of(h, o, p[m], b[m]) /\ p[m].depth = m - 1
    /\ \A m \in 1..n : Waiting(p[m], s[m], p[m + 1], b[m], b[m + 1])

LEMMA StandsFirst ==
  ASSUME NEW h, NEW o, NEW s, NEW w, NEW B
  PROVE  /\ Of(h, o, w, B) /\ Alike(w, Outermost(h, o)) /\ B = << <<>> >>
              => Stands(h, o, s, 0, w, B)
         /\ Stands(h, o, s, 0, w, B)
              => Of(h, o, w, B) /\ Alike(w, Outermost(h, o)) /\ B = << <<>> >>
<1> DEFINE r == Outermost(h, o)
<1>0. r.depth = 0
  BY DEF Outermost, Occurrence
<1> HIDE DEF r
<1>1. ASSUME Of(h, o, w, B), Alike(w, r), B = << <<>> >>
      PROVE  Stands(h, o, s, 0, w, B)
  <2> DEFINE p == [m \in {1} |-> w]
             b == [m \in {1} |-> B]
  <2>1. p[1] = w /\ b[1] = B /\ 0 + 1 = 1
    OBVIOUS
  <2> HIDE DEF p, b
  <2>2. \A m \in 1..(0 + 1) : Of(h, o, p[m], b[m]) /\ p[m].depth = m - 1
    <3>1. w.depth = 0
      BY <1>0, <1>1 DEF Alike
    <3>2. \A m \in 1..(0 + 1) : m = 1
      OBVIOUS
    <3>3. QED
      BY <1>1, <2>1, <3>1, <3>2
  <2>3. p[0 + 1] = w /\ b[0 + 1] = B /\ Alike(p[1], r) /\ b[1] = << <<>> >>
    BY <1>1, <2>1
  <2>4. \A m \in 1..0 : Waiting(p[m], s[m], p[m + 1], b[m], b[m + 1])
    OBVIOUS
  <2>5. QED
    BY <2>2, <2>3, <2>4 DEF Stands, r
<1>2. ASSUME Stands(h, o, s, 0, w, B)
      PROVE  Of(h, o, w, B) /\ Alike(w, r) /\ B = << <<>> >>
  <2>1. 0 + 1 = 1 /\ 1 \in 1..(0 + 1)
    OBVIOUS
  <2>2. PICK p, b :
          /\ Alike(p[1], r) /\ b[1] = << <<>> >>
          /\ p[0 + 1] = w /\ b[0 + 1] = B
          /\ \A m \in 1..(0 + 1) : Of(h, o, p[m], b[m]) /\ p[m].depth = m - 1
    BY <1>2 DEF Stands, r
  <2>3. QED
    BY <2>1, <2>2
<1>3. QED
  BY <1>1, <1>2 DEF r

(* Only the first n calls matter. *)
LEMMA StandsStill ==
  ASSUME NEW h, NEW o, NEW s, NEW t, NEW n \in Nat, NEW w, NEW B,
         Stands(h, o, s, n, w, B), \A m \in 1..n : t[m] = s[m]
  PROVE  Stands(h, o, t, n, w, B)
<1>1. PICK p, b :
        /\ Alike(p[1], Outermost(h, o)) /\ b[1] = << <<>> >>
        /\ p[n + 1] = w /\ b[n + 1] = B
        /\ \A m \in 1..(n + 1) : Of(h, o, p[m], b[m]) /\ p[m].depth = m - 1
        /\ \A m \in 1..n : Waiting(p[m], s[m], p[m + 1], b[m], b[m + 1])
  BY DEF Stands
<1>2. \A m \in 1..n : Waiting(p[m], t[m], p[m + 1], b[m], b[m + 1])
  BY <1>1
<1>3. QED
  BY <1>1, <1>2 DEF Stands

(* A reference stands where what it refers to does.                         *)
LEMMA StandsAlike ==
  ASSUME NEW h, NEW o, NEW s, NEW n \in Nat, NEW w, NEW B, NEW v,
         Stands(h, o, s, n, w, B), Of(h, o, v, B), Alike(v, w)
  PROVE  Stands(h, o, s, n, v, B)
<1>1. PICK p, b :
        /\ Alike(p[1], Outermost(h, o)) /\ b[1] = << <<>> >>
        /\ p[n + 1] = w /\ b[n + 1] = B
        /\ \A m \in 1..(n + 1) : Of(h, o, p[m], b[m]) /\ p[m].depth = m - 1
        /\ \A m \in 1..n : Waiting(p[m], s[m], p[m + 1], b[m], b[m + 1])
  BY DEF Stands
<1> DEFINE q == [m \in 1..(n + 1) |-> IF m = n + 1 THEN v ELSE p[m]]
<1>2. /\ q[n + 1] = v /\ \A m \in 1..n : q[m] = p[m]
      /\ 1..(n + 1) = 1..n \cup {n + 1} /\ n + 1 \in 1..(n + 1) /\ n + 1 - 1 = n
  OBVIOUS
<1> HIDE DEF q
<1>3. v.depth = w.depth /\ w.depth = n + 1 - 1
  BY <1>1, <1>2 DEF Alike
<1>4. \A m \in 1..(n + 1) : Of(h, o, q[m], b[m]) /\ q[m].depth = m - 1
  BY <1>1, <1>2, <1>3
<1>5. Alike(q[1], Outermost(h, o))
  <2>1. CASE n = 0
    <3>1. n + 1 = 1
      BY <2>1
    <3>2. q[1] = v /\ p[1] = w
      BY <1>1, <1>2, <3>1
    <3>3. QED
      BY <1>1, <3>2 DEF Alike
  <2>2. CASE n # 0
    <3>1. 1 \in 1..n
      BY <2>2
    <3>2. QED
      BY <1>1, <1>2, <3>1
  <2>3. QED
    BY <2>1, <2>2
<1>6. ASSUME NEW m \in 1..n PROVE Waiting(q[m], s[m], q[m + 1], b[m], b[m + 1])
  <2>1. CASE m = n
    <3>1. Waiting(p[n], s[n], w, b[n], b[n + 1])
      BY <1>1, <2>1
    <3>2. \A x : Alike(w, x) => Alike(v, x)
      BY DEF Alike
    <3>3. Waiting(p[n], s[n], v, b[n], b[n + 1])
      BY <3>1, <3>2 DEF Waiting
    <3>4. QED
      BY <1>2, <2>1, <3>3
  <2>2. CASE m # n
    <3>1. m + 1 \in 1..n
      BY <2>2
    <3>2. QED
      BY <1>1, <1>2, <3>1
  <2>3. QED
    BY <2>1, <2>2
<1>7. QED
  BY <1>1, <1>2, <1>4, <1>5, <1>6 DEF Stands

(* One more call waits. *)
LEMMA StandsDeeper ==
  ASSUME NEW h, NEW o, NEW s, NEW n \in Nat, NEW w, NEW B, NEW v, NEW C,
         Stands(h, o, s, n, w, B), Waiting(w, s[n + 1], v, B, C), Of(h, o, v, C), v.depth = n + 1
  PROVE  Stands(h, o, s, n + 1, v, C)
<1>1. PICK p, b :
        /\ Alike(p[1], Outermost(h, o)) /\ b[1] = << <<>> >>
        /\ p[n + 1] = w /\ b[n + 1] = B
        /\ \A m \in 1..(n + 1) : Of(h, o, p[m], b[m]) /\ p[m].depth = m - 1
        /\ \A m \in 1..n : Waiting(p[m], s[m], p[m + 1], b[m], b[m + 1])
  BY DEF Stands
<1> DEFINE q == [m \in 1..(n + 2) |-> IF m = n + 2 THEN v ELSE p[m]]
           c == [m \in 1..(n + 2) |-> IF m = n + 2 THEN C ELSE b[m]]
<1>2. /\ q[n + 2] = v /\ \A m \in 1..(n + 1) : q[m] = p[m]
      /\ c[n + 2] = C /\ \A m \in 1..(n + 1) : c[m] = b[m]
      /\ n + 1 + 1 = n + 2 /\ n + 2 - 1 = n + 1 /\ 1 \in 1..(n + 1) /\ n + 1 \in 1..(n + 1)
      /\ 1..(n + 2) = 1..(n + 1) \cup {n + 2} /\ 1..(n + 1) = 1..n \cup {n + 1}
  OBVIOUS
<1> HIDE DEF q, c
<1>3. \A m \in 1..(n + 1 + 1) : Of(h, o, q[m], c[m]) /\ q[m].depth = m - 1
  BY <1>1, <1>2
<1>4. ASSUME NEW m \in 1..(n + 1) PROVE Waiting(q[m], s[m], q[m + 1], c[m], c[m + 1])
  <2>1. CASE m = n + 1
    BY <1>1, <1>2, <2>1
  <2>2. CASE m # n + 1
    <3>1. m \in 1..n /\ m + 1 \in 1..(n + 1)
      BY <2>2
    <3>2. QED
      BY <1>1, <1>2, <3>1
  <2>3. QED
    BY <2>1, <2>2
<1>5. /\ Alike(q[1], Outermost(h, o)) /\ c[1] = << <<>> >>
      /\ q[n + 1 + 1] = v /\ c[n + 1 + 1] = C
  BY <1>1, <1>2
<1>6. QED
  BY <1>3, <1>4, <1>5 DEF Stands

(* One call fewer waits. *)
LEMMA StandsHigher ==
  ASSUME NEW h, NEW o, NEW s, NEW n \in Nat \ {0}, NEW v, NEW C, Stands(h, o, s, n, v, C)
  PROVE  \E w, B : Stands(h, o, s, n - 1, w, B) /\ Waiting(w, s[n], v, B, C)
<1>1. PICK p, b :
        /\ Alike(p[1], Outermost(h, o)) /\ b[1] = << <<>> >>
        /\ p[n + 1] = v /\ b[n + 1] = C
        /\ \A m \in 1..(n + 1) : Of(h, o, p[m], b[m]) /\ p[m].depth = m - 1
        /\ \A m \in 1..n : Waiting(p[m], s[m], p[m + 1], b[m], b[m + 1])
  BY DEF Stands
<1>2. n - 1 + 1 = n /\ n \in 1..n /\ n \in 1..(n + 1)
  OBVIOUS
<1>3. Stands(h, o, s, n - 1, p[n], b[n])
  <2>1. \A m \in 1..(n - 1 + 1) : Of(h, o, p[m], b[m]) /\ p[m].depth = m - 1
    BY <1>1, <1>2
  <2>2. \A m \in 1..(n - 1) : Waiting(p[m], s[m], p[m + 1], b[m], b[m + 1])
    BY <1>1
  <2>3. QED
    BY <1>1, <1>2, <2>1, <2>2 DEF Stands
<1>4. QED
  BY <1>1, <1>2, <1>3

(* The occurrence that stands is one of the value, as deep as calls wait.   *)
LEMMA StandsFor ==
  ASSUME NEW h, NEW o, NEW s, NEW n \in Nat, NEW w, NEW B, Stands(h, o, s, n, w, B)
  PROVE  Of(h, o, w, B) /\ w.depth = n
<1>1. n + 1 \in 1..(n + 1) /\ n + 1 - 1 = n
  OBVIOUS
<1>2. QED
  BY <1>1 DEF Stands

-----------------------------------------------------------------------------
(* What is assumed of the texts of w, and what they are made of.            *)
LEMMA Rules ==
  ASSUME NEW h \in Heaps, NEW o \in Settings, NEW w, NEW B, Of(h, o, w, B)
  PROVE  /\ w.heap = h /\ w.opts = o /\ Met(w) = h[w.node] /\ Met(w) \in Cells
         /\ Len(Met(w).items) \in Nat
         /\ \A i \in 1..Len(Met(w).items) : Met(w).items[i] \in Items
         /\ IsText(w)
         /\ Allowed(w) /\ Met(w).kind \in Containers => \A order \in Arrangements(w) : IsBody(w, order)
         /\ \A i \in Parts(w) : Inner(w, i) \in Occurrences(h, o)
<1>1. w.heap = h /\ w.opts = o /\ w.node \in Nodes
  BY DEF Of, Occurrence
<1>2. Met(w) = h[w.node] /\ Met(w) \in Cells
  BY <1>1, EncoderAssumption DEF Met
<1>3. Met(w).items \in Seq(Items)
  BY <1>2 DEF Cells
<1>4. Len(Met(w).items) \in Nat /\ \A i \in 1..Len(Met(w).items) : Met(w).items[i] \in Items
  BY <1>3, ElementOfSeq, LenProperties
<1>5. /\ IsText(w)
      /\ Allowed(w) /\ Met(w).kind \in Containers => \A order \in Arrangements(w) : IsBody(w, order)
      /\ \A i \in Parts(w) : Inner(w, i) \in Occurrences(h, o)
  BY WritingAssumption DEF Of
<1>6. QED
  BY <1>1, <1>2, <1>4, <1>5

(* An arrangement is a sequence of items. *)
LEMMA ArrangementTypes ==
  ASSUME NEW h \in Heaps, NEW o \in Settings, NEW w, NEW B, Of(h, o, w, B), NEW p \in Arrangements(w)
  PROVE  /\ Len(p) \in Nat /\ (p = <<>> <=> Len(p) = 0)
         /\ \A k \in 1..Len(p) : p[k] \in Written(w) /\ p[k] \in 1..Len(Met(w).items)
<1>1. Len(Met(w).items) \in Nat /\ Written(w) \subseteq 1..Len(Met(w).items)
  BY Rules DEF Written
<1>2. Cardinality(Written(w)) \in Nat
  <2>1. IsFiniteSet(1..Len(Met(w).items))
    BY <1>1, FS_Interval
  <2>2. IsFiniteSet(Written(w))
    BY <1>1, <2>1, FS_Subset
  <2>3. QED
    BY <2>2, FS_CardinalityType
<1>3. p \in [1..Cardinality(Written(w)) -> Written(w)]
  BY DEF Arrangements
<1>4. p \in Seq(Written(w))
  BY <1>2, <1>3
<1>5. QED
  BY <1>1, <1>4, ElementOfSeq, LenProperties, EmptySeq

(* The orders that the code may choose are those arrangements.              *)
LEMMA OrdersArrange ==
  ASSUME NEW w, w.heap = heap, w.opts = opts, Met(w) \in Cells
  PROVE  Orders(Met(w)) \subseteq Arrangements(w)
<1> DEFINE c == Met(w)
<1>1. \A i \in 1..Len(c.items) :
        Omitted(w, i) <=> c.kind = "struct" /\ c.items[i].omitEmpty /\ Empty(heap[c.items[i].node])
  BY DEF Omitted, Empty, Zeros
<1>2. Written(w) = Live(c)
  BY <1>1 DEF Written, Live
<1>3. \A i \in 1..Len(c.items) : c.items[i].name \in Nat
  <2>1. c.items \in Seq(Items)
    BY DEF Cells
  <2>2. \A i \in 1..Len(c.items) : c.items[i] \in Items
    BY <2>1, ElementOfSeq
  <2>3. QED
    BY <2>2 DEF Items
<1>4. Live(c) \subseteq 1..Len(c.items)
  BY DEF Live
<1>5. \A i, j \in Live(c) : Before(c, i, j) => Follows(w, i, j)
  <2> TAKE i \in Live(c), j \in Live(c)
  <2>1. c.items[i].name \in Nat /\ c.items[j].name \in Nat
    BY <1>3, <1>4
  <2>2. Sorts(c) <=> Sorted(w)
    BY DEF Sorts, Sorted
  <2>3. QED
    BY <2>1, <2>2 DEF Before, Follows
<1>6. ASSUME NEW p \in Orders(c) PROVE p \in Arrangements(w)
  <2>1. /\ p \in [1..Cardinality(Written(w)) -> Written(w)]
        /\ \A i, j \in DOMAIN p : i < j => p[i] # p[j] /\ Before(c, p[i], p[j])
    BY <1>2, <1>6 DEF Orders
  <2>2. \A i \in DOMAIN p : p[i] \in Live(c)
    BY <1>2, <2>1
  <2>3. \A i, j \in DOMAIN p : i < j => p[i] # p[j] /\ Follows(w, p[i], p[j])
    BY <1>5, <2>1, <2>2
  <2>4. QED
    BY <2>1, <2>3 DEF Arrangements
<1>7. QED
  BY <1>6

(* The tokens around an item. *)
LEMMA LeadTypes ==
  ASSUME NEW h \in Heaps, NEW o \in Settings, NEW w, NEW B, Of(h, o, w, B),
         NEW i \in 1..Len(Met(w).items)
  PROVE  /\ \A first : Lead(w, i, first) \in Seq(Tokens)
         /\ \A t \in Seq(Tokens) : Quote(w, i, t) \in Seq(Tokens)
<1>1. w.depth + 1 \in Nat /\ Met(w).items[i].name \in Nat
  BY Rules DEF Of, Items
<1>2. \A d \in Nat : Line(w, d) \in Seq(Tokens)
  <2>1. \A d \in Nat : [text |-> "newline", of |-> d] \in Tokens
    BY DEF Tokens
  <2>2. QED
    BY <2>1, TokenTypes DEF Line
<1>3. ASSUME NEW first PROVE Lead(w, i, first) \in Seq(Tokens)
  <2>1. /\ Separator(first) \in Seq(Tokens) /\ Line(w, w.depth + 1) \in Seq(Tokens)
        /\ Label(Met(w).kind, Met(w).items[i].name) \in Seq(Tokens)
    BY <1>1, <1>2, TokenTypes
  <2>2. QED
    BY <2>1, ConcatProperties DEF Lead
<1>4. QED
  BY <1>3, TokenTypes DEF Quote

(* So are the tokens that end a container.                                  *)
LEMMA EndingTypes ==
  ASSUME NEW h, NEW o, NEW w, NEW B, Of(h, o, w, B), NEW empty
  PROVE  Ending(w, empty) \in Seq(Tokens) /\ <<Opening(Met(w).kind)>> \in Seq(Tokens)
<1>1. [text |-> "newline", of |-> w.depth] \in Tokens
  BY DEF Tokens, Of
<1>2. Line(w, w.depth) \in Seq(Tokens)
  BY <1>1, TokenTypes DEF Line
<1>3. <<Closing(Met(w).kind)>> \in Seq(Tokens) /\ <<Opening(Met(w).kind)>> \in Seq(Tokens)
  BY TokenTypes
<1>4. (IF empty THEN <<>> ELSE Line(w, w.depth)) \in Seq(Tokens)
  BY <1>2, TokenTypes
<1>5. QED
  BY <1>3, <1>4, ConcatProperties DEF Ending

-----------------------------------------------------------------------------
(* The item that f has waited for is written, and f is between two items.   *)
LEMMA ItemWritten ==
  ASSUME NEW h \in Heaps, NEW o \in Settings, NEW w, NEW B, Of(h, o, w, B),
         NEW f, NEW v, NEW C, Waiting(w, f, v, B, C), NEW t \in Texts(v), t \in Seq(Tokens),
         NEW g, g.node = f.node, g.left = f.left, g.first = f.first, ~ g.quoting
  PROVE  /\ ~ f.quoting => Between(w, g, B, Added(C, t))
         /\ f.quoting => LET D == Added(C, t)
                             outer == Pop(D)
                         IN /\ outer \in Lists(Tokens) /\ D[Len(D)] = t
                            /\ Between(w, g, B, Added(outer, Escaped(t)))
<1>1. PICK order \in Arrangements(w) : \E k \in 1..Len(order) : \E body \in Bodies(w, order, k - 1) :
        /\ Encloses(w, f) /\ Rest(order, k, f.left) /\ ~ f.first /\ f.quoting = Quoted(w, order[k])
        /\ Alike(v, Inner(w, order[k]))
        /\ body \in Seq(Tokens)
        /\ LET D == Added(B, Leading(w, order[k], k, body))
           IN C = IF f.quoting THEN Append(D, <<>>) ELSE D
  BY DEF Waiting
<1>2. PICK k \in 1..Len(order) : \E body \in Bodies(w, order, k - 1) :
        /\ Encloses(w, f) /\ Rest(order, k, f.left) /\ ~ f.first /\ f.quoting = Quoted(w, order[k])
        /\ Alike(v, Inner(w, order[k]))
        /\ body \in Seq(Tokens)
        /\ LET D == Added(B, Leading(w, order[k], k, body))
           IN C = IF f.quoting THEN Append(D, <<>>) ELSE D
  BY <1>1
<1> DEFINE i == order[k]
<1>3. PICK body \in Bodies(w, order, k - 1) :
        /\ Encloses(w, f) /\ Rest(order, k, f.left) /\ ~ f.first /\ f.quoting = Quoted(w, i)
        /\ Alike(v, Inner(w, i))
        /\ body \in Seq(Tokens)
        /\ LET D == Added(B, Leading(w, i, k, body))
           IN C = IF f.quoting THEN Append(D, <<>>) ELSE D
  BY <1>2
<1> DEFINE D == Added(B, Leading(w, i, k, body))
           x == Quote(w, i, t)
           lead == Lead(w, i, k = 1)
           open == <<Opening(Met(w).kind)>>
           longer == body \o lead \o x
<1>4. /\ i \in 1..Len(Met(w).items) /\ k \in Nat /\ k # 0 /\ k \in 0..Len(order)
      /\ lead \in Seq(Tokens) /\ x \in Seq(Tokens) /\ open \in Seq(Tokens)
      /\ B \in Lists(Tokens)
  <2>1. Len(order) \in Nat /\ i \in 1..Len(Met(w).items)
    BY ArrangementTypes
  <2>2. QED
    BY <2>1, LeadTypes, EndingTypes DEF Of
<1>5. longer \in Bodies(w, order, k) /\ longer \in Seq(Tokens)
  <2>1. IsBody(w, order)
    BY <1>3, Rules DEF Encloses
  <2>2. t \in Texts(Inner(w, i))
    BY <1>3 DEF Alike
  <2>3. Bodies(w, order, k) = Longer(w, i, Bodies(w, order, k - 1), k = 1)
    BY <1>2, <2>1 DEF IsBody
  <2>4. longer \in Bodies(w, order, k)
    BY <1>3, <2>2, <2>3 DEF Longer
  <2>5. body \o lead \in Seq(Tokens)
    BY <1>3, <1>4, ConcatProperties
  <2>6. longer \in Seq(Tokens)
    BY <1>4, <2>5, ConcatProperties
  <2>7. QED
    BY <2>4, <2>6
<1>6. /\ D \in Lists(Tokens)
      /\ Added(D, x) = Added(B, open \o longer)
  <2>1. body \o lead \in Seq(Tokens)
    BY <1>3, <1>4, ConcatProperties
  <2>2. open \o (body \o lead) \in Seq(Tokens)
    BY <1>4, <2>1, ConcatProperties
  <2>3. (open \o (body \o lead)) \o x = open \o ((body \o lead) \o x)
    <3> DEFINE y == body \o lead
    <3>1. y \in Seq(Tokens) /\ open \in Seq(Tokens) /\ x \in Seq(Tokens)
      BY <1>4, <2>1
    <3> HIDE DEF y, x, open
    <3>2. (open \o y) \o x = open \o (y \o x)
      BY <3>1, ConcatAssociative
    <3>3. QED
      BY <3>2 DEF y
  <2> DEFINE z == open \o (body \o lead)
  <2>4. D = Added(B, z) /\ z \in Seq(Tokens)
    BY <2>2 DEF Leading
  <2> HIDE DEF z, x, D
  <2>5. Added(B, z) \in Lists(Tokens) /\ Added(Added(B, z), x) = Added(B, z \o x)
    BY <1>4, <2>4, AddedTo, AddedTwice
  <2>6. QED
    BY <2>3, <2>4, <2>5 DEF z
<1>7. Between(w, g, B, Added(D, x))
  <2>1. Encloses(w, g) /\ Rest(order, k, g.left) /\ (g.first <=> k = 0)
    BY <1>3, <1>4 DEF Encloses
  <2> HIDE DEF longer, x, D, open
  <2>2. QED
    BY <1>4, <1>5, <1>6, <2>1 DEF Between, open
<1>8. CASE ~ f.quoting
  <2>1. C = D /\ x = t
    BY <1>3, <1>8 DEF Quote
  <2>2. QED
    BY <1>7, <1>8, <2>1
<1>9. CASE f.quoting
  <2>1. C = Append(D, <<>>) /\ x = Escaped(t)
    BY <1>3, <1>9 DEF Quote
  <2> HIDE DEF D, x
  <2>2. Added(C, t) = Append(D, t) /\ Pop(Append(D, t)) = D
    BY <1>6, <2>1, OwnBuffer
  <2>3. Append(D, t)[Len(Append(D, t))] = t
    BY <1>6, OwnBuffer
  <2>4. QED
    BY <1>6, <1>7, <1>9, <2>1, <2>2, <2>3
<1>10. QED
  BY <1>8, <1>9

-----------------------------------------------------------------------------
(* Where the encoder is: with what has been written for the calls in        *)
(* progress, value() is called for an occurrence, has written one, or the   *)
(* innermost call is between two of its items.                              *)
Encoded(h, o, B) == Len(B) = 1 /\ B[1] \in Texts(Outermost(h, o))

Returned(w, f, B, C) ==
  IF f.quoting
    THEN \E v, D : Waiting(w, f, v, B, D) /\ \E t \in Texts(v) : t \in Seq(Tokens) /\ C = Added(D, t)
    ELSE Between(w, f, B, C)

Underway(h, o, s, C) ==
  IF s = <<>> THEN Encoded(h, o, C)
  ELSE \E w, B : Stands(h, o, s, Len(s) - 1, w, B) /\ Returned(w, s[Len(s)], B, C)

Progress ==
  /\ pc = "value" => \E w : Stands(heap, opts, stack, Len(stack), w, buffers) /\ w.node = at
  /\ pc = "next" => Underway(heap, opts, stack, buffers)
  /\ pc = "done" /\ err = "" => Encoded(heap, opts, buffers)

Progresses ==
  opts \in Settings /\ (Outermost(heap, opts) \in Occurrences(heap, opts) => Progress)

(* value() returns. *)
LEMMA ValueReturns ==
  ASSUME NEW h \in Heaps, NEW o \in Settings, NEW s \in Seq(Frames), NEW w, NEW B,
         Stands(h, o, s, Len(s), w, B), NEW t \in Texts(w), t \in Seq(Tokens)
  PROVE  Underway(h, o, s, Added(B, t))
<1>1. Len(s) \in Nat
  BY LenProperties
<1>2. CASE s = <<>>
  <2>1. Len(s) = 0
    BY <1>2
  <2>2. Of(h, o, w, B) /\ Alike(w, Outermost(h, o)) /\ B = << <<>> >>
    <3>1. Stands(h, o, s, 0, w, B)
      BY <2>1
    <3>2. QED
      BY <3>1, StandsFirst
  <2>3. B \in Lists(Tokens) /\ Len(B) = 1 /\ B[Len(B)] = <<>> /\ 1 \in 1..Len(B)
    BY <2>2 DEF Of
  <2>4. Len(Added(B, t)) = 1 /\ Added(B, t)[1] = <<>> \o t
    <3>1. /\ Len(Added(B, t)) = Len(B)
          /\ \A i \in 1..Len(B) : Added(B, t)[i] = IF i = Len(B) THEN B[Len(B)] \o t ELSE B[i]
      BY <2>3, AddedTo
    <3>2. QED
      BY <2>3, <3>1
  <2>5. <<>> \o t = t
    BY ConcatEmptySeq
  <2>6. QED
    BY <1>2, <2>2, <2>4, <2>5 DEF Underway, Encoded, Alike
<1>3. CASE s # <<>>
  <2> DEFINE n == Len(s)
             f == s[n]
  <2>1. n \in Nat \ {0}
    BY <1>3, EmptySeq
  <2>2. PICK v, C : Stands(h, o, s, n - 1, v, C) /\ Waiting(v, f, w, C, B)
    BY <2>1, StandsHigher
  <2>3. Of(h, o, v, C)
    <3>1. n - 1 \in Nat
      BY <2>1
    <3>2. QED
      BY <2>2, <3>1, StandsFor
  <2>4. CASE f.quoting
    <3>1. Returned(v, f, C, Added(B, t))
      BY <2>2, <2>4 DEF Returned
    <3>2. QED
      BY <1>3, <2>2, <3>1 DEF Underway
  <2>5. CASE ~ f.quoting
    <3>1. Between(v, f, C, Added(B, t))
      BY <2>2, <2>3, <2>5, ItemWritten
    <3>2. QED
      BY <1>3, <2>2, <2>5, <3>1 DEF Underway, Returned
  <2>6. QED
    BY <2>4, <2>5
<1>4. QED
  BY <1>2, <1>3

(* What the encoder knows when value() is called. *)
LEMMA CalledFor ==
  ASSUME IInv, opts \in Settings, Calls, NEW w,
         Stands(heap, opts, stack, Len(stack), w, buffers), w.node = at
  PROVE  /\ Of(heap, opts, w, buffers) /\ w.depth = Len(stack) /\ w.heap = heap /\ w.opts = opts
         /\ Met(w) = Cell /\ Met(w) \in Cells /\ IsText(w)
         /\ Allowed(w) /\ (w.inTree => InTree)
<1>1. Len(stack) \in Nat /\ heap \in Heaps
  BY TypeFacts DEF IInv
<1>2. Of(heap, opts, w, buffers) /\ w.depth = Len(stack)
  BY <1>1, StandsFor
<1>3. /\ w.heap = heap /\ w.opts = opts
      /\ Met(w) = heap[w.node] /\ Met(w) \in Cells /\ IsText(w)
  BY <1>1, <1>2, Rules
<1>4. w.inTree <=> InTree
  <2>1. CASE stack = <<>>
    <3>1. Len(stack) = 0
      BY <2>1
    <3>2. Alike(w, Outermost(heap, opts))
      BY <3>1, StandsFirst
    <3>3. QED
      BY <2>1, <3>2 DEF Alike, Outermost, Occurrence, InTree
  <2>2. CASE stack # <<>>
    <3>1. Len(stack) \in Nat \ {0}
      BY <2>2, EmptySeq DEF IInv, TypeOK
    <3>2. PICK v, C : Stands(heap, opts, stack, Len(stack) - 1, v, C) /\ Waiting(v, Top, w, C, buffers)
      BY <3>1, StandsHigher DEF Top
    <3>3. Of(heap, opts, v, C)
      <4>1. Len(stack) - 1 \in Nat
        BY <3>1
      <4>2. QED
        BY <3>2, <4>1, StandsFor
    <3>4. Met(v) = heap[v.node]
      BY <1>1, <3>3, Rules
    <3>5. v.node = Top.node /\ (w.inTree <=> Met(v).kind \in Trees)
      BY <3>2 DEF Waiting, Encloses, Alike, Inner, Occurrence
    <3>6. QED
      BY <2>2, <3>4, <3>5 DEF InTree, Whole
  <2>3. QED
    BY <2>1, <2>2
<1>5. Allowed(w)
  BY <1>2, <1>4 DEF Calls, Allowed, Depth
<1>6. QED
  BY <1>2, <1>3, <1>4, <1>5 DEF Cell

(* A leaf is written as its own text.                                       *)
LEMMA LeafWrites ==
  ASSUME IInv, opts \in Settings, Progress, WriteLeaf
  PROVE  Progress'
<1>1. PICK w : Stands(heap, opts, stack, Len(stack), w, buffers) /\ w.node = at
  BY DEF WriteLeaf, Calls, Progress
<1>2. IsText(w) /\ Allowed(w) /\ Met(w) = Cell /\ Cell.kind \in Leaves
  BY <1>1, CalledFor DEF WriteLeaf
<1> DEFINE t == Leaf(Cell.kind, at)
<1>3. t \in Texts(w)
  BY <1>1, <1>2 DEF IsText
<1>4. t \in Seq(Tokens)
  BY <1>2, TokenTypes DEF IInv, TypeOK
<1>5. buffers' = Added(buffers, t) /\ UNCHANGED <<heap, opts, stack>> /\ pc' = "next"
  BY DEF WriteLeaf, Write, Added
<1>6. Underway(heap, opts, stack, Added(buffers, t))
  BY <1>1, <1>3, <1>4, ValueReturns DEF IInv, TypeOK
<1>7. QED
  BY <1>5, <1>6 DEF Progress

(* A pointer or an interface is passed by what it refers to.                *)
LEMMA FollowWrites ==
  ASSUME IInv, opts \in Settings, Progress, Follow
  PROVE  Progress'
<1>1. PICK w : Stands(heap, opts, stack, Len(stack), w, buffers) /\ w.node = at
  BY DEF Follow, Calls, Progress
<1>2. /\ Of(heap, opts, w, buffers) /\ IsText(w) /\ Allowed(w) /\ (w.inTree => InTree)
      /\ Met(w) = Cell /\ Cell.kind \in References
  BY <1>1, CalledFor DEF Follow
<1>3. heap \in Heaps /\ Len(stack) \in Nat
  BY TypeFacts DEF IInv
<1> DEFINE v == Inner(w, 1)
<1>4. v \in Occurrences(heap, opts) /\ v.node = Cell.items[1].node /\ v.depth = w.depth
  <2>1. 1 \in Parts(w)
    BY <1>2 DEF Parts
  <2>2. QED
    BY <1>2, <1>3, <2>1, Rules DEF Inner, Occurrence
<1>5. Of(heap, opts, v, buffers)
  <2>1. v = Occurrence(heap, opts, v.node, v.depth, v.inTree)
    BY <1>2, <1>3, Rules DEF Inner, Occurrence
  <2>2. v.node \in Nodes
    <3>1. 1 \in 1..Len(Met(w).items)
      <4>1. Len(Cell.items) = 1
        BY <1>2, <1>3, EncoderAssumption DEF Cell, IInv, TypeOK
      <4>2. QED
        BY <1>2, <4>1
    <3>2. Met(w).items[1] \in Items
      BY <1>2, <1>3, <3>1, Rules
    <3>3. QED
      BY <1>2, <1>4, <3>2 DEF Items
  <2>3. QED
    BY <1>2, <1>4, <2>1, <2>2 DEF Of, Inner, Occurrence
<1>6. Alike(v, w)
  <2>1. ~ w.inTree /\ ~ v.inTree /\ v.inTree \in BOOLEAN /\ w.inTree \in BOOLEAN
    <3>1. Cell.kind \notin Trees \cup TreeLeaves
      BY <1>2 DEF References, Trees, TreeLeaves
    <3>2. ~ w.inTree
      BY <1>2, <3>1 DEF IInv, TreesWithin, Follow, Calls
    <3>3. QED
      BY <1>2, <3>1, <3>2 DEF Inner, Occurrence, Of
  <2>2. Texts(v) = Texts(w)
    BY <1>2 DEF IsText, References, Leaves
  <2>3. QED
    BY <1>4, <2>1, <2>2 DEF Alike
<1>7. Stands(heap, opts, stack, Len(stack), v, buffers)
  BY <1>1, <1>3, <1>5, <1>6, StandsAlike
<1>8. at' = v.node /\ pc' = "value" /\ UNCHANGED <<heap, opts, stack, buffers>>
  BY <1>4 DEF Follow, Calls
<1>9. QED
  BY <1>7, <1>8 DEF Progress

(* A container begins with its opening token and all of its items left.     *)
LEMMA OpenWrites ==
  ASSUME IInv, opts \in Settings, Progress, Open
  PROVE  Progress'
<1>1. PICK w : Stands(heap, opts, stack, Len(stack), w, buffers) /\ w.node = at
  BY DEF Open, Calls, Progress
<1>2. /\ Of(heap, opts, w, buffers) /\ Allowed(w)
      /\ w.heap = heap /\ w.opts = opts /\ Met(w) = Cell /\ Met(w) \in Cells /\ Cell.kind \in Containers
  BY <1>1, CalledFor DEF Open
<1>3. heap \in Heaps /\ opts \in Settings /\ stack \in Seq(Frames) /\ Len(stack) \in Nat
  BY TypeFacts DEF IInv, TypeOK
<1>4. PICK order \in Orders(Cell) :
        stack' = Append(stack, [node |-> at, left |-> order, first |-> TRUE, quoting |-> FALSE])
  BY DEF Open
<1> DEFINE f == [node |-> at, left |-> order, first |-> TRUE, quoting |-> FALSE]
           n == Len(stack)
           open == <<Opening(Cell.kind)>>
<1>5. order \in Arrangements(w) /\ Len(order) \in Nat /\ f \in Frames
  <2>1. order \in Arrangements(w)
    BY <1>2, <1>4, OrdersArrange
  <2>2. order \in Seq(Nat)
    BY <1>2, <1>4, OrderTypes
  <2>3. QED
    BY <2>1, <2>2, LenProperties DEF Frames, IInv, TypeOK
<1>6. /\ stack' \in Seq(Frames) /\ Len(stack') = n + 1 /\ stack'[n + 1] = f
      /\ \A i \in 1..n : stack'[i] = stack[i]
  <2> HIDE DEF f
  <2>1. QED
    BY <1>3, <1>4, <1>5, AppendProperties DEF f
<1>7. Stands(heap, opts, stack', n, w, buffers)
  BY <1>1, <1>3, <1>6, StandsStill
<1>8. Between(w, f, buffers, Added(buffers, open))
  <2>1. <<>> \in Bodies(w, order, 0)
    BY <1>2, <1>3, <1>5, Rules DEF IsBody
  <2>2. open \o <<>> = open /\ <<>> \in Seq(Tokens)
    BY <1>2, EndingTypes, ConcatEmptySeq, EmptySeq
  <2>3. Rest(order, 0, f.left)
    BY <1>5 DEF Rest
  <2>4. Encloses(w, f) /\ f.first /\ ~ f.quoting
    BY <1>1, <1>2 DEF Encloses
  <2>5. 0 \in 0..Len(order)
    BY <1>5
  <2> HIDE DEF f, open
  <2>6. Added(buffers, open) = Added(buffers, <<Opening(Met(w).kind)>> \o <<>>)
    BY <1>2, <2>2 DEF open
  <2>7. QED
    BY <1>5, <2>1, <2>2, <2>3, <2>4, <2>5, <2>6 DEF Between
<1>9. buffers' = Added(buffers, open) /\ UNCHANGED <<heap, opts>> /\ pc' = "next"
  BY DEF Open, Write, Added
<1> HIDE DEF f, open
<1>10. Underway(heap, opts, stack', Added(buffers, open))
  <2>1. ~ f.quoting
    BY DEF f
  <2>2. stack' # <<>> /\ Len(stack') - 1 = n
    BY <1>3, <1>6, EmptySeq
  <2>3. Returned(w, f, buffers, Added(buffers, open))
    BY <1>8, <2>1 DEF Returned
  <2>4. stack'[Len(stack')] = f
    BY <1>6
  <2> HIDE DEF n
  <2>5. QED
    BY <1>7, <2>2, <2>3, <2>4 DEF Underway
<1>11. QED
  BY <1>9, <1>10 DEF Progress

(* What the encoder knows in the loop of a container. *)
LEMMA InLoop ==
  ASSUME IInv, opts \in Settings, Progress, pc = "next", stack # <<>>
  PROVE  /\ Len(stack) \in Nat \ {0} /\ heap \in Heaps /\ stack \in Seq(Frames) /\ Top \in Frames
         /\ \E w, B : /\ Stands(heap, opts, stack, Len(stack) - 1, w, B) /\ Returned(w, Top, B, buffers)
                      /\ Of(heap, opts, w, B) /\ w.depth = Len(stack) - 1
                      /\ w.heap = heap /\ w.opts = opts /\ Met(w) = heap[w.node]
<1>1. Len(stack) \in Nat \ {0} /\ heap \in Heaps /\ stack \in Seq(Frames) /\ Top \in Frames
  BY TypeFacts, EmptySeq DEF IInv, TypeOK
<1>2. PICK w, B : Stands(heap, opts, stack, Len(stack) - 1, w, B) /\ Returned(w, Top, B, buffers)
  BY DEF Progress, Underway, Top
<1>3. Len(stack) - 1 \in Nat
  BY <1>1
<1>4. Of(heap, opts, w, B) /\ w.depth = Len(stack) - 1
  BY <1>2, <1>3, StandsFor
<1>5. w.heap = heap /\ w.opts = opts /\ Met(w) = heap[w.node]
  BY <1>1, <1>4, Rules
<1>6. QED
  BY <1>1, <1>2, <1>4, <1>5

(* A quoted field is written from its buffer, escaped.                      *)
LEMMA UnquoteWrites ==
  ASSUME IInv, opts \in Settings, Progress, Unquote
  PROVE  Progress'
<1> DEFINE g == [Top EXCEPT !.quoting = FALSE]
           outer == Pop(buffers)
           n == Len(stack)
<1>1. pc = "next" /\ stack # <<>> /\ Top.quoting
  BY DEF Unquote
<1>2. n \in Nat \ {0} /\ heap \in Heaps /\ stack \in Seq(Frames) /\ Top \in Frames
  BY <1>1, InLoop
<1>3. PICK w, B : /\ Stands(heap, opts, stack, n - 1, w, B) /\ Returned(w, Top, B, buffers)
                  /\ Of(heap, opts, w, B)
  BY <1>1, InLoop
<1>4. PICK v, D : Waiting(w, Top, v, B, D) /\ \E t \in Texts(v) : t \in Seq(Tokens) /\ buffers = Added(D, t)
  BY <1>1, <1>3 DEF Returned
<1>5. PICK t \in Texts(v) : t \in Seq(Tokens) /\ buffers = Added(D, t)
  BY <1>4
<1>6. g \in Frames /\ g.node = Top.node /\ g.left = Top.left /\ g.first = Top.first /\ ~ g.quoting
  BY <1>2 DEF Frames
<1>7. /\ outer \in Lists(Tokens) /\ buffers[Len(buffers)] = t
      /\ Between(w, g, B, Added(outer, Escaped(t)))
  <2> HIDE DEF g
  <2>1. QED
    BY <1>1, <1>2, <1>3, <1>4, <1>5, <1>6, ItemWritten
<1>8. /\ stack' = SetLast(stack, g)
      /\ buffers' = Added(outer, Escaped(t)) /\ pc' = "next" /\ UNCHANGED <<heap, opts>>
  BY <1>1, <1>7 DEF Unquote, Added
<1> HIDE DEF g, outer
<1>9. /\ stack' \in Seq(Frames) /\ Len(stack') = n
      /\ \A i \in 1..n : stack'[i] = IF i = n THEN g ELSE stack[i]
  BY <1>1, <1>6, <1>8, OnSetTop DEF IInv
<1>10. stack' # <<>> /\ stack'[n] = g /\ \A i \in 1..(n - 1) : stack'[i] = stack[i]
  <2>1. n \in 1..n /\ \A i \in 1..(n - 1) : i \in 1..n /\ i # n
    BY <1>2
  <2>2. QED
    BY <1>2, <1>9, <2>1, EmptySeq
<1>11. Stands(heap, opts, stack', n - 1, w, B)
  <2>1. n - 1 \in Nat
    BY <1>2
  <2> HIDE DEF n
  <2>2. QED
    BY <1>3, <1>10, <2>1, StandsStill
<1>12. Returned(w, g, B, buffers')
  BY <1>6, <1>7, <1>8 DEF Returned
<1>13. Underway(heap, opts, stack', buffers')
  BY <1>9, <1>10, <1>11, <1>12 DEF Underway
<1>14. QED
  BY <1>8, <1>13 DEF Progress

(* Marshal returns when no call is left.                                    *)
LEMMA ReturnWrites ==
  ASSUME Progress, Return
  PROVE  Progress'
<1>1. Encoded(heap, opts, buffers)
  BY DEF Progress, Return, Underway
<1>2. QED
  BY <1>1 DEF Progress, Return, Encoded

(* A step that fails ends without a text.                                   *)
LEMMA FailWrites ==
  ASSUME NEW e \in Errors, Fail(e)
  PROVE  Progress'
<1>1. e # ""
  BY DEF Errors
<1>2. QED
  BY <1>1 DEF Fail, Progress

(* The next item is led in, and its value() called, in a buffer of its own  *)
(* if it is quoted.                                                         *)
LEMMA ItemWrites ==
  ASSUME IInv, opts \in Settings, Progress, Item
  PROVE  Progress'
<1> DEFINE n == Len(stack)
           i == Head(Top.left)
           item == Whole.items[i]
           quoted == Whole.kind = "struct" /\ item.quoted
           text == buffers[Len(buffers)] \o Separator(Top.first) \o Newline(Depth)
                     \o Label(Whole.kind, item.name)
           g == [Top EXCEPT !.left = Tail(@), !.first = FALSE, !.quoting = quoted]
<1>1. pc = "next" /\ stack # <<>> /\ ~ Top.quoting /\ Top.left # <<>>
  BY DEF Item
<1>2. n \in Nat \ {0} /\ heap \in Heaps /\ stack \in Seq(Frames) /\ Top \in Frames
  BY <1>1, InLoop
<1>3. PICK w, B : /\ Stands(heap, opts, stack, n - 1, w, B) /\ Returned(w, Top, B, buffers)
                  /\ Of(heap, opts, w, B) /\ w.depth = n - 1
                  /\ w.heap = heap /\ w.opts = opts /\ Met(w) = heap[w.node]
  BY <1>1, InLoop
<1>4. Between(w, Top, B, buffers)
  BY <1>1, <1>3 DEF Returned
<1>5. PICK order \in Arrangements(w) : \E k \in 0..Len(order) : \E body \in Bodies(w, order, k) :
        /\ Encloses(w, Top) /\ Rest(order, k, Top.left) /\ (Top.first <=> k = 0)
        /\ body \in Seq(Tokens)
        /\ buffers = Added(B, <<Opening(Met(w).kind)>> \o body)
  BY <1>4 DEF Between
<1>6. PICK k \in 0..Len(order) : \E body \in Bodies(w, order, k) :
        /\ Encloses(w, Top) /\ Rest(order, k, Top.left) /\ (Top.first <=> k = 0)
        /\ body \in Seq(Tokens)
        /\ buffers = Added(B, <<Opening(Met(w).kind)>> \o body)
  BY <1>5
<1>7. PICK body \in Bodies(w, order, k) :
        /\ Encloses(w, Top) /\ Rest(order, k, Top.left) /\ (Top.first <=> k = 0)
        /\ body \in Seq(Tokens)
        /\ buffers = Added(B, <<Opening(Met(w).kind)>> \o body)
  BY <1>6
<1> DEFINE open == <<Opening(Met(w).kind)>>
           lead == Lead(w, i, Top.first)
           v == Inner(w, i)
           D == Added(buffers, lead)
<1>8. Whole = Met(w)
  BY <1>3, <1>7 DEF Whole, Encloses
<1>9. /\ k + 1 \in 1..Len(order) /\ k \in Nat /\ i = order[k + 1]
      /\ Rest(order, k + 1, Tail(Top.left))
  <2>1. Top.left \in Seq(Nat) /\ Len(order) \in Nat
    BY <1>2, <1>3, ArrangementTypes DEF Frames
  <2>2. Len(Top.left) \in Nat \ {0} /\ i = Top.left[1]
    BY <1>1, <2>1, EmptySeq
  <2>3. /\ Len(Tail(Top.left)) = Len(Top.left) - 1
        /\ \A j \in 1..Len(Tail(Top.left)) : Tail(Top.left)[j] = Top.left[j + 1]
    BY <1>1, <2>1, HeadTailProperties
  <2>4. Len(Top.left) = Len(order) - k /\ \A j \in 1..Len(Top.left) : Top.left[j] = order[k + j]
    BY <1>7 DEF Rest
  <2>5. k \in Nat
    BY <1>6
  <2>6. k + 1 \in 1..Len(order) /\ i = order[k + 1]
    <3>1. 1 \in 1..Len(Top.left)
      BY <2>2
    <3>2. QED
      BY <2>1, <2>2, <2>4, <2>5, <3>1
  <2>7. Len(Tail(Top.left)) = Len(order) - (k + 1)
    BY <2>1, <2>3, <2>4, <2>5
  <2>8. ASSUME NEW j \in 1..Len(Tail(Top.left)) PROVE Tail(Top.left)[j] = order[k + 1 + j]
    <3>1. j + 1 \in 1..Len(Top.left) /\ k + (j + 1) = k + 1 + j
      BY <2>2, <2>3, <2>5
    <3>2. QED
      BY <2>3, <2>4, <3>1
  <2>9. QED
    BY <2>5, <2>6, <2>7, <2>8 DEF Rest
<1>10. i \in Written(w) /\ i \in 1..Len(Met(w).items)
  BY <1>2, <1>3, <1>9, ArrangementTypes
<1>11. /\ v \in Occurrences(heap, opts) /\ v.node = item.node /\ v.depth = n
       /\ v = Occurrence(heap, opts, v.node, v.depth, v.inTree) /\ v.inTree \in BOOLEAN
       /\ item \in Items
  <2>1. Met(w).kind \in Containers /\ Met(w).kind \notin References /\ Allowed(w)
    BY <1>7 DEF Encloses, Containers, References, Trees
  <2>2. i \in Parts(w)
    BY <1>10, <2>1 DEF Parts
  <2>3. item \in Items /\ v \in Occurrences(heap, opts)
    BY <1>2, <1>3, <1>8, <1>10, <2>2, Rules
  <2>4. w.depth + 1 = n
    BY <1>2, <1>3
  <2>5. QED
    BY <1>3, <1>8, <2>1, <2>3, <2>4 DEF Inner, Occurrence
<1>12. /\ lead \in Seq(Tokens) /\ open \in Seq(Tokens) /\ B \in Lists(Tokens)
       /\ buffers \in Lists(Tokens) /\ open \o body \in Seq(Tokens)
  <2>1. lead \in Seq(Tokens) /\ open \in Seq(Tokens) /\ B \in Lists(Tokens)
    BY <1>2, <1>3, <1>10, LeadTypes, EndingTypes DEF Of
  <2>2. open \o body \in Seq(Tokens)
    BY <1>7, <2>1, ConcatProperties
  <2>3. QED
    BY <1>7, <2>1, <2>2, AddedTo
<1>13. D \in Lists(Tokens) /\ D = Added(B, Leading(w, i, k + 1, body))
  <2>1. D = Added(B, (open \o body) \o lead)
    <3> DEFINE z == open \o body
    <3>1. z \in Seq(Tokens) /\ buffers = Added(B, z)
      BY <1>7, <1>12
    <3> HIDE DEF z, lead
    <3>2. Added(Added(B, z), lead) = Added(B, z \o lead)
      BY <1>12, <3>1, AddedTwice
    <3>3. QED
      BY <3>1, <3>2 DEF z
  <2>2. (open \o body) \o lead = open \o (body \o lead)
    <3>1. body \in Seq(Tokens)
      BY <1>7
    <3> HIDE DEF open, lead
    <3>2. QED
      BY <1>12, <3>1, ConcatAssociative
  <2>3. lead = Lead(w, i, k + 1 = 1)
    <3>1. Top.first = (k + 1 = 1)
      BY <1>2, <1>7, <1>9 DEF Frames
    <3>2. QED
      BY <3>1
  <2>4. D \in Lists(Tokens)
    BY <1>12, AddedTo
  <2>5. QED
    BY <2>1, <2>2, <2>3, <2>4 DEF Leading
<1>14. SetLast(buffers, text) = D
  <2> DEFINE l == buffers[Len(buffers)]
             x == Separator(Top.first)
             y == Newline(Depth)
             z == Label(Whole.kind, item.name)
  <2>1. /\ l \in Seq(Tokens) /\ x \in Seq(Tokens) /\ y \in Seq(Tokens) /\ z \in Seq(Tokens)
    BY <1>2, <1>11, <1>12, LastOf, TokenTypes DEF Depth, Items
  <2>2. lead = x \o y \o z
    <3>1. w.depth + 1 = Depth
      BY <1>2, <1>3 DEF Depth
    <3>2. QED
      BY <1>3, <1>8, <3>1 DEF Lead, Line, Newline
  <2>3. text = ((l \o x) \o y) \o z
    OBVIOUS
  <2> HIDE DEF l, x, y, z, text, lead
  <2>4. ((l \o x) \o y) \o z = l \o ((x \o y) \o z)
    <3>1. (l \o x) \o y = l \o (x \o y)
      BY <2>1, ConcatAssociative
    <3> DEFINE q == x \o y
    <3>2. q \in Seq(Tokens)
      BY <2>1, ConcatProperties
    <3> HIDE DEF q
    <3>3. (l \o q) \o z = l \o (q \o z)
      BY <2>1, <3>2, ConcatAssociative
    <3>4. QED
      BY <3>1, <3>3 DEF q
  <2>5. QED
    BY <2>2, <2>3, <2>4 DEF Added, l
<1>15. /\ stack' = SetLast(stack, g) /\ at' = item.node /\ pc' = "value" /\ UNCHANGED <<heap, opts>>
       /\ buffers' = IF quoted THEN D \o << <<>> >> ELSE D \o <<>>
  BY <1>14 DEF Item
<1>16. quoted = Quoted(w, i) /\ quoted \in BOOLEAN
  BY <1>8, <1>11 DEF Quoted, Items
<1>17. /\ g \in Frames /\ g.node = Top.node /\ g.left = Tail(Top.left) /\ ~ g.first /\ g.quoting = quoted
  <2>1. Tail(Top.left) \in Seq(Nat)
    BY <1>1, <1>2, HeadTailProperties DEF Frames
  <2> HIDE DEF quoted
  <2>2. QED
    BY <1>2, <1>16, <2>1 DEF Frames
<1>18. buffers' = (IF quoted THEN Append(D, <<>>) ELSE D) /\ buffers' \in Lists(Tokens)
  <2> HIDE DEF D, quoted
  <2>1. D \o << <<>> >> = Append(D, <<>>) /\ Append(D, <<>>) \in Lists(Tokens)
    BY <1>13, OwnBuffer, EmptySeq
  <2>2. D \o <<>> = D
    <3> DEFINE T == Seq(Tokens)
    <3>1. D \in Seq(T)
      BY <1>13 DEF Lists
    <3> HIDE DEF T
    <3>2. QED
      BY <3>1, ConcatEmptySeq
  <2>3. QED
    BY <1>13, <1>15, <2>1, <2>2
<1>19. Waiting(w, g, v, B, buffers')
  <2>1. Encloses(w, g) /\ Rest(order, k + 1, g.left) /\ g.quoting = Quoted(w, order[k + 1])
    BY <1>7, <1>9, <1>16, <1>17 DEF Encloses
  <2>2. Alike(v, Inner(w, order[k + 1]))
    BY <1>9 DEF Alike
  <2>3. k + 1 - 1 = k /\ body \in Bodies(w, order, k) /\ body \in Seq(Tokens)
    BY <1>7, <1>9
  <2>4. LET E == Added(B, Leading(w, order[k + 1], k + 1, body))
        IN buffers' = IF g.quoting THEN Append(E, <<>>) ELSE E
    BY <1>9, <1>13, <1>17, <1>18
  <2> HIDE DEF g, v
  <2>5. QED
    BY <1>9, <1>17, <2>1, <2>2, <2>3, <2>4 DEF Waiting
<1> HIDE DEF g, v, item, D, lead, open, text, quoted, i
<1>20. /\ stack' \in Seq(Frames) /\ Len(stack') = n
       /\ \A m \in 1..n : stack'[m] = IF m = n THEN g ELSE stack[m]
  BY <1>1, <1>15, <1>17, OnSetTop DEF IInv
<1>21. stack'[n] = g /\ \A m \in 1..(n - 1) : stack'[m] = stack[m]
  <2>1. n \in 1..n /\ \A m \in 1..(n - 1) : m \in 1..n /\ m # n
    BY <1>2
  <2>2. QED
    BY <1>20, <2>1
<1>22. Of(heap, opts, v, buffers')
  <2>1. v.node \in Nodes /\ v.depth \in Nat
    BY <1>2, <1>11 DEF Items
  <2>2. QED
    BY <1>11, <1>18, <2>1 DEF Of
<1>23. Stands(heap, opts, stack', n, v, buffers')
  <2>1. n - 1 \in Nat /\ n - 1 + 1 = n
    BY <1>2
  <2> HIDE DEF n
  <2>2. Stands(heap, opts, stack', n - 1, w, B)
    BY <1>3, <1>21, <2>1, StandsStill
  <2>3. QED
    BY <1>11, <1>19, <1>21, <1>22, <2>1, <2>2, StandsDeeper
<1>24. QED
  BY <1>11, <1>15, <1>20, <1>23 DEF Progress

(* A container is closed when no item is left: value() returns for it.      *)
LEMMA CloseWrites ==
  ASSUME IInv, opts \in Settings, Progress, Close
  PROVE  Progress'
<1> DEFINE n == Len(stack)
<1>1. pc = "next" /\ stack # <<>> /\ ~ Top.quoting /\ Top.left = <<>>
  BY DEF Close
<1>2. n \in Nat \ {0} /\ heap \in Heaps /\ stack \in Seq(Frames) /\ Top \in Frames
  BY <1>1, InLoop
<1>3. PICK w, B : /\ Stands(heap, opts, stack, n - 1, w, B) /\ Returned(w, Top, B, buffers)
                  /\ Of(heap, opts, w, B) /\ w.depth = n - 1
                  /\ w.heap = heap /\ w.opts = opts /\ Met(w) = heap[w.node]
  BY <1>1, InLoop
<1>4. Between(w, Top, B, buffers)
  BY <1>1, <1>3 DEF Returned
<1>5. PICK order \in Arrangements(w) : \E k \in 0..Len(order) : \E body \in Bodies(w, order, k) :
        /\ Encloses(w, Top) /\ Rest(order, k, Top.left) /\ (Top.first <=> k = 0)
        /\ body \in Seq(Tokens)
        /\ buffers = Added(B, <<Opening(Met(w).kind)>> \o body)
  BY <1>4 DEF Between
<1>6. PICK k \in 0..Len(order) : \E body \in Bodies(w, order, k) :
        /\ Encloses(w, Top) /\ Rest(order, k, Top.left) /\ (Top.first <=> k = 0)
        /\ body \in Seq(Tokens)
        /\ buffers = Added(B, <<Opening(Met(w).kind)>> \o body)
  BY <1>5
<1>7. PICK body \in Bodies(w, order, k) :
        /\ Encloses(w, Top) /\ Rest(order, k, Top.left) /\ (Top.first <=> k = 0)
        /\ body \in Seq(Tokens)
        /\ buffers = Added(B, <<Opening(Met(w).kind)>> \o body)
  BY <1>6
<1>8. k = Len(order) /\ (Top.first <=> order = <<>>)
  <2>1. Len(order) \in Nat /\ (order = <<>> <=> Len(order) = 0)
    BY <1>2, <1>3, ArrangementTypes
  <2>2. Len(order) - k = 0
    BY <1>1, <1>7 DEF Rest
  <2>3. k = Len(order)
    BY <1>6, <2>1, <2>2
  <2>4. QED
    BY <1>7, <2>1, <2>3
<1> DEFINE open == <<Opening(Met(w).kind)>>
           ending == Ending(w, order = <<>>)
           y == open \o body
           t == y \o ending
<1>9. /\ ending \in Seq(Tokens) /\ y \in Seq(Tokens) /\ t \in Seq(Tokens) /\ B \in Lists(Tokens)
  <2>1. ending \in Seq(Tokens) /\ open \in Seq(Tokens) /\ B \in Lists(Tokens)
    BY <1>3, EndingTypes DEF Of
  <2>2. y \in Seq(Tokens)
    BY <1>7, <2>1, ConcatProperties
  <2> HIDE DEF y, ending, open
  <2>3. QED
    BY <2>1, <2>2, ConcatProperties
<1>10. t \in Texts(w)
  <2>1. t \in Enclosed(w, order)
    BY <1>7, <1>8 DEF Enclosed
  <2>2. Texts(w) = UNION {Enclosed(w, p) : p \in Arrangements(w)}
    BY <1>3, <1>2, <1>7, Rules DEF IsText, Encloses, Containers, Leaves, References, Trees
  <2>3. QED
    BY <2>1, <2>2
<1>11. buffers' = Added(buffers, ending) /\ stack' = Pop(stack) /\ pc' = "next" /\ UNCHANGED <<heap, opts>>
  <2>1. w.depth = Depth - 1 /\ Whole = Met(w)
    BY <1>3, <1>7 DEF Depth, Whole, Encloses
  <2>2. (IF Top.first THEN <<>> ELSE Newline(Depth - 1)) \o <<Closing(Whole.kind)>> = ending
    BY <1>3, <1>8, <2>1 DEF Ending, Line, Newline
  <2>3. QED
    BY <2>2 DEF Close, Write, Added
<1>12. buffers' = Added(B, t)
  <2>1. buffers = Added(B, y)
    BY <1>7
  <2> HIDE DEF y, ending
  <2>2. QED
    BY <1>9, <1>11, <2>1, AddedTwice
<1> HIDE DEF t
<1>13. /\ stack' \in Seq(Frames) /\ Len(stack') = n - 1
       /\ \A i \in 1..(n - 1) : stack'[i] = stack[i]
  BY <1>1, <1>2, <1>11, OnPop
<1>14. Stands(heap, opts, stack', Len(stack'), w, B)
  <2>1. n - 1 \in Nat
    BY <1>2
  <2> HIDE DEF n
  <2>2. Stands(heap, opts, stack', n - 1, w, B)
    BY <1>3, <1>13, <2>1, StandsStill
  <2>3. QED
    BY <1>13, <2>2
<1>15. Underway(heap, opts, stack', Added(B, t))
  BY <1>2, <1>9, <1>10, <1>13, <1>14, ValueReturns
<1>16. QED
  BY <1>11, <1>12, <1>15 DEF Progress

(* Marshal begins with the root, and keeps to what it should write.         *)
LEMMA InitWrites == Init => Progresses
<1> SUFFICES ASSUME Init, Outermost(heap, opts) \in Occurrences(heap, opts) PROVE Progress
  BY DEF Init, Progresses
<1> DEFINE w == Outermost(heap, opts)
<1>1. Of(heap, opts, w, buffers) /\ w.node = at
  <2>1. << <<>> >> \in Lists(Tokens)
    <3>1. << <<>> >> \in Seq(Seq(Tokens)) /\ << <<>> >> # <<>>
      OBVIOUS
    <3>2. QED
      BY <3>1 DEF Lists
  <2>2. QED
    BY <2>1, EncoderAssumption DEF Init, Of, Outermost, Occurrence
<1>2. Alike(w, Outermost(heap, opts)) /\ buffers = << <<>> >> /\ Len(stack) = 0
  BY DEF Alike, Init
<1> HIDE DEF w
<1>3. Stands(heap, opts, stack, 0, w, buffers)
  BY <1>1, <1>2, StandsFirst
<1>4. Stands(heap, opts, stack, Len(stack), w, buffers) /\ pc = "value"
  BY <1>2, <1>3 DEF Init
<1>5. QED
  BY <1>1, <1>4 DEF Progress

(* Every step keeps to what should be written.                              *)
LEMMA NextWrites ==
  ASSUME IInv, Progresses, [Next]_vars
  PROVE  Progresses'
<1>1. UNCHANGED <<heap, opts>>
  BY DEF Next, vars, TooDeep, WriteLeaf, Refuse, Follow, Cycle, Open, Item, Unquote, Close, Return, Fail
<1> SUFFICES ASSUME Outermost(heap, opts) \in Occurrences(heap, opts) PROVE Progress'
  BY <1>1 DEF Progresses
<1>2. opts \in Settings /\ Progress
  BY DEF Progresses
<1>3. CASE TooDeep
  BY <1>3, FailWrites DEF TooDeep, Errors
<1>4. CASE WriteLeaf
  BY <1>2, <1>4, LeafWrites
<1>5. CASE Refuse
  BY <1>5, FailWrites DEF Refuse, Refusals, Errors
<1>6. CASE Follow
  BY <1>2, <1>6, FollowWrites
<1>7. CASE Cycle
  BY <1>7, FailWrites DEF Cycle, Errors
<1>8. CASE Open
  BY <1>2, <1>8, OpenWrites
<1>9. CASE Item
  BY <1>2, <1>9, ItemWrites
<1>10. CASE Unquote
  BY <1>2, <1>10, UnquoteWrites
<1>11. CASE Close
  BY <1>2, <1>11, CloseWrites
<1>12. CASE Return
  BY <1>2, <1>12, ReturnWrites
<1>13. CASE UNCHANGED vars
  BY <1>2, <1>13 DEF vars, Progress
<1>14. QED
  BY <1>3, <1>4, <1>5, <1>6, <1>7, <1>8, <1>9, <1>10, <1>11, <1>12, <1>13 DEF Next

-----------------------------------------------------------------------------
(* A set of numbers has a smallest one. *)
LEMMA Smallest ==
  ASSUME NEW S, S \subseteq Nat, S # {}
  PROVE  \E m \in S : \A n \in S : m <= n
<1>1. PICK m \in S : \A n \in S : ~ (<<n, m>> \in OpToRel(<, Nat))
  BY ONLY S \subseteq Nat, S # {}, NatLessThanWellFounded, WFMin
<1>2. \A n \in S : ~ (n < m)
  BY <1>1 DEF OpToRel
<1>3. QED
  BY <1>2

(* An arrangement leaves out no item that is written. *)
LEMMA Arranged ==
  ASSUME NEW h \in Heaps, NEW o \in Settings, NEW w, NEW B, Of(h, o, w, B),
         NEW p \in Arrangements(w), NEW i \in Written(w)
  PROVE  \E k \in 1..Len(p) : p[k] = i
<1> DEFINE c == Cardinality(Written(w))
<1>1. IsFiniteSet(Written(w)) /\ c \in Nat
  <2>1. Len(Met(w).items) \in Nat /\ Written(w) \subseteq 1..Len(Met(w).items)
    BY Rules DEF Written
  <2>2. IsFiniteSet(1..Len(Met(w).items))
    BY <2>1, FS_Interval
  <2>3. QED
    BY <2>1, <2>2, FS_Subset, FS_CardinalityType
<1>2. p \in [1..c -> Written(w)] /\ \A a, b \in 1..c : a < b => p[a] # p[b]
  BY DEF Arrangements
<1>3. p \in Injection(1..c, Written(w))
  <2>1. ASSUME NEW a \in 1..c, NEW b \in 1..c, p[a] = p[b] PROVE a = b
    BY <1>1, <1>2, <2>1
  <2>2. QED
    BY <1>2, <2>1 DEF Injection, IsInjective
<1>4. Cardinality(1..c) = c
  BY <1>1, FS_Interval
<1>5. p \in Surjection(1..c, Written(w))
  BY <1>1, <1>3, <1>4, FS_Injection
<1>6. Len(p) = c
  BY <1>1, <1>2
<1>7. QED
  BY <1>5, <1>6 DEF Surjection

(* What has a text has one for each of its items. *)
LEMMA ItemsHaveTexts ==
  ASSUME NEW h \in Heaps, NEW o \in Settings, NEW w, NEW B, Of(h, o, w, B),
         Met(w).kind \in Containers, Texts(w) # {}, NEW i \in Written(w)
  PROVE  Inner(w, i) \in Occurrences(h, o) /\ Texts(Inner(w, i)) # {}
<1>1. IsText(w) /\ Allowed(w)
  BY Rules DEF IsText
<1>2. Texts(w) = UNION {Enclosed(w, order) : order \in Arrangements(w)}
  BY <1>1 DEF IsText, Leaves, References, Containers, Trees
<1>3. PICK p \in Arrangements(w) : Enclosed(w, p) # {}
  BY <1>2
<1>4. Bodies(w, p, Len(p)) # {} /\ IsBody(w, p) /\ Len(p) \in Nat
  BY <1>1, <1>3, Rules, ArrangementTypes DEF Enclosed
<1>5. PICK k \in 1..Len(p) : p[k] = i
  BY <1>3, Arranged
<1>6. ASSUME Texts(Inner(w, i)) = {} PROVE FALSE
  <2> DEFINE S == {n \in k..Len(p) : Bodies(w, p, n) # {}}
  <2>1. Bodies(w, p, k) = {}
    BY <1>4, <1>5, <1>6 DEF IsBody, Longer
  <2>2. S \subseteq Nat /\ S # {}
    BY <1>4, <1>5
  <2>3. PICK m \in S : \A n \in S : m <= n
    BY <2>2, Smallest
  <2>4. m \in (k + 1)..Len(p) /\ m \in 1..Len(p) /\ m - 1 \in k..Len(p)
    BY <1>4, <1>5, <2>1, <2>3
  <2>5. Bodies(w, p, m) = Longer(w, p[m], Bodies(w, p, m - 1), m = 1)
    BY <1>4, <2>4 DEF IsBody
  <2>6. Bodies(w, p, m - 1) # {}
    BY <2>3, <2>5 DEF Longer
  <2>7. QED
    BY <2>3, <2>4, <2>6
<1>7. Inner(w, i) \in Occurrences(h, o)
  BY <1>1, Rules DEF Parts, References, Containers, Trees
<1>8. QED
  BY <1>6, <1>7

-----------------------------------------------------------------------------
(* The cell x, met at depth d and not within a parser.Value, has a text.    *)
Outside(h, o, x, d) == Occurrence(h, o, x, d, FALSE)
Has(h, o, x, d) == Outside(h, o, x, d) \in Occurrences(h, o) /\ Texts(Outside(h, o, x, d)) # {}

(* Such a cell is an occurrence, and not too deep.                          *)
LEMMA HasOf ==
  ASSUME NEW h \in Heaps, NEW o \in Settings, NEW x \in Nodes, NEW d \in Nat, Has(h, o, x, d)
  PROVE  \E u : /\ Of(h, o, u, << <<>> >>) /\ Texts(u) # {} /\ IsText(u)
               /\ u.heap = h /\ u.opts = o /\ u.node = x /\ u.depth = d /\ Met(u) = h[x]
               /\ Allowed(u) /\ d <= MaxDepth
<1> DEFINE u == Outside(h, o, x, d)
<1>1. /\ u.heap = h /\ u.opts = o /\ u.node = x /\ u.depth = d /\ u.inTree = FALSE
      /\ u \in Occurrences(h, o) /\ Texts(u) # {}
  BY DEF Has, Outside, Occurrence
<1>2. u = Occurrence(h, o, u.node, u.depth, u.inTree)
  BY <1>1, WritingAssumption
<1>3. << <<>> >> \in Lists(Tokens)
  BY DEF Lists
<1>4. Of(h, o, u, << <<>> >>)
  BY <1>1, <1>2, <1>3 DEF Of
<1>5. IsText(u) /\ Met(u) = h[x]
  BY <1>1, <1>4, Rules
<1>6. Allowed(u)
  BY <1>1, <1>5 DEF IsText
<1>7. d <= MaxDepth
  BY <1>1, <1>6 DEF Allowed
<1> HIDE DEF u
<1>8. QED
  BY <1>1, <1>4, <1>5, <1>6, <1>7

(* What has a text is not refused. *)
LEMMA HasKind ==
  ASSUME NEW h \in Heaps, NEW o \in Settings, NEW x \in Nodes, NEW d \in Nat, Has(h, o, x, d)
  PROVE  h[x].kind \notin DOMAIN Refusals
<1>1. PICK u : Texts(u) # {} /\ IsText(u) /\ Met(u) = h[x]
  BY HasOf
<1>2. QED
  BY <1>1 DEF IsText, Refusals, Leaves, References, Containers, Trees

(* So does what is written of it. *)
LEMMA HasItem ==
  ASSUME NEW h \in Heaps, NEW o \in Settings, NEW x \in Nodes, NEW d \in Nat, Has(h, o, x, d),
         h[x].kind \in Containers \ Trees, NEW y \in Children(h, x)
  PROVE  Has(h, o, y, d + 1)
<1>1. PICK u :
      /\ Of(h, o, u, << <<>> >>) /\ Texts(u) # {}
      /\ u.heap = h /\ u.opts = o /\ u.node = x /\ u.depth = d /\ Met(u) = h[x]
  BY HasOf
<1>2. PICK i \in Written([heap |-> h, node |-> x]) : y = h[x].items[i].node
  BY DEF Children
<1>3. Written(u) = Written([heap |-> h, node |-> x])
  BY <1>1 DEF Written, Omitted, Met
<1>4. Inner(u, i) \in Occurrences(h, o) /\ Texts(Inner(u, i)) # {}
  BY <1>1, <1>2, <1>3, ItemsHaveTexts
<1>5. Inner(u, i) = Outside(h, o, y, d + 1)
  <2>1. Met(u).kind \notin References /\ (Met(u).kind \in Trees) = FALSE
    BY <1>1 DEF Containers, References, Trees
  <2>2. QED
    BY <1>1, <1>2, <2>1 DEF Inner, Outside
<1>6. QED
  BY <1>4, <1>5 DEF Has

(* And what a pointer or an interface refers to. *)
LEMMA HasTarget ==
  ASSUME NEW h \in Heaps, NEW o \in Settings, NEW x \in Nodes, NEW d \in Nat, Has(h, o, x, d),
         h[x].kind \in References
  PROVE  Has(h, o, h[x].items[1].node, d)
<1>1. PICK u :
      /\ Of(h, o, u, << <<>> >>) /\ Texts(u) # {} /\ IsText(u) /\ Allowed(u)
      /\ u.heap = h /\ u.opts = o /\ u.node = x /\ u.depth = d /\ Met(u) = h[x]
  BY HasOf
<1>2. Inner(u, 1) \in Occurrences(h, o)
  BY <1>1, Rules DEF Parts
<1>3. Texts(u) = Texts(Inner(u, 1))
  BY <1>1 DEF IsText, Leaves, References
<1>4. Inner(u, 1) = Outside(h, o, h[x].items[1].node, d)
  <2>1. Met(u).kind \in References /\ (Met(u).kind \in Trees) = FALSE
    BY <1>1 DEF References, Trees
  <2>2. QED
    BY <1>1, <2>1 DEF Inner, Outside
<1>5. QED
  BY <1>1, <1>2, <1>3, <1>4 DEF Has

-----------------------------------------------------------------------------
(* What is met from a cell that is met is met too. *)
LEMMA FromCloses ==
  ASSUME NEW h, NEW X, NEW x \in From(h, X), NEW y \in Nodes, y \in Children(h, x)
  PROVE  y \in From(h, X)
BY DEF From

(* So is what pointers and interfaces come to.                              *)
LEMMA BehindCloses ==
  ASSUME NEW h, NEW z, NEW x \in Behind(h, z), h[x].kind \in References, h[x].items[1].node \in Nodes
  PROVE  h[x].items[1].node \in Behind(h, z)
BY DEF Behind

(* Both begin with the cells themselves.                                    *)
LEMMA Begins ==
  ASSUME NEW h, NEW x \in Nodes
  PROVE  x \in Behind(h, x) /\ \A X : x \in X => x \in From(h, X)
BY DEF Behind, From

(* The cells that a cell refers to. *)
LEMMA ChildTypes ==
  ASSUME NEW h \in Heaps, NEW x \in Nodes
  PROVE  /\ h[x] \in Cells
         /\ \A y \in Children(h, x) : y \in Nodes /\ h[x].items # <<>>
         /\ h[x].kind \in References =>
              h[x].items[1].node \in Nodes /\ h[x].items[1].node \in Children(h, x)
<1> DEFINE r == [heap |-> h, node |-> x]
<1>1. h[x] \in Cells /\ Met(r) = h[x]
  BY EncoderAssumption DEF Met
<1>2. h[x].items \in Seq(Items)
  BY <1>1 DEF Cells
<1>3. \A i \in 1..Len(h[x].items) : h[x].items[i].node \in Nodes
  <2>1. \A i \in 1..Len(h[x].items) : h[x].items[i] \in Items
    BY <1>2, ElementOfSeq
  <2>2. QED
    BY <2>1 DEF Items
<1>4. Written(r) \subseteq 1..Len(h[x].items)
  BY <1>1 DEF Written
<1> HIDE DEF r
<1>5. \A y \in Children(h, x) : y \in Nodes /\ h[x].items # <<>>
  <2>1. ASSUME NEW y \in Children(h, x) PROVE y \in Nodes /\ h[x].items # <<>>
    <3>1. PICK i \in Written(r) : y = h[x].items[i].node
      BY DEF Children, r
    <3>2. i \in 1..Len(h[x].items)
      BY <1>4
    <3>3. h[x].items # <<>>
      BY <3>2, <1>2, EmptySeq
    <3>4. QED
      BY <1>3, <3>1, <3>2, <3>3
  <2>2. QED
    BY <2>1
<1>6. ASSUME h[x].kind \in References
      PROVE  h[x].items[1].node \in Nodes /\ h[x].items[1].node \in Children(h, x)
  <2>1. Len(h[x].items) = 1
    BY <1>6, EncoderAssumption
  <2>2. 1 \in 1..Len(h[x].items)
    BY <2>1
  <2>3. 1 \in Written(r)
    BY <1>1, <1>6, <2>2 DEF Written, Omitted, References
  <2>4. QED
    BY <1>3, <2>2, <2>3 DEF Children, r
<1>7. QED
  BY <1>1, <1>5, <1>6

-----------------------------------------------------------------------------
(* What the encoder knows of x when n calls are in progress.                *)
Leads(h, o, x, y, k) == \A d \in Nat : Has(h, o, x, d) => Has(h, o, y, d + k)

Located(h, o, s, n, x) ==
  /\ x \in From(h, {Root})
  /\ IF n = 0 THEN x \in Behind(h, Root) ELSE \E y \in Children(h, s[n].node) : x \in Behind(h, y)
  /\ Has(h, o, Root, 0) => Has(h, o, x, n)
  /\ \A l \in 1..n :
       /\ s[l].node \in Nodes /\ h[s[l].node].kind \in Containers \ Trees /\ h[s[l].node].items # <<>>
       /\ x \in From(h, Children(h, s[l].node))
       /\ Leads(h, o, s[l].node, x, n + 1 - l)

(* Only the first n calls matter, and of them only their containers.        *)
LEMMA LocatedStill ==
  ASSUME NEW h, NEW o, NEW s, NEW t, NEW n \in Nat, NEW x,
         Located(h, o, s, n, x), \A l \in 1..n : t[l].node = s[l].node
  PROVE  Located(h, o, t, n, x)
<1>1. n # 0 => n \in 1..n
  OBVIOUS
<1>2. QED
  BY <1>1 DEF Located

(* A reference is passed. *)
LEMMA LocatedBehind ==
  ASSUME NEW h \in Heaps, NEW o \in Settings, NEW s, NEW n \in Nat, NEW x \in Nodes,
         Located(h, o, s, n, x), h[x].kind \in References
  PROVE  Located(h, o, s, n, h[x].items[1].node)
<1> DEFINE y == h[x].items[1].node
<1>1. y \in Nodes /\ y \in Children(h, x)
  BY ChildTypes
<1>2. y \in From(h, {Root}) /\ \A l \in 1..n : y \in From(h, Children(h, s[l].node))
  BY <1>1, FromCloses DEF Located
<1>3. IF n = 0 THEN y \in Behind(h, Root) ELSE \E z \in Children(h, s[n].node) : y \in Behind(h, z)
  BY <1>1, BehindCloses DEF Located
<1>4. \A d \in Nat : Has(h, o, x, d) => Has(h, o, y, d)
  BY HasTarget
<1>5. \A l \in 1..n : Leads(h, o, s[l].node, y, n + 1 - l)
  <2>1. \A l \in 1..n : n + 1 - l \in Nat
    OBVIOUS
  <2>2. \A l \in 1..n : \A d \in Nat : d + (n + 1 - l) \in Nat
    BY <2>1
  <2> HIDE DEF y
  <2>3. QED
    BY <1>4, <2>2 DEF Located, Leads
<1> HIDE DEF y
<1>6. QED
  BY <1>2, <1>3, <1>4, <1>5 DEF Located, y

(* An item of the innermost container is met. *)
LEMMA LocatedItem ==
  ASSUME NEW h \in Heaps, NEW o \in Settings, NEW s, NEW n \in Nat, NEW x \in Nodes,
         Located(h, o, s, n, x), h[x].kind \in Containers \ Trees, s[n + 1].node = x,
         NEW y \in Children(h, x)
  PROVE  Located(h, o, s, n + 1, y)
<1>1. y \in Nodes /\ h[x].items # <<>>
  BY ChildTypes
<1>2. /\ y \in From(h, {Root}) /\ \A l \in 1..n : y \in From(h, Children(h, s[l].node))
      /\ y \in From(h, Children(h, x)) /\ y \in Behind(h, y)
  BY <1>1, FromCloses, Begins DEF Located
<1>3. \A d \in Nat : Has(h, o, x, d) => Has(h, o, y, d + 1)
  BY HasItem
<1>4. \A l \in 1..n : Leads(h, o, s[l].node, y, n + 1 + 1 - l)
  <2>1. \A l \in 1..n : \A d \in Nat : d + (n + 1 - l) \in Nat /\ d + (n + 1 - l) + 1 = d + (n + 1 + 1 - l)
    OBVIOUS
  <2>2. QED
    BY <1>3, <2>1 DEF Located, Leads
<1>5. Leads(h, o, x, y, n + 1 + 1 - (n + 1))
  <2>1. n + 1 + 1 - (n + 1) = 1
    OBVIOUS
  <2>2. QED
    BY <1>3, <2>1 DEF Leads
<1>6. 1..(n + 1) = 1..n \cup {n + 1} /\ n + 1 # 0
  OBVIOUS
<1>7. \A l \in 1..(n + 1) :
       /\ s[l].node \in Nodes /\ h[s[l].node].kind \in Containers \ Trees /\ h[s[l].node].items # <<>>
       /\ y \in From(h, Children(h, s[l].node))
       /\ Leads(h, o, s[l].node, y, n + 1 + 1 - l)
  BY <1>1, <1>2, <1>4, <1>5, <1>6 DEF Located
<1>8. Has(h, o, Root, 0) => Has(h, o, y, n + 1)
  BY <1>3 DEF Located
<1>9. QED
  BY <1>2, <1>6, <1>7, <1>8 DEF Located

-----------------------------------------------------------------------------
(* The m-th call in progress: what is left are items to be written, and the *)
(* container is where that call was made.                                   *)
Framed(h, o, s, m) ==
  /\ \A j \in 1..Len(s[m].left) : s[m].left[j] \in Written([heap |-> h, node |-> s[m].node])
  /\ h[s[m].node].kind \in Containers
  /\ h[s[m].node].kind \notin Trees => Located(h, o, s, m - 1, s[m].node)

Named ==
  /\ ErrorsNameTheCause
  /\ err # "" /\ Identified(heap) => ~ Has(heap, opts, Root, 0)

Tracing ==
  /\ opts \in Settings /\ Named
  /\ \A m \in 1..Len(stack) : Framed(heap, opts, stack, m)
  /\ pc = "value" /\ ~ InTree => Located(heap, opts, stack, Len(stack), at)

(* Only the calls up to the m-th matter. *)
LEMMA FramedStill ==
  ASSUME NEW h, NEW o, NEW s, NEW t, NEW m \in Nat \ {0}, Framed(h, o, s, m),
         t[m].left = s[m].left, \A l \in 1..m : t[l].node = s[l].node
  PROVE  Framed(h, o, t, m)
<1>1. m \in 1..m /\ m - 1 \in Nat /\ 1..(m - 1) \subseteq 1..m
  OBVIOUS
<1>2. t[m].node = s[m].node
  BY <1>1
<1>3. Located(h, o, s, m - 1, s[m].node) => Located(h, o, t, m - 1, s[m].node)
  BY <1>1, LocatedStill
<1>4. QED
  BY <1>2, <1>3 DEF Framed

(* As long as there is no error none is to be named. *)
LEMMA NamedStill ==
  ASSUME Named, UNCHANGED <<heap, opts, err>>
  PROVE  Named'
BY DEF Named, ErrorsNameTheCause

-----------------------------------------------------------------------------
(* The value is too deep. *)
LEMMA TooDeepTraced ==
  ASSUME IInv, Tracing, TooDeep
  PROVE  Tracing'
<1> DEFINE n == Len(stack)
           p == [d \in 0..(MaxDepth + 1) |-> IF d = n THEN at ELSE stack[d + 1].node]
<1>1. /\ n \in Nat /\ n > MaxDepth /\ MaxDepth \in Nat /\ ~ InTree /\ heap \in Heaps /\ at \in Nodes
      /\ Located(heap, opts, stack, n, at)
  BY TypeFacts, EncoderAssumption DEF IInv, TypeOK, TooDeep, Depth, Tracing
<1>2. \A l \in 1..n : stack[l].node \in Nodes /\ heap[stack[l].node].kind \in Containers \ Trees
  BY <1>1 DEF Located
<1>3. n = MaxDepth + 1
  <2>1. n \in 1..n
    BY <1>1
  <2>2. n <= MaxDepth + 1
    BY <1>2, <2>1 DEF IInv, DepthBounded
  <2>3. QED
    BY <1>1, <2>2
<1>4. /\ p \in [0..(MaxDepth + 1) -> Nodes] /\ p[n] = at
      /\ \A d \in 0..MaxDepth : p[d] = stack[d + 1].node /\ d + 1 \in 1..n
  BY <1>1, <1>2, <1>3
<1> HIDE DEF p, n
<1>5. \A l \in 1..n : Located(heap, opts, stack, l - 1, stack[l].node)
  BY <1>2 DEF Tracing, Framed, n
<1>6. p[0] \in Behind(heap, Root)
  <2>1. 1 \in 1..n /\ 1 - 1 = 0 /\ 0 \in 0..MaxDepth /\ 0 + 1 = 1
    BY <1>1
  <2>2. p[0] = stack[1].node /\ Located(heap, opts, stack, 0, stack[1].node)
    BY <1>4, <1>5, <2>1
  <2>3. QED
    BY <2>2 DEF Located
<1>7. ASSUME NEW d \in 0..MaxDepth PROVE \E y \in Children(heap, p[d]) : p[d + 1] \in Behind(heap, y)
  <2>1. d + 1 # 0 /\ d + 1 \in 1..n /\ p[d] = stack[d + 1].node
    BY <1>4
  <2>2. CASE d = MaxDepth
    <3>1. p[d + 1] = at /\ n # 0 /\ d + 1 = n
      BY <1>1, <1>3, <1>4, <2>2
    <3>2. QED
      BY <1>1, <2>1, <3>1 DEF Located
  <2>3. CASE d # MaxDepth
    <3>1. d + 1 \in 0..MaxDepth /\ d + 1 + 1 - 1 = d + 1
      BY <1>1, <2>3
    <3>2. p[d + 1] = stack[d + 1 + 1].node /\ Located(heap, opts, stack, d + 1, stack[d + 1 + 1].node)
      BY <1>4, <1>5, <3>1
    <3>3. QED
      BY <2>1, <3>2 DEF Located
  <2>4. QED
    BY <2>2, <2>3
<1>8. ASSUME NEW d \in 0..MaxDepth, heap[p[d]].kind \in Tracked, NEW e \in 0..(d - 1), p[e] = p[d]
      PROVE  FALSE
  <2>1. e \in 0..MaxDepth /\ d + 1 \in 1..n /\ e + 1 \in 1..n /\ e # d
    BY <1>1, <1>4
  <2>2. p[d] = stack[d + 1].node /\ p[e] = stack[e + 1].node
    BY <1>4, <2>1
  <2>3. d + 1 \in Entered /\ e + 1 \in Entered /\ Visit(stack[d + 1].node) = Visit(stack[e + 1].node)
    BY <1>8, <2>1, <2>2 DEF Entered, n
  <2>4. d + 1 = e + 1
    BY <2>3 DEF IInv, SeenIsTheStack
  <2>5. QED
    BY <2>1, <2>4
<1>9. DeepWithoutCycle(heap)
  BY <1>2, <1>4, <1>6, <1>7, <1>8 DEF DeepWithoutCycle
<1>10. ~ Has(heap, opts, Root, 0)
  <2>1. ~ Has(heap, opts, at, n)
    BY <1>1, HasOf DEF Tracing, n
  <2>2. QED
    BY <1>1, <2>1 DEF Located, n
<1>11. /\ err' = "EMaxDepth" /\ pc' = "done" /\ UNCHANGED <<heap, opts, at, stack>>
  BY DEF TooDeep, Fail
<1>12. Named'
  BY <1>9, <1>10, <1>11 DEF Named, ErrorsNameTheCause, Refusals
<1>13. QED
  BY <1>11, <1>12 DEF Tracing

(* A value that has no JSON. *)
LEMMA RefuseTraced ==
  ASSUME IInv, Tracing, Refuse
  PROVE  Tracing'
<1>1. /\ Len(stack) \in Nat /\ heap \in Heaps /\ opts \in Settings /\ at \in Nodes
      /\ Cell.kind \in DOMAIN Refusals
  BY TypeFacts DEF IInv, TypeOK, Refuse, Tracing
<1>2. ~ InTree
  BY <1>1 DEF IInv, TreesWithin, Refuse, Calls, Trees, TreeLeaves, Refusals
<1>3. Located(heap, opts, stack, Len(stack), at)
  BY <1>2 DEF Tracing, Refuse, Calls
<1>4. ~ Has(heap, opts, Root, 0)
  BY <1>1, <1>3, HasKind DEF Located, Cell
<1>5. err' = Refusals[heap[at].kind] /\ pc' = "done" /\ UNCHANGED <<heap, opts, at, stack>>
  BY DEF Refuse, Fail, Cell
<1>6. ErrorsNameTheCause'
  <2>1. at \in From(heap, {Root}) /\ heap[at].kind \in DOMAIN Refusals
    BY <1>1, <1>3 DEF Located, Cell
  <2>2. err' # "EMaxDepth" /\ err' # "ECycle"
    BY <1>5, <2>1 DEF Refusals
  <2>3. QED
    BY <1>5, <2>1, <2>2 DEF ErrorsNameTheCause
<1>7. QED
  BY <1>4, <1>5, <1>6 DEF Tracing, Named

(* A container that is met again within itself: it would have to be written *)
(* deeper and deeper. *)
LEMMA CycleTraced ==
  ASSUME IInv, Tracing, Cycle
  PROVE  Tracing'
<1> DEFINE n == Len(stack)
<1>1. /\ n \in Nat /\ heap \in Heaps /\ opts \in Settings /\ at \in Nodes /\ MaxDepth \in Nat
      /\ heap[at].kind \in Tracked
  BY TypeFacts, EncoderAssumption DEF IInv, TypeOK, Cycle, Tracing, Cell
<1>2. ~ InTree
  BY <1>1 DEF IInv, TreesWithin, Cycle, Calls, Trees, TreeLeaves, Tracked, Cell
<1>3. Located(heap, opts, stack, n, at)
  BY <1>2 DEF Tracing, Cycle, Calls
<1>4. PICK m \in 1..n : /\ heap[stack[m].node].kind = heap[at].kind
                        /\ heap[stack[m].node].ptr = heap[at].ptr
  BY DEF IInv, SeenIsTheStack, Cycle, Visit, Entered
<1> HIDE DEF n
<1>5. err' = "ECycle" /\ pc' = "done" /\ UNCHANGED <<heap, opts, at, stack>>
  BY DEF Cycle, Fail
<1>6. ASSUME Identified(heap)
      PROVE  at \in From(heap, {Root}) /\ at \in From(heap, Children(heap, at)) /\ ~ Has(heap, opts, Root, 0)
  <2>1. /\ stack[m].node \in Nodes /\ heap[stack[m].node].items # <<>>
        /\ at \in From(heap, {Root}) /\ at \in From(heap, Children(heap, stack[m].node))
        /\ Leads(heap, opts, stack[m].node, at, n + 1 - m)
    BY <1>3, <1>4 DEF Located
  <2>2. stack[m].node = at
    BY <1>1, <1>4, <1>6, <2>1 DEF Identified
  <2>3. ASSUME Has(heap, opts, Root, 0) PROVE FALSE
    <3> DEFINE S == {k \in 0..MaxDepth : Has(heap, opts, at, MaxDepth - k)}
    <3>1. n <= MaxDepth /\ Has(heap, opts, at, n)
      BY <1>1, <1>3, <2>3, HasOf DEF Located
    <3>2. MaxDepth - n \in S
      <4>1. MaxDepth - (MaxDepth - n) = n /\ MaxDepth - n \in 0..MaxDepth
        BY <1>1, <3>1
      <4>2. QED
        BY <3>1, <4>1
    <3>3. PICK k \in S : \A j \in S : k <= j
      <4>1. S \subseteq 0..MaxDepth /\ 0..MaxDepth \subseteq Nat
        BY <1>1
      <4>2. S # {}
        BY <3>2
      <4> HIDE DEF S
      <4>3. QED
        BY <4>1, <4>2, Smallest
    <3> DEFINE e == MaxDepth - k + (n + 1 - m)
    <3>4. MaxDepth - k \in Nat /\ Has(heap, opts, at, MaxDepth - k) /\ k \in 0..MaxDepth
      BY <1>1, <3>3
    <3>5. Has(heap, opts, at, e)
      BY <2>1, <2>2, <3>4 DEF Leads
    <3>6. e \in Nat /\ e > MaxDepth - k
      BY <1>1, <1>4, <3>4
    <3>7. e <= MaxDepth
      <4> HIDE DEF e
      <4>1. QED
        BY <1>1, <3>5, <3>6, HasOf
    <3>8. MaxDepth - e \in S
      <4>1. MaxDepth - (MaxDepth - e) = e /\ MaxDepth - e \in 0..MaxDepth
        BY <1>1, <3>6, <3>7
      <4> HIDE DEF e
      <4>2. QED
        BY <3>5, <4>1
    <3>9. QED
      BY <1>1, <3>3, <3>4, <3>6, <3>7, <3>8
  <2>4. QED
    BY <2>1, <2>2, <2>3
<1>7. Named'
  BY <1>1, <1>5, <1>6 DEF Named, ErrorsNameTheCause, Refusals
<1>8. QED
  BY <1>5, <1>7 DEF Tracing

(* A pointer or an interface is passed. *)
LEMMA FollowTraced ==
  ASSUME IInv, Tracing, Follow
  PROVE  Tracing'
<1>1. /\ Len(stack) \in Nat /\ heap \in Heaps /\ opts \in Settings /\ at \in Nodes
      /\ heap[at].kind \in References
  BY TypeFacts DEF IInv, TypeOK, Follow, Tracing, Cell
<1>2. /\ at' = heap[at].items[1].node /\ UNCHANGED <<heap, opts, stack, err>>
      /\ InTree' = InTree
  BY DEF Follow, Cell, InTree, Whole, Top
<1>3. ~ InTree => Located(heap, opts, stack, Len(stack), heap[at].items[1].node)
  BY <1>1, LocatedBehind DEF Tracing, Follow, Calls
<1>4. Named'
  BY <1>2, NamedStill DEF Tracing
<1>5. QED
  BY <1>2, <1>3, <1>4 DEF Tracing

(* A container is entered. *)
LEMMA OpenTraced ==
  ASSUME IInv, Tracing, Open
  PROVE  Tracing'
<1> DEFINE n == Len(stack)
<1>1. /\ n \in Nat /\ heap \in Heaps /\ opts \in Settings /\ at \in Nodes /\ stack \in Seq(Frames)
      /\ heap[at] \in Cells /\ heap[at].kind \in Containers
  BY TypeFacts DEF IInv, TypeOK, Open, Tracing, Cell
<1>2. PICK order \in Orders(Cell) :
        stack' = Append(stack, [node |-> at, left |-> order, first |-> TRUE, quoting |-> FALSE])
  BY DEF Open
<1> DEFINE f == [node |-> at, left |-> order, first |-> TRUE, quoting |-> FALSE]
<1>3. f \in Frames /\ f.node = at /\ f.left = order
  <2>1. order \in Seq(Nat)
    BY <1>1, <1>2, OrderTypes DEF Cell
  <2>2. QED
    BY <1>1, <2>1 DEF Frames
<1>4. stack' = Append(stack, f)
  BY <1>2
<1> HIDE DEF n, f
<1>5. /\ Len(stack') = n + 1 /\ stack'[n + 1] = f
      /\ \A m \in 1..n : stack'[m] = stack[m]
  BY <1>1, <1>3, <1>4, AppendProperties DEF n
<1>6. \A j \in 1..Len(order) : order[j] \in Written([heap |-> heap, node |-> at])
  <2> DEFINE r == [heap |-> heap, opts |-> opts, node |-> at]
  <2>1. r.heap = heap /\ r.opts = opts /\ Met(r) = Cell /\ Met(r) \in Cells
    BY <1>1 DEF Met, Cell
  <2>2. Written(r) = Written([heap |-> heap, node |-> at])
    BY DEF Written, Omitted, Met
  <2> HIDE DEF r
  <2>3. Live(Cell) = Written(r)
    BY <2>1 DEF Live, Written, Omitted, Empty, Zeros
  <2>4. order \in [1..Cardinality(Live(Cell)) -> Live(Cell)]
    BY <1>2 DEF Orders
  <2>5. Cardinality(Live(Cell)) \in Nat
    <3>1. Live(Cell) \subseteq 1..Len(Cell.items) /\ Len(Cell.items) \in Nat
      BY <1>1, LenProperties DEF Live, Cell, Cells
    <3>2. IsFiniteSet(1..Len(Cell.items))
      BY <3>1, FS_Interval
    <3>3. QED
      BY <3>1, <3>2, FS_Subset, FS_CardinalityType
  <2>6. Len(order) = Cardinality(Live(Cell))
    BY <2>4, <2>5
  <2>7. QED
    BY <2>2, <2>3, <2>4, <2>6
<1>7. heap[at].kind \notin Trees => Located(heap, opts, stack, n, at)
  BY DEF Tracing, IInv, TreesWithin, Open, Calls, Cell, Containers, Trees, TreeLeaves, n
<1>8. Located(heap, opts, stack, n, at) => Located(heap, opts, stack', n, at)
  BY <1>1, <1>5, LocatedStill DEF n
<1>9. Framed(heap, opts, stack', n + 1)
  <2>1. n + 1 - 1 = n
    BY <1>1 DEF n
  <2>2. QED
    BY <1>1, <1>3, <1>5, <1>6, <1>7, <1>8, <2>1 DEF Framed
<1>10. \A m \in 1..n : Framed(heap, opts, stack', m)
  <2>1. ASSUME NEW m \in 1..n PROVE Framed(heap, opts, stack', m)
    <3>1. m \in Nat \ {0} /\ 1..m \subseteq 1..n /\ m \in 1..n
      BY <1>1, <2>1 DEF n
    <3>2. Framed(heap, opts, stack, m)
      BY <2>1 DEF Tracing, n
    <3>3. QED
      BY <1>5, <3>1, <3>2, FramedStill
  <2>2. QED
    BY <2>1
<1>11. UNCHANGED <<heap, opts, err>> /\ pc' = "next"
  BY DEF Open
<1>12. \A m \in 1..(n + 1) : Framed(heap, opts, stack', m)
  <2>1. 1..(n + 1) = 1..n \cup {n + 1}
    BY <1>1 DEF n
  <2>2. QED
    BY <1>9, <1>10, <2>1
<1>13. Named'
  BY <1>11, NamedStill DEF Tracing
<1>14. QED
  BY <1>1, <1>5, <1>11, <1>12, <1>13 DEF Tracing

(* The innermost call goes on with the same container, and has no more left *)
(* than before. *)
LEMMA TopTraced ==
  ASSUME IInv, Tracing, stack # <<>>, NEW e \in Frames, stack' = SetLast(stack, e), e.node = Top.node,
         \A j \in 1..Len(e.left) : \E i \in 1..Len(Top.left) : e.left[j] = Top.left[i]
  PROVE  /\ Len(stack') = Len(stack) /\ \A m \in 1..Len(stack) : stack'[m].node = stack[m].node
         /\ \A m \in 1..Len(stack) : Framed(heap, opts, stack', m)
<1> DEFINE n == Len(stack)
<1>1. n \in 1..n /\ n \in Nat
  BY TypeFacts DEF IInv
<1>2. /\ Len(stack') = n
      /\ \A m \in 1..n : stack'[m] = IF m = n THEN e ELSE stack[m]
  BY OnSetTop DEF IInv
<1> HIDE DEF n
<1>3. \A m \in 1..n : stack'[m].node = stack[m].node
  BY <1>2 DEF Top, n
<1>4. ASSUME NEW m \in 1..n PROVE Framed(heap, opts, stack', m)
  <2>1. m \in Nat \ {0} /\ 1..m \subseteq 1..n /\ m - 1 \in Nat /\ 1..(m - 1) \subseteq 1..n
    BY <1>1, <1>4
  <2>2. Framed(heap, opts, stack, m)
    BY <1>4 DEF Tracing, n
  <2>3. CASE m # n
    BY <1>2, <1>3, <1>4, <2>1, <2>2, <2>3, FramedStill
  <2>4. CASE m = n
    <3>1. stack'[m] = e /\ stack[m] = Top /\ stack'[m].node = stack[m].node
      BY <1>2, <1>3, <1>4, <2>4 DEF Top, n
    <3>2. Located(heap, opts, stack, m - 1, stack[m].node) => Located(heap, opts, stack', m - 1, stack[m].node)
      BY <1>3, <2>1, LocatedStill
    <3>3. QED
      BY <2>2, <3>1, <3>2 DEF Framed
  <2>5. QED
    BY <2>3, <2>4
<1>5. QED
  BY <1>2, <1>3, <1>4 DEF n

(* The next item of the innermost container. *)
LEMMA ItemTraced ==
  ASSUME IInv, Tracing, Item
  PROVE  Tracing'
<1> DEFINE i == Head(Top.left)
           y == Whole.items[i].node
           quoted == Whole.kind = "struct" /\ Whole.items[i].quoted
           e == [Top EXCEPT !.left = Tail(@), !.first = FALSE, !.quoting = quoted]
           n == Len(stack)
<1>1. /\ stack # <<>> /\ n \in 1..n /\ n \in Nat \ {0} /\ heap \in Heaps /\ opts \in Settings
      /\ Top \in Frames /\ Top.left # <<>> /\ Top.node \in Nodes /\ Whole = heap[Top.node] /\ Whole \in Cells
      /\ Top.left \in Seq(Indices(Top.node)) /\ Top.left \in Seq(Nat) /\ Top = stack[n]
  <2>1. /\ stack # <<>> /\ n \in 1..n /\ n \in Nat /\ heap \in Heaps /\ opts \in Settings
        /\ Top \in Frames /\ Top.left # <<>> /\ Top.node \in Nodes /\ Whole \in Cells
        /\ Top = stack[n] /\ Whole = heap[Top.node]
    BY TypeFacts DEF IInv, Item, Tracing, Top, Whole
  <2>2. n \in Nat \ {0}
    BY <2>1
  <2>3. Top.left \in Seq(Indices(Top.node))
    BY <2>1 DEF IInv, LeftOver
  <2>4. Top.left \in Seq(Nat)
    BY <2>1 DEF Frames
  <2>5. QED
    BY <2>1, <2>2, <2>3, <2>4
<1>2. /\ at' = y /\ stack' = SetLast(stack, e)
      /\ pc' = "value" /\ UNCHANGED <<heap, opts, err>>
  BY DEF Item
<1>3. /\ Len(Top.left) \in Nat /\ 1 \in 1..Len(Top.left) /\ i = Top.left[1]
      /\ Tail(Top.left) \in Seq(Nat) /\ Len(Tail(Top.left)) = Len(Top.left) - 1
      /\ \A j \in 1..Len(Tail(Top.left)) : Tail(Top.left)[j] = Top.left[j + 1]
  <2>1. Len(Top.left) \in Nat \ {0}
    BY <1>1, EmptySeq
  <2>2. QED
    BY <1>1, <2>1, HeadTailProperties
<1>4. /\ e \in Frames /\ e.node = Top.node
      /\ \A j \in 1..Len(e.left) : \E k \in 1..Len(Top.left) : e.left[j] = Top.left[k]
  <2>1. e.left = Tail(Top.left) /\ e.node = Top.node
    BY <1>1 DEF Frames
  <2>2. \A j \in 1..Len(Tail(Top.left)) : j + 1 \in 1..Len(Top.left)
    BY <1>3
  <2>3. quoted \in BOOLEAN
    <3>1. i \in 1..Len(Whole.items)
      BY <1>1, HeadTailProperties DEF Indices
    <3>2. Whole.items[i] \in Items
      BY <1>1, <3>1, ElementOfSeq DEF Cells
    <3>3. QED
      BY <3>2 DEF Items
  <2>4. e \in Frames
    BY <1>1, <1>3, <2>3 DEF Frames
  <2> HIDE DEF e, quoted
  <2>5. QED
    BY <1>3, <2>1, <2>2, <2>4
<1>5. y \in Children(heap, Top.node)
  <2>1. i \in Written([heap |-> heap, node |-> Top.node])
    BY <1>1, <1>3 DEF Tracing, Framed
  <2>2. QED
    BY <1>1, <2>1 DEF Children
<1> HIDE DEF i, y, e, n
<1>6. /\ Len(stack') = n /\ \A m \in 1..n : stack'[m].node = stack[m].node
      /\ \A m \in 1..n : Framed(heap, opts, stack', m)
  BY <1>1, <1>2, <1>4, TopTraced DEF n
<1>7. InTree' <=> heap[Top.node].kind \in Trees
  <2>1. Top'.node = Top.node
    BY <1>1, <1>6 DEF Top, n
  <2>2. stack' # <<>>
    BY <1>1, <1>6
  <2>3. QED
    BY <1>2, <2>1, <2>2 DEF InTree, Whole
<1>8. ASSUME heap[Top.node].kind \notin Trees PROVE Located(heap, opts, stack', n, y)
  <2>1. n - 1 \in Nat /\ n - 1 + 1 = n
    BY <1>1
  <2>2. Located(heap, opts, stack, n - 1, Top.node) /\ heap[Top.node].kind \in Containers \ Trees
    BY <1>1, <1>8 DEF Tracing, Framed, n
  <2>3. stack[n - 1 + 1].node = Top.node
    BY <1>1, <2>1
  <2>4. Located(heap, opts, stack, n - 1 + 1, y)
    BY <1>1, <1>5, <2>1, <2>2, <2>3, LocatedItem
  <2>5. QED
    BY <1>1, <1>6, <2>1, <2>4, LocatedStill
<1>9. Named'
  BY <1>2, NamedStill DEF Tracing
<1>10. QED
  BY <1>1, <1>2, <1>6, <1>7, <1>8, <1>9 DEF Tracing

(* A quoted field has been written. *)
LEMMA UnquoteTraced ==
  ASSUME IInv, Tracing, Unquote
  PROVE  Tracing'
<1> DEFINE e == [Top EXCEPT !.quoting = FALSE]
<1>1. stack # <<>> /\ Top \in Frames
  BY TypeFacts DEF IInv, Unquote
<1>2. /\ e \in Frames /\ e.node = Top.node /\ e.left = Top.left
  BY <1>1 DEF Frames
<1>3. stack' = SetLast(stack, e) /\ pc' = "next" /\ UNCHANGED <<heap, opts, err>>
  BY DEF Unquote
<1> HIDE DEF e
<1>4. Len(stack') = Len(stack) /\ \A m \in 1..Len(stack) : Framed(heap, opts, stack', m)
  BY <1>1, <1>2, <1>3, TopTraced
<1>5. Named'
  BY <1>3, NamedStill DEF Tracing
<1>6. QED
  BY <1>3, <1>4, <1>5 DEF Tracing

(* A container is left. *)
LEMMA CloseTraced ==
  ASSUME IInv, Tracing, Close
  PROVE  Tracing'
<1> DEFINE n == Len(stack)
<1>1. n \in Nat /\ n \in 1..n /\ stack \in Seq(Frames) /\ stack # <<>>
  BY TypeFacts DEF IInv, TypeOK, Close
<1>2. Len(stack') = n - 1 /\ \A m \in 1..(n - 1) : stack'[m] = stack[m]
  BY <1>1, OnPop DEF Close
<1> HIDE DEF n
<1>3. \A m \in 1..(n - 1) : Framed(heap, opts, stack', m)
  <2>1. ASSUME NEW m \in 1..(n - 1) PROVE Framed(heap, opts, stack', m)
    <3>1. m \in Nat \ {0} /\ 1..m \subseteq 1..(n - 1) /\ m \in 1..n /\ m \in 1..m
      BY <1>1, <2>1
    <3>2. Framed(heap, opts, stack, m)
      BY <3>1 DEF Tracing, n
    <3>3. QED
      BY <1>2, <3>1, <3>2, FramedStill
  <2>2. QED
    BY <2>1
<1>4. UNCHANGED <<heap, opts, err>> /\ pc' = "next"
  BY DEF Close
<1>5. Named'
  BY <1>4, NamedStill DEF Tracing
<1>6. QED
  BY <1>2, <1>3, <1>4, <1>5 DEF Tracing

-----------------------------------------------------------------------------
(* Marshal begins at the root. *)
LEMMA InitTraced == Init => Tracing
<1> SUFFICES ASSUME Init PROVE Tracing
  OBVIOUS
<1>1. stack = <<>> /\ 1..Len(stack) = {} /\ Len(stack) = 0 /\ at = Root /\ Root \in Nodes
  <2>1. stack = <<>> /\ Len(stack) = 0
    BY DEF Init
  <2>2. 1..0 = {}
    OBVIOUS
  <2>3. QED
    BY <2>1, <2>2, EncoderAssumption DEF Init
<1>2. Located(heap, opts, stack, 0, Root)
  <2>1. Root \in Behind(heap, Root) /\ Root \in From(heap, {Root}) /\ 1..0 = {}
    BY <1>1, Begins
  <2>2. QED
    BY <2>1 DEF Located
<1>3. Named
  <2>1. ASSUME NEW k \in DOMAIN Refusals PROVE Refusals[k] # ""
    <3>1. Refusals[k] \in Errors
      BY <2>1 DEF Refusals, Errors
    <3>2. QED
      BY <3>1 DEF Errors
  <2>2. QED
    BY <2>1 DEF Init, Named, ErrorsNameTheCause
<1>4. QED
  BY <1>1, <1>2, <1>3 DEF Init, Tracing

(* Every step keeps track of where the encoder is.                          *)
LEMMA NextTraced ==
  ASSUME IInv, Tracing, [Next]_vars
  PROVE  Tracing'
<1>1. CASE UNCHANGED <<heap, opts, stack, err>> /\ pc' # "value"
  BY <1>1, NamedStill DEF Tracing
<1>2. CASE TooDeep
  BY <1>2, TooDeepTraced
<1>3. CASE WriteLeaf
  BY <1>1, <1>3 DEF WriteLeaf
<1>4. CASE Refuse
  BY <1>4, RefuseTraced
<1>5. CASE Follow
  BY <1>5, FollowTraced
<1>6. CASE Cycle
  BY <1>6, CycleTraced
<1>7. CASE Open
  BY <1>7, OpenTraced
<1>8. CASE Item
  BY <1>8, ItemTraced
<1>9. CASE Unquote
  BY <1>9, UnquoteTraced
<1>10. CASE Close
  BY <1>10, CloseTraced
<1>11. CASE Return
  BY <1>1, <1>11 DEF Return
<1>12. CASE UNCHANGED vars
  BY <1>12, NamedStill DEF vars, Tracing, InTree, Whole, Top
<1>13. QED
  BY <1>2, <1>3, <1>4, <1>5, <1>6, <1>7, <1>8, <1>9, <1>10, <1>11, <1>12 DEF Next

(* So it knows at every error what is wrong.                                *)
LEMMA Traced == Spec => []Tracing
<1>1. IInv /\ Tracing /\ [Next]_vars => Tracing'
  BY NextTraced
<1>2. QED
  BY <1>1, Invariance, InitTraced, PTL DEF Spec

(* Whatever value Marshal refuses, the error code says why: the value goes  *)
(* deeper than MaxDepth before it comes to a slice or map again, a slice or *)
(* map holds itself, or there is something that has no JSON.                *)
THEOREM CausesNamed == Spec => []ErrorsNameTheCause
<1>1. Tracing => ErrorsNameTheCause
  BY DEF Tracing, Named
<1>2. QED
  BY <1>1, Traced, PTL

(* Whatever value Marshal is called with, it succeeds exactly if the value  *)
(* has JSON, and returns what Writing says of it: commas between items      *)
(* only, the members in an order that was asked for, every newline indented *)
(* by the containers that are open, a quoted field escaped and nothing else *)
(* (encode.go 14-123).                                                      *)
THEOREM ValueEncoded == Spec => []EncodesTheValue
<1>1. Spec => []Progresses
  <2>1. IInv /\ Progresses /\ [Next]_vars => Progresses'
    BY NextWrites
  <2>2. QED
    BY <2>1, Invariance, InitWrites, PTL DEF Spec
<1>2. Progresses /\ Tracing => EncodesTheValue
  BY DEF Progresses, Progress, Encoded, EncodesTheValue, Tracing, Named, Has, Outside, Outermost
<1>3. QED
  BY <1>1, <1>2, Traced, PTL

=============================================================================
