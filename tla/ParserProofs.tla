---------------------------- MODULE ParserProofs ----------------------------
(***************************************************************************)
(* Proofs about Parser, for every set of tokens, every MaxDepth, both       *)
(* settings of RejectDuplicateKeys and every bound on the input.            *)
(*                                                                          *)
(* The spans of finished values cannot be reasoned about without the spans  *)
(* still open: the invariant IInv adds, to the properties of Parser, where  *)
(* the calls in progress began and how the finished values lie between      *)
(* them.                                                                    *)
(***************************************************************************)
EXTENDS Parser, SequenceTheorems, TLAPS

(* p.cur is the token read last, from the first advance() until an error. *)
CurIsLast ==
  pc \notin {"start", "error"} => read # <<>> /\ cur = read[Len(read)]

(* Between an opening bracket and its end, array() or object() is running. *)
InsideContainer == pc \in {"first", "next", "key", "colon"} => stack # <<>>

(* A call in progress began at its own opening bracket, inside its caller's *)
(* container, and before the current token.                                 *)
FramesOpen ==
  /\ \A k \in 1..Len(stack) :
       /\ stack[k].start \in 1..(Len(read) - 1)
       /\ read[stack[k].start].kind = Opening(stack[k].kind)
  /\ \A k, l \in 1..Len(stack) : k < l => stack[k].start < stack[l].start

(* A finished value ends before the current token. *)
NodesBehind ==
  \A i \in 1..Len(nodes) :
    1 <= nodes[i].from /\ nodes[i].from <= nodes[i].to /\ nodes[i].to < Len(read)

(* A finished value lies before a container still open, or inside it and    *)
(* then at least as deep as the values directly in it.                      *)
NodesBetween ==
  \A i \in 1..Len(nodes), k \in 1..Len(stack) :
    \/ nodes[i].to < stack[k].start
    \/ stack[k].start < nodes[i].from /\ k <= nodes[i].depth

Spans == FramesOpen /\ NodesBehind /\ NodesBetween /\ SpansMatch /\ SpansNest

IInv == TypeOK /\ CurIsLast /\ InsideContainer /\ Spans /\ DepthBounded /\ UniqueKeys

-----------------------------------------------------------------------------
(* What an advance() does, whichever token it meets. *)
Advanced(next) ==
  /\ \E t \in Tokens : read' = Append(read, t) /\ (pc' # "error" => cur' = t)
  /\ cur' \in Tokens \cup {cur}
  /\ pc' \in {next, "error"}
  /\ err' \in {err, "lexical"}

(* Advance(next), reduced to the facts about it the invariants need. *)
LEMMA AdvanceFacts ==
  ASSUME NEW next, next # "error", Advance(next)
  PROVE  Advanced(next)
BY DEF Advance, Advanced, Fail

(* Appending keeps what a sequence holds and puts the element at its end. *)
LEMMA AppendFacts ==
  ASSUME NEW S, NEW s \in Seq(S), NEW e \in S, NEW r, r = Append(s, e)
  PROVE  /\ r \in Seq(S) /\ r # <<>>
         /\ Len(s) \in Nat /\ Len(r) = Len(s) + 1
         /\ \A i \in 1..Len(s) : r[i] = s[i]
         /\ r[Len(s) + 1] = e
BY AppendProperties

(* Pop removes the last element only. *)
LEMMA PopFacts ==
  ASSUME NEW S, NEW s \in Seq(S), s # <<>>
  PROVE  /\ Pop(s) \in Seq(S)
         /\ Len(s) \in Nat \ {0} /\ Len(Pop(s)) = Len(s) - 1
         /\ \A i \in 1..(Len(s) - 1) : Pop(s)[i] = s[i]
<1>1. Len(s) \in Nat \ {0}
  BY EmptySeq, LenProperties
<1>2. \A i \in 1..(Len(s) - 1) : s[i] \in S
  BY <1>1, ElementOfSeq
<1>. DEFINE n == Len(s) - 1
<1>3. n \in Nat
  BY <1>1
<1>4. /\ SubSeq(s, 1, n) \in Seq(S)
      /\ Len(SubSeq(s, 1, n)) = IF 1 <= n THEN n - 1 + 1 ELSE 0
      /\ \A i \in 1..(n - 1 + 1) : SubSeq(s, 1, n)[i] = s[1 + i - 1]
  <2>. HIDE DEF n
  <2>1. \A i \in 1..n : s[i] \in S
    BY <1>2 DEF n
  <2>. QED  BY <1>3, <2>1, SubSeqProperties
<1>5. \A i \in 1..n : n - 1 + 1 = n /\ 1 + i - 1 = i
  BY <1>3
<1>6. Pop(s) = SubSeq(s, 1, n)
  BY DEF Pop
<1>. HIDE DEF n
<1>7. Len(SubSeq(s, 1, n)) = n
  BY <1>3, <1>4
<1>8. \A i \in 1..n : SubSeq(s, 1, n)[i] = s[i]
  BY <1>3, <1>4, <1>5
<1>. QED  BY <1>1, <1>4, <1>6, <1>7, <1>8 DEF n

(* What TypeOK says of the elements and lengths of the sequences. *)
LEMMA TypeFacts ==
  ASSUME TypeOK
  PROVE  /\ Len(read) \in Nat /\ Len(stack) \in Nat /\ Len(nodes) \in Nat
         /\ \A i \in 1..Len(read) : read[i] \in Tokens
         /\ \A i \in 1..Len(stack) : stack[i] \in FrameSet
         /\ \A i \in 1..Len(nodes) : nodes[i] \in NodeSet
BY LenProperties, ElementOfSeq DEF TypeOK

(* What was read when a token is appended to it. *)
LEMMA ReadGrows ==
  ASSUME TypeOK, NEW t \in Tokens, read' = Append(read, t)
  PROVE  /\ Len(read) \in Nat /\ Len(read') = Len(read) + 1
         /\ \A i \in 1..Len(read) : read'[i] = read[i]
         /\ read'[Len(read')] = t /\ read' \in Seq(Tokens) /\ read' # <<>>
<1>. read \in Seq(Tokens)
  BY DEF TypeOK
<1>. QED  BY AppendFacts

(* The innermost call in progress and the current token. *)
LEMMA TopFacts ==
  ASSUME TypeOK, read # <<>>, stack # <<>>
  PROVE  /\ Len(read) \in Nat \ {0} /\ Len(stack) \in Nat \ {0} /\ Len(nodes) \in Nat
         /\ Top \in FrameSet
<1>1. read \in Seq(Tokens) /\ stack \in Seq(FrameSet)
  BY DEF TypeOK
<1>2. Len(read) # 0 /\ Len(stack) # 0
  BY <1>1, EmptySeq
<1>. QED  BY <1>2, TypeFacts DEF Top

(* The calls still in progress began where they did. *)
LEMMA FramesKept ==
  ASSUME TypeOK, FramesOpen, NEW t \in Tokens, read' = Append(read, t),
         Len(stack') \in Nat, Len(stack') <= Len(stack),
         \A k \in 1..Len(stack') :
           stack'[k].start = stack[k].start /\ stack'[k].kind = stack[k].kind
  PROVE  FramesOpen'
<1>. Len(stack) \in Nat
  BY TypeFacts
<1>1. ASSUME NEW k \in 1..Len(stack')
      PROVE  /\ stack'[k].start \in 1..(Len(read') - 1)
             /\ read'[stack'[k].start].kind = Opening(stack'[k].kind)
  BY <1>1, ReadGrows DEF FramesOpen
<1>2. ASSUME NEW k \in 1..Len(stack'), NEW l \in 1..Len(stack'), k < l
      PROVE  stack'[k].start < stack'[l].start
  BY <1>2 DEF FramesOpen
<1>. QED  BY <1>1, <1>2 DEF FramesOpen, Opening

(* The spans survive another token being read. *)
LEMMA SpansKept ==
  ASSUME TypeOK, Spans, NEW t \in Tokens, read' = Append(read, t),
         UNCHANGED nodes, Len(stack') \in Nat, Len(stack') <= Len(stack),
         \A k \in 1..Len(stack') :
           stack'[k].start = stack[k].start /\ stack'[k].kind = stack[k].kind
  PROVE  Spans'
<1>1. /\ Len(read) \in Nat /\ Len(read') = Len(read) + 1
      /\ \A i \in 1..Len(read) : read'[i] = read[i]
  BY ReadGrows
<1>. Len(stack) \in Nat /\ Len(nodes) \in Nat
  BY TypeFacts
<1>n. \A i \in 1..Len(nodes) : nodes[i] \in NodeSet
  BY TypeFacts
<1>2. FramesOpen'
  BY FramesKept DEF Spans
<1>3. NodesBehind'
  BY <1>1, <1>n DEF Spans, NodesBehind, NodeSet
<1>4. NodesBetween'
  BY DEF Spans, NodesBetween
<1>5. SpansMatch'
  BY <1>1, <1>n DEF Spans, SpansMatch, NodesBehind, NodeSet
<1>6. SpansNest'
  BY DEF Spans, SpansNest
<1>. QED  BY <1>2, <1>3, <1>4, <1>5, <1>6 DEF Spans

(* The spans with one more finished value n, which ends at or before the     *)
(* current token and lies rightly among the others and the open containers. *)
LEMMA SpansGrow ==
  ASSUME TypeOK, Spans, NEW t \in Tokens, read' = Append(read, t),
         Len(stack') \in Nat, Len(stack') <= Len(stack),
         \A k \in 1..Len(stack') :
           stack'[k].start = stack[k].start /\ stack'[k].kind = stack[k].kind,
         NEW n \in NodeSet, nodes' = Append(nodes, n),
         1 <= n.from, n.from <= n.to, n.to <= Len(read),
         IF n.kind \in ScalarKinds
           THEN n.from = n.to /\ read[n.from].kind = n.kind
           ELSE /\ n.from < n.to
                /\ read[n.from].kind = Opening(n.kind) /\ read[n.to].kind = Ending(n.kind),
         \A i \in 1..Len(nodes) :
           \/ nodes[i].to < n.from
           \/ n.from < nodes[i].from /\ nodes[i].to < n.to /\ n.depth < nodes[i].depth,
         \A k \in 1..Len(stack') : stack[k].start < n.from /\ k <= n.depth
  PROVE  Spans'
<1>1. /\ Len(read) \in Nat /\ Len(read') = Len(read) + 1
      /\ \A i \in 1..Len(read) : read'[i] = read[i]
  BY ReadGrows
<1>2. /\ Len(nodes) \in Nat /\ Len(nodes') = Len(nodes) + 1
      /\ \A i \in 1..Len(nodes) : nodes'[i] = nodes[i]
      /\ nodes'[Len(nodes) + 1] = n
  <2>. nodes \in Seq(NodeSet)
    BY DEF TypeOK
  <2>. QED  BY AppendFacts
<1>. Len(stack) \in Nat
  BY TypeFacts
<1>n. \A i \in 1..Len(nodes) : nodes[i] \in NodeSet
  BY TypeFacts
<1>m. \A i \in 1..Len(nodes') : (i \in 1..Len(nodes) /\ nodes'[i] = nodes[i])
                                \/ (i = Len(nodes) + 1 /\ nodes'[i] = n)
  BY <1>2
<1>3. FramesOpen'
  BY FramesKept DEF Spans
<1>4. NodesBehind'
  BY <1>1, <1>n, <1>m DEF Spans, NodesBehind, NodeSet
<1>5. NodesBetween'
  BY <1>m DEF Spans, NodesBetween
<1>6. SpansMatch'
  <2>. SUFFICES ASSUME NEW i \in 1..Len(nodes')
                PROVE  LET m == nodes'[i] IN
                       IF m.kind \in ScalarKinds
                         THEN m.from = m.to /\ read'[m.from].kind = m.kind
                         ELSE /\ m.from < m.to
                              /\ read'[m.from].kind = Opening(m.kind)
                              /\ read'[m.to].kind = Ending(m.kind)
    BY DEF SpansMatch, Opening, Ending
  <2>1. CASE i \in 1..Len(nodes) /\ nodes'[i] = nodes[i]
    <3>1. /\ nodes[i].from \in 1..Len(read) /\ nodes[i].to \in 1..Len(read)
      BY <1>1, <1>n, <2>1 DEF Spans, NodesBehind, NodeSet
    <3>. QED  BY <1>1, <2>1, <3>1 DEF Spans, SpansMatch
  <2>2. CASE nodes'[i] = n
    <3>1. n.from \in 1..Len(read) /\ n.to \in 1..Len(read)
      BY <1>1 DEF NodeSet
    <3>. QED  BY <1>1, <2>2, <3>1
  <2>. QED  BY <1>m, <2>1, <2>2
<1>7. SpansNest'
  <2>. SUFFICES ASSUME NEW i \in 1..Len(nodes'), NEW j \in 1..Len(nodes'), i < j
                PROVE  \/ nodes'[i].to < nodes'[j].from
                       \/ /\ nodes'[j].from < nodes'[i].from
                          /\ nodes'[i].to < nodes'[j].to
                          /\ nodes'[j].depth < nodes'[i].depth
    BY DEF SpansNest
  <2>1. i \in 1..Len(nodes) /\ nodes'[i] = nodes[i]
    BY <1>2
  <2>2. CASE j \in 1..Len(nodes) /\ nodes'[j] = nodes[j]
    BY <2>1, <2>2 DEF Spans, SpansNest
  <2>3. CASE nodes'[j] = n
    BY <2>1, <2>3
  <2>. QED  BY <1>m, <2>2, <2>3
<1>. QED  BY <1>3, <1>4, <1>5, <1>6, <1>7 DEF Spans

(* The spans with one more container open, at the current token. *)
LEMMA SpansOpen ==
  ASSUME TypeOK, Spans, NEW t \in Tokens, read' = Append(read, t), UNCHANGED nodes,
         NEW f \in FrameSet, stack' = Append(stack, f),
         read # <<>>, f.start = Len(read), read[f.start].kind = Opening(f.kind)
  PROVE  Spans'
<1>1. /\ Len(read) \in Nat /\ Len(read') = Len(read) + 1 /\ Len(read) >= 1
      /\ \A i \in 1..Len(read) : read'[i] = read[i]
  <2>1. read \in Seq(Tokens)
    BY DEF TypeOK
  <2>2. Len(read) # 0
    BY <2>1, EmptySeq
  <2>. QED  BY <2>1, <2>2, AppendFacts
<1>2. /\ Len(stack) \in Nat /\ Len(stack') = Len(stack) + 1
      /\ \A k \in 1..Len(stack) : stack'[k] = stack[k]
      /\ stack'[Len(stack) + 1] = f
  <2>. stack \in Seq(FrameSet)
    BY DEF TypeOK
  <2>. QED  BY AppendFacts
<1>. Len(nodes) \in Nat
  BY TypeFacts
<1>n. \A i \in 1..Len(nodes) : nodes[i] \in NodeSet
  BY TypeFacts
<1>m. \A k \in 1..Len(stack') : (k \in 1..Len(stack) /\ stack'[k] = stack[k])
                                \/ (k = Len(stack) + 1 /\ stack'[k] = f)
  BY <1>2
<1>3. FramesOpen'
  <2>1. ASSUME NEW k \in 1..Len(stack')
        PROVE  /\ stack'[k].start \in 1..(Len(read') - 1)
               /\ read'[stack'[k].start].kind = Opening(stack'[k].kind)
    BY <1>1, <1>m, <2>1 DEF Spans, FramesOpen
  <2>2. ASSUME NEW k \in 1..Len(stack'), NEW l \in 1..Len(stack'), k < l
        PROVE  stack'[k].start < stack'[l].start
    BY <1>1, <1>2, <1>m, <2>2 DEF Spans, FramesOpen
  <2>. QED  BY <2>1, <2>2 DEF FramesOpen, Opening
<1>4. NodesBehind'
  BY <1>1, <1>n DEF Spans, NodesBehind, NodeSet
<1>5. NodesBetween'
  BY <1>1, <1>m, <1>n DEF Spans, NodesBetween, NodesBehind, NodeSet
<1>6. SpansMatch'
  BY <1>1, <1>n DEF Spans, SpansMatch, NodesBehind, NodeSet
<1>7. SpansNest'
  BY DEF Spans, SpansNest
<1>. QED  BY <1>3, <1>4, <1>5, <1>6, <1>7 DEF Spans

PCs   == {"start", "value", "first", "next", "item", "key", "colon", "done", "error"}
Codes == {"", "lexical", "EUnexpectedToken", "EExpectedKey", "EDuplicateKey",
          "EMaxDepth", "ETrailingData"}

(* Returning an error, and going on without reading, keep the invariant. *)
LEMMA Staying ==
  ASSUME IInv, UNCHANGED <<read, cur, stack, nodes>>, pc' \in PCs \ {"start"}, err' \in Codes,
         pc # "start", pc # "error",
         pc' \in {"first", "next", "key", "colon"} => stack # <<>>
  PROVE  IInv'
<1>1. TypeOK'
  BY DEF IInv, TypeOK, PCs, Codes
<1>2. CurIsLast' /\ InsideContainer'
  BY DEF IInv, CurIsLast, InsideContainer
<1>3. Spans'
  BY DEF IInv, Spans, FramesOpen, NodesBehind, NodesBetween, SpansMatch, SpansNest
<1>4. DepthBounded' /\ UniqueKeys'
  BY DEF IInv, DepthBounded, UniqueKeys
<1>. QED  BY <1>1, <1>2, <1>3, <1>4 DEF IInv

(* The parts of the invariant that hold after any advance(). *)
LEMMA Reading ==
  ASSUME IInv, NEW next \in PCs \ {"start", "error"}, Advanced(next),
         next \in {"first", "next", "key", "colon"} => stack' # <<>>
  PROVE  /\ read' \in Seq(Tokens)
         /\ cur' \in Tokens \cup {[kind |-> "invalid", data |-> ""]}
         /\ pc' \in PCs /\ err' \in Codes
         /\ CurIsLast' /\ InsideContainer'
<1>1. PICK t \in Tokens : read' = Append(read, t) /\ (pc' # "error" => cur' = t)
  BY DEF Advanced
<1>2. /\ read' \in Seq(Tokens) /\ read' # <<>> /\ read'[Len(read')] = t
  BY <1>1, ReadGrows DEF IInv
<1>3. cur' \in Tokens \cup {[kind |-> "invalid", data |-> ""]}
  BY DEF Advanced, IInv, TypeOK
<1>4. pc' \in PCs /\ err' \in Codes
  BY DEF Advanced, IInv, TypeOK, PCs, Codes
<1>5. CurIsLast'
  BY <1>1, <1>2 DEF CurIsLast
<1>6. InsideContainer'
  BY DEF InsideContainer, Advanced
<1>. QED  BY <1>2, <1>3, <1>4, <1>5, <1>6

(* A punctuation token: nothing but the position moves. *)
LEMMA Passing ==
  ASSUME IInv, NEW next \in PCs \ {"start", "error"}, Advance(next), UNCHANGED <<stack, nodes>>,
         next \in {"first", "next", "key", "colon"} => stack # <<>>
  PROVE  IInv'
<1>1. Advanced(next)
  BY AdvanceFacts DEF PCs
<1>2. TypeOK' /\ CurIsLast' /\ InsideContainer'
  BY <1>1, Reading DEF IInv, TypeOK, PCs, Codes
<1>3. Spans'
  <2>1. PICK t \in Tokens : read' = Append(read, t)
    BY <1>1 DEF Advanced
  <2>. QED  BY <2>1, SpansKept, TypeFacts DEF IInv
<1>4. DepthBounded' /\ UniqueKeys'
  BY DEF IInv, DepthBounded, UniqueKeys
<1>. QED  BY <1>2, <1>3, <1>4 DEF IInv

-----------------------------------------------------------------------------
(* A scalar becomes a node inside the innermost container.                  *)
LEMMA ScalarStep == ASSUME IInv, Scalar PROVE IInv'
<1>. DEFINE n == Node(cur.kind, Here, Here, Depth, <<>>)
<1>1. read # <<>> /\ cur = read[Len(read)]
  BY DEF Scalar, IInv, CurIsLast
<1>2. Len(read) \in Nat \ {0} /\ Len(stack) \in Nat /\ Len(nodes) \in Nat
  BY <1>1, TypeFacts, EmptySeq DEF IInv, TypeOK
<1>3. n \in NodeSet
  <2>. <<>> \in Seq(KeySet)
    OBVIOUS
  <2>. QED  BY <1>2 DEF Scalar, Node, Here, Depth, NodeSet
<1>4. Advanced("item") /\ UNCHANGED stack /\ nodes' \in {nodes, Append(nodes, n)}
  BY AdvanceFacts DEF Scalar, Construct
<1>5. CurIsLast' /\ InsideContainer' /\ TypeOK'
  <2>1. Append(nodes, n) \in Seq(NodeSet)
    BY <1>3, AppendFacts DEF IInv, TypeOK
  <2>. QED  BY <1>4, <2>1, Reading DEF IInv, TypeOK, PCs, Codes
<1>6. Spans'
  <2>1. PICK t \in Tokens : read' = Append(read, t)
    BY <1>4 DEF Advanced
  <2>2. CASE nodes' = nodes
    BY <1>2, <1>4, <2>1, <2>2, SpansKept DEF IInv
  <2>3. CASE nodes' = Append(nodes, n)
    <3>1. /\ n.kind = cur.kind /\ n.from = Len(read) /\ n.to = Len(read) /\ n.depth = Len(stack)
      BY DEF Node, Here, Depth
    <3>2. n.kind \in ScalarKinds /\ read[n.from].kind = n.kind
      BY <1>1, <3>1 DEF Scalar
    <3>3. \A i \in 1..Len(nodes) : nodes[i].to < n.from
      BY <3>1 DEF IInv, Spans, NodesBehind
    <3>4. \A k \in 1..Len(stack') : stack[k].start < n.from /\ k <= n.depth
      BY <1>2, <1>4, <3>1 DEF IInv, Spans, FramesOpen
    <3>. HIDE DEF n
    <3>. QED  BY <1>2, <1>3, <1>4, <2>1, <2>3, <3>1, <3>2, <3>3, <3>4, SpansGrow DEF IInv
  <2>. QED  BY <1>4, <2>2, <2>3
<1>7. DepthBounded' /\ UniqueKeys'
  <2>1. n.depth <= MaxDepth /\ n.keys = <<>>
    BY DEF Scalar, InDepth, Node, Depth
  <2>2. IsInjective(<<>>)
    BY DEF IsInjective
  <2>3. \A i \in 1..Len(nodes') : nodes'[i] = n \/ (i \in 1..Len(nodes) /\ nodes'[i] = nodes[i])
    <3>. nodes \in Seq(NodeSet)
      BY DEF IInv, TypeOK
    <3>. HIDE DEF n
    <3>. QED  BY <1>2, <1>3, <1>4, AppendFacts
  <2>. HIDE DEF n
  <2>. QED  BY <1>4, <2>1, <2>2, <2>3 DEF IInv, DepthBounded, UniqueKeys
<1>. QED  BY <1>5, <1>6, <1>7 DEF IInv

(* An opening bracket pushes a frame, and opens no value deeper than allowed. *)
LEMMA OpenStep ==
  ASSUME IInv, NEW kind \in {"array", "object"}, Open(Opening(kind), kind)
  PROVE  IInv'
<1>. DEFINE f == Frame(kind, Here)
<1>1. read # <<>> /\ cur = read[Len(read)]
  BY DEF Open, IInv, CurIsLast
<1>2. Len(read) \in Nat \ {0} /\ Len(stack) \in Nat /\ Len(nodes) \in Nat
  BY <1>1, TypeFacts, EmptySeq DEF IInv, TypeOK
<1>3. f \in FrameSet /\ f.start = Len(read) /\ f.kind = kind /\ f.keys = <<>>
  <2>. <<>> \in Seq(KeySet)
    OBVIOUS
  <2>. QED  BY <1>2 DEF Frame, Here, FrameSet
<1>. HIDE DEF f
<1>4. Advanced("first") /\ UNCHANGED nodes /\ stack' = Append(stack, f)
  BY AdvanceFacts DEF Open, f
<1>5. /\ stack' \in Seq(FrameSet) /\ stack' # <<>> /\ Len(stack') = Len(stack) + 1
      /\ \A k \in 1..Len(stack') : stack'[k] = f \/ (k \in 1..Len(stack) /\ stack'[k] = stack[k])
  <2>. stack \in Seq(FrameSet)
    BY DEF IInv, TypeOK
  <2>. QED  BY <1>2, <1>3, <1>4, AppendFacts
<1>6. CurIsLast' /\ InsideContainer' /\ TypeOK'
  BY <1>4, <1>5, Reading DEF IInv, TypeOK, PCs, Codes
<1>7. Spans'
  <2>1. PICK t \in Tokens : read' = Append(read, t)
    BY <1>4 DEF Advanced
  <2>2. read[f.start].kind = Opening(f.kind)
    BY <1>1, <1>3 DEF Open
  <2>. QED  BY <1>1, <1>3, <1>4, <2>1, <2>2, SpansOpen DEF IInv
<1>8. DepthBounded' /\ UniqueKeys'
  <2>1. Len(stack) <= MaxDepth
    BY DEF Open, InDepth, Depth
  <2>2. IsInjective(<<>>)
    BY DEF IsInjective
  <2>. QED  BY <1>2, <1>3, <1>4, <1>5, <2>1, <2>2, ParserAssumption DEF IInv, DepthBounded, UniqueKeys
<1>. QED  BY <1>6, <1>7, <1>8 DEF IInv

(* A closing bracket turns the frame into a node around all later nodes.    *)
LEMMA CloseStep == ASSUME IInv, Close PROVE IInv'
<1>. DEFINE n == Node(Top.kind, Top.start, Here, Depth - 1, Top.keys)
<1>1. read # <<>> /\ cur = read[Len(read)] /\ stack # <<>>
  BY DEF Close, IInv, CurIsLast
<1>2. /\ Len(read) \in Nat \ {0} /\ Len(stack) \in Nat \ {0} /\ Len(nodes) \in Nat
      /\ Top \in FrameSet
  BY <1>1, TopFacts DEF IInv
<1>3. /\ n \in NodeSet /\ n.kind = Top.kind /\ n.from = Top.start /\ n.to = Len(read)
      /\ n.depth = Len(stack) - 1 /\ n.keys = Top.keys
  BY <1>2 DEF Node, Here, Depth, NodeSet, FrameSet
<1>. HIDE DEF n
<1>4. Advanced("item") /\ stack' = Pop(stack) /\ nodes' \in {nodes, Append(nodes, n)}
  BY AdvanceFacts DEF Close, Construct, n
<1>5. /\ stack' \in Seq(FrameSet) /\ Len(stack') = Len(stack) - 1
      /\ \A k \in 1..Len(stack') : stack'[k] = stack[k]
  BY <1>1, <1>4, PopFacts DEF IInv, TypeOK
<1>6. CurIsLast' /\ InsideContainer' /\ TypeOK'
  <2>1. Append(nodes, n) \in Seq(NodeSet)
    BY <1>3, AppendFacts DEF IInv, TypeOK
  <2>. QED  BY <1>4, <1>5, <2>1, Reading DEF IInv, TypeOK, PCs, Codes
<1>7. Spans'
  <2>1. PICK t \in Tokens : read' = Append(read, t)
    BY <1>4 DEF Advanced
  <2>2. /\ Len(stack') \in Nat /\ Len(stack') <= Len(stack)
        /\ \A k \in 1..Len(stack') :
             stack'[k].start = stack[k].start /\ stack'[k].kind = stack[k].kind
    BY <1>2, <1>5
  <2>3. CASE nodes' = nodes
    BY <2>1, <2>2, <2>3, SpansKept DEF IInv
  <2>4. CASE nodes' = Append(nodes, n)
    <3>1. /\ Top.start \in 1..(Len(read) - 1)
          /\ read[Top.start].kind = Opening(Top.kind)
      BY <1>2 DEF IInv, Spans, FramesOpen, Top
    <3>2. read[Len(read)].kind = Ending(Top.kind)
      BY <1>1 DEF Close, Closing, Ending
    <3>3. 1 <= n.from /\ n.from <= n.to /\ n.to <= Len(read) /\ n.from < n.to
      BY <1>2, <1>3, <3>1
    <3>4. n.kind \notin ScalarKinds
      BY <1>2, <1>3 DEF FrameSet, ScalarKinds
    <3>5. ASSUME NEW i \in 1..Len(nodes)
          PROVE  \/ nodes[i].to < n.from
                 \/ n.from < nodes[i].from /\ nodes[i].to < n.to /\ n.depth < nodes[i].depth
      <4>1. /\ nodes[i].to < Len(read)
            /\ \/ nodes[i].to < Top.start
               \/ Top.start < nodes[i].from /\ Len(stack) <= nodes[i].depth
        BY <1>2 DEF IInv, Spans, NodesBehind, NodesBetween, Top
      <4>2. nodes[i] \in NodeSet
        BY TypeFacts DEF IInv
      <4>. QED  BY <1>2, <1>3, <4>1, <4>2 DEF NodeSet
    <3>6. ASSUME NEW k \in 1..Len(stack')
          PROVE  stack[k].start < n.from /\ k <= n.depth
      BY <1>2, <1>3, <1>5, <3>6 DEF IInv, Spans, FramesOpen, Top
    <3>. QED  BY <1>3, <2>1, <2>2, <2>4, <3>1, <3>2, <3>3, <3>4, <3>5, <3>6, SpansGrow DEF IInv
  <2>. QED  BY <1>4, <2>3, <2>4
<1>8. DepthBounded' /\ UniqueKeys'
  <2>1. n.depth <= MaxDepth
    BY <1>2, <1>3, ParserAssumption DEF IInv, DepthBounded
  <2>2. \A i \in 1..Len(nodes') : nodes'[i] = n \/ (i \in 1..Len(nodes) /\ nodes'[i] = nodes[i])
    <3>. nodes \in Seq(NodeSet)
      BY DEF IInv, TypeOK
    <3>. QED  BY <1>2, <1>3, <1>4, AppendFacts
  <2>3. RejectDuplicateKeys => IsInjective(n.keys)
    BY <1>2, <1>3 DEF IInv, UniqueKeys, Top
  <2>4. DepthBounded'
    BY <1>2, <1>5, <2>1, <2>2, ParserAssumption DEF IInv, DepthBounded
  <2>5. UniqueKeys'
    BY <1>2, <1>5, <2>2, <2>3 DEF IInv, UniqueKeys
  <2>. QED  BY <2>4, <2>5
<1>. QED  BY <1>6, <1>7, <1>8 DEF IInv

(* One more key, new to the object when duplicates are rejected. *)
LEMMA KeyStep == ASSUME IInv, Key PROVE IInv'
<1>. DEFINE d == Len(stack)
            f == [Top EXCEPT !.keys = Append(Top.keys, cur.data)]
<1>1. read # <<>> /\ cur = read[Len(read)] /\ stack # <<>>
  BY DEF Key, IInv, CurIsLast, InsideContainer
<1>2. /\ Len(read) \in Nat \ {0} /\ d \in Nat \ {0} /\ Len(nodes) \in Nat
      /\ Top \in FrameSet /\ stack \in Seq(FrameSet) /\ cur \in Tokens
  <2>1. read[Len(read)] \in Tokens
    BY <1>1, TopFacts, TypeFacts DEF IInv
  <2>. QED  BY <1>1, <2>1, TopFacts DEF IInv, TypeOK
<1>3. cur.data \in KeySet
  BY <1>2 DEF KeySet
<1>4. /\ Top.keys \in Seq(KeySet) /\ Append(Top.keys, cur.data) \in Seq(KeySet)
  BY <1>2, <1>3, AppendFacts DEF FrameSet
<1>5. f \in FrameSet /\ f.start = Top.start /\ f.kind = Top.kind
      /\ f.keys = Append(Top.keys, cur.data)
  BY <1>2, <1>4 DEF FrameSet
<1>. HIDE DEF f
<1>6. Advanced("colon") /\ stack' = [stack EXCEPT ![d] = f] /\ UNCHANGED nodes
  BY AdvanceFacts DEF Key, Top, f
<1>7. /\ stack' \in Seq(FrameSet) /\ Len(stack') = d
      /\ \A k \in 1..d : stack'[k] = IF k = d THEN f ELSE stack[k]
  BY <1>2, <1>5, <1>6, ExceptSeq
<1>8. stack' # <<>>
  BY <1>2, <1>7
<1>9. CurIsLast' /\ InsideContainer' /\ TypeOK'
  BY <1>6, <1>7, <1>8, Reading DEF IInv, TypeOK, PCs, Codes
<1>10. Spans'
  <2>1. PICK t \in Tokens : read' = Append(read, t)
    BY <1>6 DEF Advanced
  <2>2. \A k \in 1..Len(stack') :
           stack'[k].start = stack[k].start /\ stack'[k].kind = stack[k].kind
    BY <1>5, <1>7 DEF Top
  <2>3. TypeOK /\ Spans
    BY DEF IInv
  <2>4. Len(stack') \in Nat /\ Len(stack') <= Len(stack) /\ UNCHANGED nodes
    BY <1>2, <1>6, <1>7
  <2>. QED  BY <2>1, <2>2, <2>3, <2>4, SpansKept
<1>11. DepthBounded' /\ UniqueKeys'
  <2>1. RejectDuplicateKeys => IsInjective(Append(Top.keys, cur.data))
    <3>. SUFFICES ASSUME RejectDuplicateKeys
                  PROVE  IsInjective(Append(Top.keys, cur.data))
      OBVIOUS
    <3>. DEFINE ks == Top.keys
                es == Append(ks, cur.data)
    <3>1. IsInjective(ks)
      BY <1>2 DEF IInv, UniqueKeys, Top
    <3>2. DOMAIN ks = 1..Len(ks) /\ DOMAIN es = 1..Len(es)
      BY <1>4, LenProperties
    <3>3. /\ Len(ks) \in Nat /\ Len(es) = Len(ks) + 1
          /\ \A i \in 1..Len(ks) : es[i] = ks[i]
          /\ es[Len(ks) + 1] = cur.data
      BY <1>3, <1>4, AppendFacts
    <3>4. \A i \in DOMAIN ks : ks[i] # cur.data
      BY DEF Key, Duplicate, Seen, Range
    <3>. HIDE DEF ks, es
    <3>5. IsInjective(es)
      BY <3>1, <3>2, <3>3, <3>4 DEF IsInjective
    <3>. QED  BY <3>5 DEF es, ks
  <2>2. UniqueKeys'
    BY <1>5, <1>6, <1>7, <2>1 DEF IInv, UniqueKeys
  <2>3. DepthBounded'
    BY <1>6, <1>7 DEF IInv, DepthBounded
  <2>. QED  BY <2>2, <2>3
<1>. QED  BY <1>9, <1>10, <1>11 DEF IInv

-----------------------------------------------------------------------------
(* Parse starts with no nodes and no calls.                                 *)
LEMMA InitIInv == ASSUME Init PROVE IInv
<1>1. TypeOK
  <2>1. <<>> \in Seq(Tokens) /\ <<>> \in Seq(FrameSet) /\ <<>> \in Seq(NodeSet)
    OBVIOUS
  <2>. QED  BY <2>1 DEF Init, TypeOK
<1>2. Len(stack) = 0 /\ Len(nodes) = 0 /\ pc = "start"
  BY DEF Init
<1>3. CurIsLast /\ InsideContainer
  BY <1>2 DEF CurIsLast, InsideContainer
<1>4. Spans
  BY <1>2 DEF Spans, FramesOpen, NodesBehind, NodesBetween, SpansMatch, SpansNest
<1>5. DepthBounded /\ UniqueKeys
  BY <1>2, ParserAssumption DEF DepthBounded, UniqueKeys
<1>. QED  BY <1>1, <1>3, <1>4, <1>5 DEF IInv

(* Every step of the parser keeps the invariant. *)
LEMMA NextIInv == ASSUME IInv, [Next]_vars PROVE IInv'
<1>1. CASE Start
  BY <1>1, Passing DEF Start, PCs
<1>2. CASE TooDeep \/ NoValue
  BY <1>2, Staying DEF TooDeep, NoValue, Reject, Fail, PCs, Codes
<1>3. CASE Scalar
  BY <1>3, ScalarStep
<1>4. CASE Open("[", "array") \/ Open("{", "object")
  BY <1>4, OpenStep DEF Opening
<1>5. CASE Enter
  <2>. stack # <<>>
    BY <1>5 DEF Enter, IInv, InsideContainer
  <2>. QED  BY <1>5, Staying DEF Enter, Goto, PCs, Codes, IInv, TypeOK
<1>6. CASE TrailingComma \/ NoSeparator
  BY <1>6, Staying DEF TrailingComma, NoSeparator, Reject, Fail, PCs, Codes
<1>7. CASE Close
  BY <1>7, CloseStep
<1>8. CASE Comma
  BY <1>8, Passing DEF Comma, PCs
<1>9. CASE NoKey \/ DuplicateKey \/ NoColon
  BY <1>9, Staying DEF NoKey, DuplicateKey, NoColon, Reject, Fail, PCs, Codes
<1>10. CASE Key
  BY <1>10, KeyStep
<1>11. CASE Colon
  BY <1>11, Passing DEF Colon, PCs
<1>12. CASE Finish
  BY <1>12, Staying DEF Finish, Goto, PCs, Codes, IInv, TypeOK
<1>13. CASE TrailingData
  BY <1>13, Staying DEF TrailingData, Reject, Fail, PCs, Codes
<1>14. CASE UNCHANGED vars
  BY <1>14 DEF vars, IInv, TypeOK, CurIsLast, InsideContainer, Spans, FramesOpen,
    NodesBehind, NodesBetween, SpansMatch, SpansNest, DepthBounded, UniqueKeys
<1>. QED
  BY <1>1, <1>2, <1>3, <1>4, <1>5, <1>6, <1>7, <1>8, <1>9, <1>10, <1>11, <1>12, <1>13, <1>14
  DEF Next, Value, Items, Member

(* The invariant is inductive.                                              *)
LEMMA Invariance == Spec => []IInv
BY InitIInv, NextIInv, PTL DEF Spec

(* The parser's variables keep their types, whatever tokens arrive. *)
THEOREM TypeCorrect == Spec => []TypeOK
BY Invariance, PTL DEF IInv

(* Raw() slices of any two values nest or are disjoint, and each is cut at  *)
(* its own brackets, for every input.                                       *)
THEOREM SpansCorrect == Spec => [](SpansMatch /\ SpansNest)
BY Invariance, PTL DEF IInv, Spans

(* MaxDepth bounds the recursion and the tree, for every input and limit.   *)
THEOREM DepthCorrect == Spec => []DepthBounded
BY Invariance, PTL DEF IInv

(* With RejectDuplicateKeys no object keeps a duplicate key.                *)
THEOREM KeysCorrect == Spec => []UniqueKeys
BY Invariance, PTL DEF IInv

=============================================================================
