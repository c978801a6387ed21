-------------------------- MODULE ParserTreeProofs --------------------------
(***************************************************************************)
(* Proof that the parser builds the parse tree of its document (IsParseTree *)
(* of Parser) and refuses no text that has one but for a limit              *)
(* (RefusesOnlyForLimits of ParseTree), for every input and all limits.     *)
(*                                                                          *)
(* Finished containers are derived as the grammar has it because every open *)
(* one grows that way: the invariant Tree says, of each array() or object() *)
(* call in progress, that its children so far form a chain from the opening *)
(* bracket up to the place where the next child is to begin, and how much   *)
(* of that child's key has been read.                                       *)
(***************************************************************************)
EXTENDS ParserProofs, ParseTree, FiniteSetTheorems

(* What is directly in the finished value n, by index, and Derived of n in  *)
(* the tree built so far.                                                   *)
ChildrenOf(n) ==
  {nodes[j] : j \in {j \in 1..Len(nodes) : /\ n.from < nodes[j].from /\ nodes[j].to < n.to
                                          /\ nodes[j].depth = n.depth + 1}}

Built(n) ==
  /\ IF ChildrenOf(n) = {} THEN n.to = n.from + 1
     ELSE \E c \in ChildrenOf(n) : c.from = n.from + Lead(n.kind)
  /\ \A c \in ChildrenOf(n) :
       /\ c.from >= n.from + Lead(n.kind)
       /\ \/ c.to + 1 = n.to
          \/ /\ IsComma(read[c.to + 1])
             /\ \E d \in ChildrenOf(n) : d.from = c.to + 1 + Lead(n.kind)
  /\ n.kind = "object" =>
       /\ \A c \in ChildrenOf(n) : read[c.from - 2].kind = "string" /\ read[c.from - 1].kind = ":"
       /\ Range(n.keys) = {read[c.from - 2].data : c \in ChildrenOf(n)}

(* The values directly in the k-th call in progress. *)
Kids(k) ==
  {nodes[j] : j \in {j \in 1..Len(nodes) : stack[k].start < nodes[j].from /\ nodes[j].depth = k}}

(* The children kids of the open container s are chained up to the place f  *)
(* where the next one begins: each is followed by a comma, the one that     *)
(* ends before the token end perhaps not yet.  Of the next one's key and    *)
(* colon the first named tokens have been read.                             *)
Chained(s, kids, f, end, r) ==
  /\ f \in Nat /\ f >= s.start + Lead(s.kind)
  /\ IF kids = {} THEN f = s.start + Lead(s.kind)
     ELSE \E c \in kids : c.from = s.start + Lead(s.kind)
  /\ \A c \in kids :
       /\ c.from >= s.start + Lead(s.kind)
       /\ c.to + 1 + Lead(s.kind) = f \/ \E d \in kids : d.from = c.to + 1 + Lead(s.kind)
       /\ c.to + 1 = end \/ IsComma(r[c.to + 1])

Keyed(s, kids, f, named, r) ==
  /\ \A c \in kids : r[c.from - 2].kind = "string" /\ r[c.from - 1].kind = ":"
  /\ named >= 1 => r[f - 2].kind = "string"
  /\ named = 2 => r[f - 1].kind = ":"
  /\ Range(s.keys) = {r[c.from - 2].data : c \in kids}
                     \cup (IF named >= 1 THEN {r[f - 2].data} ELSE {})

Grows(s, kids, f, end, named, r) ==
  /\ Chained(s, kids, f, end, r)
  /\ s.kind = "object" => Keyed(s, kids, f, named, r)

(* The innermost call, from where its code stands. *)
Frontier ==
  CASE pc = "value" -> Here
    [] pc = "colon" -> Here + 1
    [] pc = "key"   -> Here + 2
    [] pc \in {"first", "next"} -> Here - 1 + Lead(Top.kind)
    [] pc = "item"  -> Here + Lead(Top.kind)

Fresh    == IF pc = "item" THEN Here ELSE 0
KeyParts == IF pc = "value" THEN 2 ELSE IF pc = "colon" THEN 1 ELSE 0

FramesGrow ==
  /\ \A k \in 1..(Len(stack) - 1) : Grows(stack[k], Kids(k), stack[k + 1].start, 0, 2, read)
  /\ stack # <<>> => Grows(Top, Kids(Len(stack)), Frontier, Fresh, KeyParts, read)

NodesDerived == \A i \in 1..Len(nodes) : nodes[i].kind \notin ScalarKinds => Built(nodes[i])

(* What the token before the current one may be, and where the root is. *)
Placed ==
  /\ pc = "start" => Here = 0 /\ nodes = <<>>
  /\ pc = "first" => Here = Top.start + 1
  /\ pc \in {"value", "first", "next", "key"} => Here = 1 \/ read[Here - 1].kind \notin ScalarKinds
  /\ pc = "colon" => read[Here - 1].kind = "string"
  /\ pc \in {"first", "next", "key", "colon", "item"} => Here > 1
  /\ pc \in {"start", "done"} => stack = <<>>
  /\ stack # <<>> => stack[1].start = 1
  /\ pc = "value" /\ stack = <<>> => Here = 1
  /\ pc \in {"item", "done"} /\ stack = <<>> =>
       nodes # <<>> /\ nodes[Len(nodes)].from = 1 /\ nodes[Len(nodes)].to = Here - 1
  /\ pc = "done" => cur.kind = "EOF"

Starts == {nodes[i].from : i \in 1..Len(nodes)} \cup {stack[k].start : k \in 1..Len(stack)}

(* The tokens before the current one that begin a value. *)
Begun ==
  {i \in 1..(Here - 1) :
     \/ IsOpening(read[i])
     \/ read[i].kind \in ScalarKinds /\ (IF i = Here - 1 THEN pc \in {"item", "done"}
                                         ELSE read[i + 1].kind # ":")}

BeginsHere(next) == \/ IsOpening(read[Here])
                    \/ read[Here].kind \in ScalarKinds /\ next \in {"item", "done"}

Around(n) == {k \in 1..Len(stack) : stack[k].start < n.from}

DepthsCounted ==
  \A i \in 1..Len(nodes) :
    Cardinality(Enclosing(nodes[i])) + Cardinality(Around(nodes[i])) = nodes[i].depth + 1

Tree ==
  /\ NodesDerived
  /\ pc # "error" => FramesGrow /\ Placed /\ DepthsCounted
  /\ pc \notin {"start", "error"} => Starts = Begun

-----------------------------------------------------------------------------
(* Punctuation begins no value and is no key. *)
LEMMA Punctuation ==
  ASSUME NEW t
  PROVE  /\ IsComma(t) => t.kind # ":" /\ t.kind \notin ScalarKinds /\ ~ IsOpening(t)
         /\ t.kind = ":" => t.kind \notin ScalarKinds /\ ~ IsOpening(t)
         /\ IsOpening(t) => t.kind \notin ScalarKinds /\ t.kind # ":"
         /\ t.kind \in ScalarKinds => t.kind # ":" /\ ~ IsOpening(t)
BY Zenon DEF IsComma, IsOpening, ScalarKinds

(* A value that has ended before the token h. *)
Past(h) == {n \in NodeSet : 1 <= n.from /\ n.from <= n.to /\ n.to < h}

(* The token sequences r that go on after their first h tokens. *)
Extends(r, q) == \A i \in 1..Len(q) : r[i] = q[i]

(* The comma after a child. *)
LEMMA CommaAdded ==
  ASSUME NEW h, NEW q, NEW s, NEW kids, NEW f, NEW named, Grows(s, kids, f, h, named, q),
         IsComma(q[h])
  PROVE  Grows(s, kids, f, 0, named, q)
BY DEF Grows, Chained

(* Nothing about an open container changes while its child is read. *)
LEMMA GrowsKept ==
  ASSUME NEW h \in Nat, NEW q, Len(q) = h, NEW r, Extends(r, q),
         NEW s \in FrameSet, s.start \in 1..h,
         NEW kids \in SUBSET Past(h), NEW f \in Nat, NEW named \in 0..2, named >= 1 => f <= h + 1,
         Grows(s, kids, f, 0, named, q)
  PROVE  Grows(s, kids, f, 0, named, r)
<1>1. Lead(s.kind) \in {1, 3} /\ (s.kind = "object" => Lead(s.kind) = 3)
  BY DEF Lead, FrameSet
<1>2. ASSUME NEW c \in kids
      PROVE  /\ c.from \in Nat /\ c.to \in Nat /\ c.to + 1 \in 1..h /\ c.from <= h
             /\ c.from >= s.start + Lead(s.kind)
  <2>1. c.from >= s.start + Lead(s.kind)
    BY DEF Grows, Chained
  <2>2. c.from \in Nat /\ c.to \in Nat /\ c.from <= c.to /\ c.to < h
    BY DEF Past, NodeSet
  <2>. QED  BY <2>1, <2>2
<1>3. Chained(s, kids, f, 0, r)
  <2>1. \A c \in kids : c.to + 1 # 0 /\ r[c.to + 1] = q[c.to + 1]
    BY <1>2 DEF Extends
  <2>2. \A c \in kids : IsComma(r[c.to + 1])
    BY <2>1 DEF Grows, Chained
  <2>. QED  BY <2>2 DEF Grows, Chained
<1>4. ASSUME s.kind = "object" PROVE Keyed(s, kids, f, named, r)
  <2>1. ASSUME NEW c \in kids PROVE c.from - 2 \in 1..h /\ c.from - 1 \in 1..h
    BY <1>1, <1>2, <1>4
  <2>2. named >= 1 => f - 2 \in 1..h /\ f - 1 \in 1..h
    <3>1. f \in Nat /\ f >= s.start + Lead(s.kind)
      BY DEF Grows, Chained
    <3>. QED  BY <1>1, <1>4, <3>1
  <2>3. Keyed(s, kids, f, named, q)
    BY <1>4 DEF Grows
  <2>4. /\ \A c \in kids : r[c.from - 2] = q[c.from - 2] /\ r[c.from - 1] = q[c.from - 1]
        /\ named >= 1 => r[f - 2] = q[f - 2] /\ r[f - 1] = q[f - 1]
    BY <2>1, <2>2 DEF Extends
  <2>5. {r[c.from - 2].data : c \in kids} = {q[c.from - 2].data : c \in kids}
    BY <2>4
  <2>. QED  BY <2>3, <2>4, <2>5 DEF Keyed
<1>. QED  BY <1>3, <1>4 DEF Grows

(* The child that began at the frontier ends at the token h. *)
LEMMA ChildAdded ==
  ASSUME NEW h \in Nat, NEW q, Len(q) = h, NEW r, Extends(r, q),
         NEW s \in FrameSet, s.start \in 1..h,
         NEW kids \in SUBSET Past(h), NEW f \in Nat, f <= h, Grows(s, kids, f, 0, 2, q),
         NEW n \in NodeSet, n.from = f, n.to = h
  PROVE  Grows(s, kids \cup {n}, h + 1 + Lead(s.kind), h + 1, 0, r)
<1>. DEFINE all == kids \cup {n}
<1>1. Lead(s.kind) \in {1, 3} /\ (s.kind = "object" => Lead(s.kind) = 3)
  BY DEF Lead, FrameSet
<1>2. Grows(s, kids, f, 0, 2, r)
  BY GrowsKept
<1>3. Chained(s, all, h + 1 + Lead(s.kind), h + 1, r)
  <2>1. \E c \in all : c.from = s.start + Lead(s.kind)
    BY <1>2 DEF Grows, Chained
  <2>2. ASSUME NEW c \in kids
        PROVE  /\ c.from >= s.start + Lead(s.kind)
               /\ \E d \in all : d.from = c.to + 1 + Lead(s.kind)
               /\ IsComma(r[c.to + 1])
    <3>1. c.to \in Nat /\ c.to + 1 # 0
      BY DEF Past, NodeSet
    <3>. QED  BY <1>2, <3>1 DEF Grows, Chained
  <2>3. n.from >= s.start + Lead(s.kind)
    BY <1>2 DEF Grows, Chained
  <2>4. n.to + 1 + Lead(s.kind) = h + 1 + Lead(s.kind) /\ n.to + 1 = h + 1
    OBVIOUS
  <2>5. /\ h + 1 + Lead(s.kind) \in Nat
        /\ h + 1 + Lead(s.kind) >= s.start + Lead(s.kind)
    BY <1>1
  <2>. QED  BY <2>1, <2>2, <2>3, <2>4, <2>5 DEF Chained
<1>4. ASSUME s.kind = "object" PROVE Keyed(s, all, h + 1 + Lead(s.kind), 0, r)
  BY <1>2, <1>4 DEF Grows, Keyed
<1>. QED  BY <1>3, <1>4 DEF Grows

(* Appending adds the element to what a sequence holds. *)
LEMMA AppendRange ==
  ASSUME NEW S, NEW s \in Seq(S), NEW e \in S
  PROVE  Range(Append(s, e)) = Range(s) \cup {e}
<1>. DEFINE r == Append(s, e)
<1>1. /\ r \in Seq(S) /\ Len(s) \in Nat /\ Len(r) = Len(s) + 1
      /\ \A i \in 1..Len(s) : r[i] = s[i]
      /\ r[Len(s) + 1] = e
  BY AppendFacts
<1>2. Range(r) = {r[i] : i \in 1..Len(r)} /\ Range(s) = {s[i] : i \in 1..Len(s)}
  BY <1>1, LenProperties DEF Range
<1>. HIDE DEF r
<1>3. \A i \in 1..Len(r) : i \in 1..Len(s) \/ i = Len(s) + 1
  BY <1>1
<1>4. \A v : v \in Range(r) => v \in Range(s) \cup {e}
  BY <1>1, <1>2, <1>3
<1>5. \A v : v \in Range(s) \cup {e} => v \in Range(r)
  BY <1>1, <1>2
<1>6. Range(r) = Range(s) \cup {e}
  BY <1>4, <1>5
<1>. QED  BY <1>6 DEF r

(* The key of the next child has been read. *)
LEMMA KeyAdded ==
  ASSUME NEW h \in Nat, NEW q, Len(q) = h, NEW r, Extends(r, q),
         NEW s \in FrameSet, s.start \in 1..h,
         NEW kids \in SUBSET Past(h), Grows(s, kids, h + 2, 0, 0, q),
         q[h].kind = "string", NEW z, z = [s EXCEPT !.keys = Append(s.keys, q[h].data)],
         q[h].data \in KeySet
  PROVE  Grows(z, kids, h + 2, 0, 1, r)
<1>1. Grows(s, kids, h + 2, 0, 0, r)
  BY GrowsKept
<1>2. z.start = s.start /\ z.kind = s.kind /\ z.keys = Append(s.keys, q[h].data)
  BY DEF FrameSet
<1>3. Range(z.keys) = Range(s.keys) \cup {q[h].data}
  <2>1. s.keys \in Seq(KeySet)
    BY DEF FrameSet
  <2>. QED  BY <1>2, <2>1, AppendRange
<1>4. r[h] = q[h]
  BY DEF Extends
<1>5. Chained(z, kids, h + 2, 0, r)
  BY <1>1, <1>2 DEF Grows, Chained
<1>6. ASSUME s.kind = "object" PROVE Keyed(z, kids, h + 2, 1, r)
  <2>1. h + 2 - 2 = h
    OBVIOUS
  <2>2. Range(s.keys) = {r[c.from - 2].data : c \in kids}
    BY <1>1, <1>6 DEF Grows, Keyed
  <2>3. \A c \in kids : r[c.from - 2].kind = "string" /\ r[c.from - 1].kind = ":"
    BY <1>1, <1>6 DEF Grows, Keyed
  <2>. QED  BY <1>3, <1>4, <2>1, <2>2, <2>3 DEF Keyed
<1>. QED  BY <1>2, <1>5, <1>6 DEF Grows

(* And its colon. *)
LEMMA ColonAdded ==
  ASSUME NEW h \in Nat, NEW q, Len(q) = h, NEW r, Extends(r, q),
         NEW s \in FrameSet, s.start \in 1..h,
         NEW kids \in SUBSET Past(h), Grows(s, kids, h + 1, 0, 1, q), q[h].kind = ":"
  PROVE  Grows(s, kids, h + 1, 0, 2, r)
<1>1. Grows(s, kids, h + 1, 0, 1, r)
  BY GrowsKept
<1>2. r[h] = q[h] /\ h + 1 - 1 = h
  BY DEF Extends
<1>3. s.kind = "object" => Keyed(s, kids, h + 1, 2, r)
  BY <1>1, <1>2 DEF Grows, Keyed
<1>4. Chained(s, kids, h + 1, 0, r)
  BY <1>1 DEF Grows
<1>. QED  BY <1>3, <1>4 DEF Grows

-----------------------------------------------------------------------------
(* What the finished containers are made of is not touched by later nodes.  *)
LEMMA DerivedKept ==
  ASSUME TypeOK, TypeOK', Spans, Spans', NodesDerived,
         Extends(read', read), Len(nodes') >= Len(nodes),
         \A i \in 1..Len(nodes) : nodes'[i] = nodes[i],
         NEW i \in 1..Len(nodes), nodes[i].kind \notin ScalarKinds
  PROVE  Built(nodes[i])'
<1>. Len(nodes) \in Nat /\ Len(nodes') \in Nat /\ Len(read) \in Nat
  BY TypeFacts, LenProperties DEF TypeOK
<1>n. \A j \in 1..Len(nodes) : nodes[j] \in NodeSet
  BY TypeFacts
<1>. DEFINE n == nodes[i]
            kids == ChildrenOf(n)
<1>1. {nodes'[j] : j \in {j \in 1..Len(nodes') : /\ n.from < nodes'[j].from /\ nodes'[j].to < n.to
                                                /\ nodes'[j].depth = n.depth + 1}} = kids
  <2>1. \A j \in 1..Len(nodes') : j \notin 1..Len(nodes) => i < j
    OBVIOUS
  <2>2. \A j \in 1..Len(nodes') :
          j \notin 1..Len(nodes) => n.to < nodes'[j].from \/ nodes'[j].from < n.from
    BY <2>1 DEF Spans, SpansNest
  <2>3. \A j \in 1..Len(nodes') : nodes'[j] \in NodeSet /\ nodes'[j].from <= nodes'[j].to
    BY TypeFacts, ElementOfSeq DEF TypeOK, Spans, NodesBehind
  <2>4. ASSUME NEW j \in 1..Len(nodes'), j \notin 1..Len(nodes)
        PROVE  ~(n.from < nodes'[j].from /\ nodes'[j].to < n.to)
    <3>1. n.from \in Nat /\ n.to \in Nat /\ nodes'[j].from \in Nat /\ nodes'[j].to \in Nat
      BY <1>n, <2>3 DEF NodeSet
    <3>2. n.to < nodes'[j].from \/ nodes'[j].from < n.from
      BY <2>2, <2>4
    <3>3. nodes'[j].from <= nodes'[j].to
      BY <2>3
    <3>. HIDE DEF n
    <3>. QED  BY <3>1, <3>2, <3>3
  <2>. QED  BY <2>4 DEF ChildrenOf
<1>3. /\ n \in NodeSet /\ n.from >= 1 /\ n.to < Len(read)
      /\ Lead(n.kind) \in {1, 3} /\ (n.kind = "object" => Lead(n.kind) = 3)
  BY <1>n DEF Spans, NodesBehind, Lead
<1>4. \A c \in kids : c \in NodeSet /\ c.from <= c.to /\ c.to < n.to /\ n.from < c.from
  BY <1>n DEF ChildrenOf, Spans, NodesBehind
<1>5. Built(n)
  BY DEF NodesDerived
<1>. HIDE DEF kids
<1>6. \A c \in kids : c.from >= n.from + Lead(n.kind)
  BY <1>5 DEF Built, kids
<1>. HIDE DEF n
<1>7. \A c \in kids : read'[c.to + 1] = read[c.to + 1]
  BY <1>3, <1>4 DEF NodeSet, Extends
<1>8. ASSUME n.kind = "object", NEW c \in kids
      PROVE  read'[c.from - 2] = read[c.from - 2] /\ read'[c.from - 1] = read[c.from - 1]
  <2>1. c.from - 2 \in 1..Len(read) /\ c.from - 1 \in 1..Len(read)
    BY <1>3, <1>4, <1>6, <1>8 DEF NodeSet
  <2>. QED  BY <2>1 DEF Extends
<1>9. n.kind = "object" => {read'[c.from - 2].data : c \in kids} = {read[c.from - 2].data : c \in kids}
  BY <1>8
<1>10. nodes'[i] = n
  BY DEF n
<1>11. {nodes'[j] : j \in {j \in 1..Len(nodes') : /\ n.from < nodes'[j].from /\ nodes'[j].to < n.to
                                                /\ nodes'[j].depth = n.depth + 1}} = kids
  BY <1>1 DEF n, kids
<1>12. ChildrenOf(nodes[i])' = kids
  BY <1>10, <1>11 DEF ChildrenOf
<1>13. /\ kids = {} => n.to = n.from + 1
       /\ kids # {} => \E c \in kids : c.from = n.from + Lead(n.kind)
       /\ \A c \in kids :
            /\ c.from >= n.from + Lead(n.kind)
            /\ \/ c.to + 1 = n.to
               \/ /\ IsComma(read[c.to + 1])
                  /\ \E d \in kids : d.from = c.to + 1 + Lead(n.kind)
  BY <1>5 DEF Built, kids
<1>14. n.kind = "object" =>
         /\ \A c \in kids : read[c.from - 2].kind = "string" /\ read[c.from - 1].kind = ":"
         /\ Range(n.keys) = {read[c.from - 2].data : c \in kids}
  BY <1>5 DEF Built, kids
<1>15. /\ \A c \in kids :
            /\ c.from >= n.from + Lead(n.kind)
            /\ \/ c.to + 1 = n.to
               \/ /\ IsComma(read'[c.to + 1])
                  /\ \E d \in kids : d.from = c.to + 1 + Lead(n.kind)
  BY <1>7, <1>13
<1>16. n.kind = "object" =>
         /\ \A c \in kids : read'[c.from - 2].kind = "string" /\ read'[c.from - 1].kind = ":"
         /\ Range(n.keys) = {read'[c.from - 2].data : c \in kids}
  BY <1>8, <1>9, <1>14
<1>. QED  BY <1>10, <1>12, <1>13, <1>15, <1>16 DEF Built

(* Appending a token keeps what was read. *)
LEMMA ReadExtends ==
  ASSUME TypeOK, NEW t \in Tokens, read' = Append(read, t)
  PROVE  Extends(read', read) /\ Len(read') = Len(read) + 1 /\ Len(read) \in Nat
BY ReadGrows DEF Extends

(* Children are finished values. *)
LEMMA KidsPast ==
  ASSUME TypeOK, Spans, NEW k
  PROVE  Kids(k) \in SUBSET Past(Len(read))
<1>1. \A j \in 1..Len(nodes) : nodes[j] \in NodeSet
  BY TypeFacts
<1>. QED  BY <1>1 DEF Kids, Past, Spans, NodesBehind

(* A call around another: its child in progress is that other. *)
LEMMA OuterKept ==
  ASSUME TypeOK, Spans, FramesGrow, NEW t \in Tokens, read' = Append(read, t),
         NEW k \in 1..(Len(stack) - 1)
  PROVE  Grows(stack[k], Kids(k), stack[k + 1].start, 0, 2, read')
<1>1. Len(stack) \in Nat /\ k \in 1..Len(stack) /\ k + 1 \in 1..Len(stack)
  BY TypeFacts
<1>2. Extends(read', read) /\ Len(read) \in Nat
  BY ReadExtends
<1>3. stack[k] \in FrameSet
  BY <1>1, TypeFacts
<1>4. stack[k].start \in 1..Len(read) /\ stack[k + 1].start \in 1..Len(read)
  BY <1>1, <1>2 DEF Spans, FramesOpen
<1>5. Grows(stack[k], Kids(k), stack[k + 1].start, 0, 2, read)
  BY DEF FramesGrow
<1>6. Kids(k) \in SUBSET Past(Len(read))
  BY KidsPast
<1>7. stack[k + 1].start \in Nat /\ stack[k + 1].start <= Len(read) + 1
  BY <1>2, <1>4
<1>. QED  BY <1>2, <1>3, <1>4, <1>5, <1>6, <1>7, GrowsKept

(* The innermost call has its place, and its children are finished. *)
LEMMA TopPlace ==
  ASSUME TypeOK, Spans, stack # <<>>
  PROVE  /\ Len(stack) \in Nat \ {0} /\ Top \in FrameSet /\ Len(read) \in Nat
         /\ Top.start \in 1..Len(read) /\ Top.start < Len(read)
         /\ Kids(Len(stack)) \in SUBSET Past(Len(read))
<1>1. Len(stack) \in Nat \ {0} /\ Len(read) \in Nat
  BY TypeFacts, EmptySeq DEF TypeOK
<1>2. Top \in FrameSet
  BY <1>1, TypeFacts DEF Top
<1>3. Top.start \in 1..(Len(read) - 1)
  BY <1>1 DEF Spans, FramesOpen, Top
<1>. QED  BY <1>1, <1>2, <1>3, KidsPast

(* Steps that construct no value and open or close no container. *)
LEMMA SameShape ==
  ASSUME TypeOK, TypeOK', Spans, Spans', NodesDerived, DepthsCounted,
         Extends(read', read), UNCHANGED nodes, Len(stack') = Len(stack),
         \A k \in 1..Len(stack) : stack'[k].start = stack[k].start
  PROVE  /\ NodesDerived' /\ DepthsCounted' /\ Starts' = Starts
         /\ \A k \in 1..Len(stack) : Kids(k)' = Kids(k)
<1>1. NodesDerived'
  <2>1. Len(nodes') >= Len(nodes)
    BY TypeFacts
  <2>. QED  BY <2>1, DerivedKept DEF NodesDerived
<1>2. DepthsCounted'
  BY DEF DepthsCounted, Enclosing, Around
<1>3. Starts' = Starts
  BY DEF Starts
<1>4. \A k \in 1..Len(stack) : Kids(k)' = Kids(k)
  BY DEF Kids
<1>. QED  BY <1>1, <1>2, <1>3, <1>4

(* A token that begins a value is found to do so when the next one is read. *)
LEMMA BegunGrows ==
  ASSUME TypeOK, NEW t \in Tokens, read' = Append(read, t), read # <<>>,
         Here > 1 /\ read[Here - 1].kind \in ScalarKinds =>
           (pc \in {"item", "done"} <=> read[Here].kind # ":")
  PROVE  Begun' = Begun \cup (IF BeginsHere(pc') THEN {Here} ELSE {})
<1>1. /\ Len(read) \in Nat \ {0} /\ Len(read') = Len(read) + 1
      /\ \A i \in 1..Len(read) : read'[i] = read[i]
  BY ReadGrows, EmptySeq DEF TypeOK
<1>. DEFINE h == Len(read)
            B(i) == \/ IsOpening(read[i])
                    \/ read[i].kind \in ScalarKinds /\ (IF i = h - 1 THEN pc \in {"item", "done"}
                                                        ELSE read[i + 1].kind # ":")
            C(i) == \/ IsOpening(read'[i])
                    \/ read'[i].kind \in ScalarKinds /\ (IF i = h THEN pc' \in {"item", "done"}
                                                         ELSE read'[i + 1].kind # ":")
<1>2. ASSUME NEW i \in 1..(h - 1) PROVE C(i) <=> B(i)
  <2>1. read'[i] = read[i] /\ read'[i + 1] = read[i + 1] /\ i # h
    BY <1>1
  <2>2. CASE i = h - 1
    <3>1. Here > 1 /\ i = Here - 1 /\ i + 1 = Here
      BY <1>1, <2>2 DEF Here
    <3>. QED  BY <2>1, <2>2, <3>1
  <2>3. CASE i # h - 1
    BY <2>1, <2>3
  <2>. QED  BY <2>2, <2>3
<1>3. C(h) <=> \/ IsOpening(read[h])
               \/ read[h].kind \in ScalarKinds /\ pc' \in {"item", "done"}
  <2>1. read'[h] = read[h]
    BY <1>1
  <2>. QED  BY <2>1
<1>4. Here = h /\ Here' - 1 = h
  BY <1>1 DEF Here
<1>5. Begun = {i \in 1..(h - 1) : B(i)}
  BY <1>4, Zenon DEF Begun
<1>6. Begun' = {i \in 1..h : C(i)}
  BY <1>4, Zenon DEF Begun
<1>7. 1..h = (1..(h - 1)) \cup {h} /\ h \notin 1..(h - 1)
  BY <1>1
<1>. HIDE DEF h, B, C
<1>8. CASE C(h)
  <2>1. Begun' = {i \in 1..(h - 1) : C(i)} \cup {h}
    BY <1>6, <1>7, <1>8
  <2>2. Begun' = Begun \cup {h}
    BY <1>2, <1>5, <2>1
  <2>3. h = Here
    BY <1>4
  <2>4. \/ IsOpening(read[h])
        \/ read[h].kind \in ScalarKinds /\ pc' \in {"item", "done"}
    BY <1>3, <1>8
  <2>. QED  BY <2>2, <2>3, <2>4 DEF BeginsHere
<1>9. CASE ~ C(h)
  <2>0. ~ BeginsHere(pc')
    BY <1>3, <1>4, <1>9 DEF BeginsHere
  <2>1. Begun' = {i \in 1..(h - 1) : C(i)}
    BY <1>6, <1>7, <1>9
  <2>. QED  BY <1>2, <1>5, <2>0, <2>1
<1>. QED  BY <1>8, <1>9

(* Leaving with an error leaves the finished values as they are. *)
LEMMA ErrorTree ==
  ASSUME TypeOK, TypeOK', Spans, Spans', NodesDerived, pc' = "error", UNCHANGED nodes,
         Extends(read', read)
  PROVE  Tree'
<1>1. Len(nodes') >= Len(nodes)
  BY TypeFacts
<1>2. NodesDerived'
  BY <1>1, DerivedKept DEF NodesDerived
<1>. QED  BY <1>2 DEF Tree

(* An advance() that meets a token. *)
LEMMA AdvanceReads ==
  ASSUME NEW next, Advance(next), pc' # "error"
  PROVE  /\ pc' = next
         /\ \E t \in Tokens : read' = Append(read, t) /\ cur' = t
BY DEF Advance, Fail

LEMMA AdvanceExtends ==
  ASSUME TypeOK, NEW next, Advance(next)
  PROVE  /\ Extends(read', read) /\ Len(read') = Len(read) + 1
         /\ \E t \in Tokens : read' = Append(read, t)
BY ReadExtends DEF Advance

-----------------------------------------------------------------------------
(* What the invariants say while the parser runs. *)
LEMMA Running ==
  ASSUME IInv, Tree, pc \notin {"start", "error"}
  PROVE  /\ TypeOK /\ Spans /\ NodesDerived /\ FramesGrow /\ Placed /\ DepthsCounted
         /\ Starts = Begun
         /\ read # <<>> /\ cur = read[Len(read)] /\ Len(read) \in Nat \ {0}
         /\ Len(stack) \in Nat /\ (stack # <<>> <=> Len(stack) # 0)
<1>1. TypeOK /\ Spans /\ CurIsLast
  BY DEF IInv
<1>2. read # <<>> /\ cur = read[Len(read)]
  BY <1>1 DEF CurIsLast
<1>3. Len(read) \in Nat \ {0} /\ Len(stack) \in Nat /\ (stack # <<>> <=> Len(stack) # 0)
  BY <1>1, <1>2, TypeFacts, EmptySeq DEF TypeOK
<1>. QED  BY <1>1, <1>2, <1>3 DEF Tree

(* Parse() primes cur. *)
LEMMA StartTree == ASSUME IInv, IInv', Tree, Start PROVE Tree'
<1>1. /\ TypeOK /\ TypeOK' /\ Spans /\ Spans' /\ NodesDerived /\ Placed
      /\ Here = 0 /\ nodes = <<>> /\ stack = <<>> /\ UNCHANGED <<stack, nodes>>
  BY DEF IInv, Tree, Start, Placed
<1>2. Extends(read', read) /\ Len(read') = Len(read) + 1
  BY <1>1, AdvanceExtends DEF Start
<1>3. CASE pc' = "error"
  BY <1>1, <1>2, <1>3, ErrorTree
<1>4. CASE pc' # "error"
  <2>1. pc' = "value" /\ Here' = 1 /\ Len(stack') = 0 /\ Len(nodes') = 0
    BY <1>1, <1>2, <1>4, AdvanceReads DEF Start, Here
  <2>2. NodesDerived' /\ FramesGrow' /\ DepthsCounted'
    BY <1>1, <2>1 DEF NodesDerived, FramesGrow, DepthsCounted
  <2>3. Placed'
    BY <1>1, <2>1 DEF Placed
  <2>4. Starts' = Begun'
    BY <2>1 DEF Starts, Begun
  <2>. QED  BY <2>2, <2>3, <2>4 DEF Tree
<1>. QED  BY <1>3, <1>4

(* An item, or a key, is to be read. *)
LEMMA EnterTree == ASSUME IInv, IInv', Tree, Enter PROVE Tree'
<1>1. /\ pc \in {"first", "next"} /\ stack # <<>> /\ UNCHANGED <<read, cur, stack, nodes>>
      /\ pc' = IF Top.kind = "array" THEN "value" ELSE "key"
  BY DEF IInv, InsideContainer, Enter, Goto
<1>2. /\ TypeOK /\ Spans /\ NodesDerived /\ FramesGrow /\ Placed /\ DepthsCounted
      /\ Starts = Begun /\ Len(read) \in Nat \ {0} /\ TypeOK' /\ Spans'
  BY <1>1, Running DEF IInv
<1>3. Top \in FrameSet
  BY <1>1, <1>2, TopPlace
<1>4. NodesDerived' /\ DepthsCounted' /\ Starts' = Starts /\ \A k \in 1..Len(stack) : Kids(k)' = Kids(k)
  BY <1>1, <1>2, SameShape DEF Extends
<1>5. Begun' = Begun
  BY <1>1 DEF Begun, Here
<1>6. FramesGrow'
  <2>1. Top' = Top /\ Kids(Len(stack))' = Kids(Len(stack)) /\ Here' = Here
    BY <1>1 DEF Top, Kids, Here
  <2>2. Fresh = 0 /\ Fresh' = 0 /\ KeyParts = 0 /\ (Top.kind # "array" => KeyParts' = 0)
    BY <1>1 DEF Fresh, KeyParts
  <2>3. Frontier' = Frontier
    <3>1. Frontier = Here - 1 + Lead(Top.kind)
      BY <1>1 DEF Frontier
    <3>2. CASE Top.kind = "array"
      BY <1>1, <1>2, <2>1, <3>1, <3>2 DEF Frontier, Lead, Here
    <3>3. CASE Top.kind # "array"
      <4>1. Frontier' = Here + 2
        BY <1>1, <2>1, <3>3 DEF Frontier
      <4>. QED  BY <1>2, <3>1, <3>3, <4>1 DEF Lead, Here
    <3>. QED  BY <3>2, <3>3
  <2>4. Grows(Top, Kids(Len(stack)), Frontier, 0, 0, read)
    BY <1>1, <1>2, <2>2 DEF FramesGrow
  <2>5. Grows(Top, Kids(Len(stack)), Frontier, 0, KeyParts', read)
    BY <2>2, <2>4 DEF Grows
  <2>. QED  BY <1>1, <1>2, <1>4, <2>1, <2>2, <2>3, <2>5 DEF FramesGrow
<1>7. Placed'
  BY <1>1, <1>2, <1>3 DEF Placed, Here, Top
<1>. QED  BY <1>1, <1>2, <1>4, <1>5, <1>6, <1>7 DEF Tree

(* The comma after an item and the colon after a key. *)
LEMMA PassTree ==
  ASSUME IInv, IInv', Tree, stack # <<>>, Comma \/ Colon
  PROVE  Tree'
<1>. DEFINE d == Len(stack)
            h == Len(read)
<1>0. /\ UNCHANGED <<stack, nodes>>
      /\ \/ pc = "item" /\ IsComma(cur) /\ Advance("next")
         \/ pc = "colon" /\ cur.kind = ":" /\ Advance("value")
  BY Zenon DEF Comma, Colon, IsComma
<1>1. /\ TypeOK /\ Spans /\ NodesDerived /\ FramesGrow /\ Placed /\ DepthsCounted
      /\ Starts = Begun /\ read # <<>> /\ h \in Nat \ {0} /\ cur = read[h]
      /\ d \in Nat \ {0} /\ TypeOK' /\ Spans'
  BY <1>0, Running DEF IInv
<1>2. /\ Extends(read', read) /\ Len(read') = h + 1
      /\ \E t \in Tokens : read' = Append(read, t)
  BY <1>0, <1>1, AdvanceExtends
<1>3. CASE pc' = "error"
  BY <1>0, <1>1, <1>2, <1>3, ErrorTree
<1>4. CASE pc' # "error"
  <2>1. pc' = IF pc = "item" THEN "next" ELSE "value"
    BY <1>0, <1>4, AdvanceReads
  <2>2. NodesDerived' /\ DepthsCounted' /\ Starts' = Starts /\ \A k \in 1..d : Kids(k)' = Kids(k)
    BY <1>0, <1>1, <1>2, SameShape
  <2>3. Begun' = Begun
    <3>1. cur.kind \notin ScalarKinds /\ ~ IsOpening(cur) /\ (IsComma(cur) => cur.kind # ":")
      BY <1>0, Punctuation
    <3>2. pc = "colon" => read[Here - 1].kind = "string"
      BY <1>1 DEF Placed
    <3>3. ~ BeginsHere(pc')
      BY <1>1, <3>1 DEF BeginsHere, Here
    <3>4. pc \in {"item", "done"} <=> read[Here].kind # ":"
      BY <1>0, <1>1, <3>1 DEF Here
    <3>. QED  BY <1>1, <1>2, <3>3, <3>4, BegunGrows
  <2>4. /\ Top \in FrameSet /\ Top.start \in 1..h /\ Kids(d) \in SUBSET Past(h)
        /\ Top' = Top /\ Kids(d)' = Kids(d) /\ Here = h /\ Here' = h + 1
        /\ Lead(Top.kind) \in {1, 3}
    BY <1>0, <1>1, <1>2, TopPlace DEF Top, Kids, Here, Lead
  <2>5. Grows(Top, Kids(d), Frontier, Fresh, KeyParts, read)
    BY <1>1 DEF FramesGrow
  <2>6. Grows(Top, Kids(d), Frontier', Fresh', KeyParts', read')
    <3>1. CASE pc = "item"
      <4>1. /\ Frontier = h + Lead(Top.kind) /\ Fresh = h /\ KeyParts = 0
            /\ Frontier' = Here' - 1 + Lead(Top'.kind) /\ Fresh' = 0 /\ KeyParts' = 0
        BY <2>1, <2>4, <3>1 DEF Frontier, Fresh, KeyParts
      <4>2. Frontier' = h + Lead(Top.kind) /\ h + Lead(Top.kind) \in Nat
        BY <1>1, <2>4, <4>1
      <4>3. Grows(Top, Kids(d), h + Lead(Top.kind), 0, 0, read)
        BY <1>0, <1>1, <2>5, <3>1, <4>1, CommaAdded
      <4>. QED  BY <1>1, <1>2, <2>4, <4>1, <4>2, <4>3, GrowsKept
    <3>2. CASE pc = "colon"
      <4>1. /\ Frontier = h + 1 /\ Fresh = 0 /\ KeyParts = 1
            /\ Frontier' = h + 1 /\ Fresh' = 0 /\ KeyParts' = 2
        BY <2>1, <2>4, <3>2 DEF Frontier, Fresh, KeyParts
      <4>. QED  BY <1>0, <1>1, <1>2, <2>4, <2>5, <3>2, <4>1, ColonAdded
    <3>. QED  BY <1>0, <3>1, <3>2
  <2>7. FramesGrow'
    <3>1. \A k \in 1..(d - 1) : Grows(stack[k], Kids(k), stack[k + 1].start, 0, 2, read')
      BY <1>1, <1>2, OuterKept
    <3>2. \A k \in 1..(d - 1) : Grows(stack'[k], Kids(k)', stack'[k + 1].start, 0, 2, read')
      BY <1>0, <1>1, <2>2, <3>1
    <3>. QED  BY <1>0, <2>4, <2>6, <3>2 DEF FramesGrow
  <2>8. Placed'
    <3>1. read'[h] = cur /\ Here' - 1 = h /\ Here' > 1
      BY <1>1, <1>2, <2>4 DEF Extends
    <3>2. cur.kind \notin ScalarKinds
      BY <1>0, Punctuation
    <3>. QED  BY <1>0, <1>1, <2>1, <2>4, <3>1, <3>2 DEF Placed
  <2>. QED  BY <1>0, <1>1, <2>1, <2>2, <2>3, <2>7, <2>8 DEF Tree
<1>. QED  BY <1>3, <1>4

(* The innermost frame after a key. *)
LEMMA KeyStack ==
  ASSUME TypeOK, TypeOK', stack # <<>>, NEW z, stack' = [stack EXCEPT ![Len(stack)] = z]
  PROVE  /\ Len(stack) \in Nat \ {0} /\ Len(stack') = Len(stack) /\ stack'[Len(stack)] = z
         /\ \A k \in 1..Len(stack) : stack'[k] = IF k = Len(stack) THEN z ELSE stack[k]
<1>. DEFINE d == Len(stack)
            e == Len(stack')
<1>1. stack \in Seq(FrameSet) /\ stack' \in Seq(FrameSet)
  BY DEF TypeOK
<1>2. DOMAIN stack = 1..d /\ DOMAIN stack' = 1..e /\ e \in Nat /\ d \in Nat \ {0}
  BY <1>1, LenProperties, EmptySeq
<1>3. DOMAIN stack' = DOMAIN stack
  BY <1>1
<1>4. 1..d = 1..e
  BY <1>2, <1>3
<1>. HIDE DEF d, e
<1>5. d \in 1..e
  BY <1>2, <1>4
<1>6. e \in 1..d
  BY <1>2, <1>4, <1>5
<1>7. e = d
  BY <1>2, <1>5, <1>6
<1>8. \A k \in 1..d : stack'[k] = IF k = d THEN z ELSE stack[k]
  BY <1>2 DEF d
<1>. QED  BY <1>2, <1>7, <1>8 DEF d, e

(* A key joins the keys of its object. *)
LEMMA KeyTree == ASSUME IInv, IInv', Tree, Key PROVE Tree'
<1>. DEFINE d == Len(stack)
            h == Len(read)
            z == [Top EXCEPT !.keys = Append(Top.keys, cur.data)]
<1>0. /\ pc = "key" /\ cur.kind = "string" /\ Advance("colon") /\ UNCHANGED nodes
      /\ stack' = [stack EXCEPT ![d] = z] /\ stack # <<>>
  BY DEF Key, IInv, InsideContainer, Top
<1>1. /\ TypeOK /\ Spans /\ NodesDerived /\ FramesGrow /\ Placed /\ DepthsCounted
      /\ Starts = Begun /\ read # <<>> /\ h \in Nat \ {0} /\ cur = read[h]
      /\ d \in Nat \ {0} /\ TypeOK' /\ Spans'
  BY <1>0, Running DEF IInv
<1>2. /\ Extends(read', read) /\ Len(read') = h + 1
      /\ \E t \in Tokens : read' = Append(read, t)
  BY <1>0, <1>1, AdvanceExtends
<1>3. CASE pc' = "error"
  BY <1>0, <1>1, <1>2, <1>3, ErrorTree
<1>4. CASE pc' # "error"
  <2>1. pc' = "colon"
    BY <1>0, <1>4, AdvanceReads
  <2>2. /\ Top \in FrameSet /\ Top.start \in 1..h /\ Kids(d) \in SUBSET Past(h)
        /\ Here = h /\ Here' = h + 1
    BY <1>0, <1>1, <1>2, TopPlace DEF Here
  <2>3. z.start = Top.start
    BY <2>2 DEF FrameSet
  <2>4. /\ Len(stack') = d /\ stack'[d] = z /\ stack \in Seq(FrameSet)
        /\ \A k \in 1..d : stack'[k] = IF k = d THEN z ELSE stack[k]
    <3>1. stack \in Seq(FrameSet)
      BY <1>1 DEF TypeOK
    <3>. QED  BY <1>0, <1>1, <3>1, KeyStack
  <2>5. \A k \in 1..d : stack'[k].start = stack[k].start
    BY <2>3, <2>4 DEF Top
  <2>6. NodesDerived' /\ DepthsCounted' /\ Starts' = Starts /\ \A k \in 1..d : Kids(k)' = Kids(k)
    BY <1>0, <1>1, <1>2, <2>4, <2>5, SameShape
  <2>7. Begun' = Begun
    <3>1. read[Here].kind # ":" /\ ~ IsOpening(read[Here])
      BY <1>0, <1>1, <2>2, Punctuation DEF ScalarKinds
    <3>2. Here > 1 => read[Here - 1].kind \notin ScalarKinds
      BY <1>0, <1>1, <2>2 DEF Placed
    <3>3. ~ BeginsHere(pc')
      BY <2>1, <3>1 DEF BeginsHere
    <3>. QED  BY <1>1, <1>2, <3>2, <3>3, BegunGrows
  <2>8. /\ Top' = z /\ Kids(d)' = Kids(d)
        /\ Frontier = h + 2 /\ Fresh = 0 /\ KeyParts = 0
        /\ Frontier' = h + 1 + 1 /\ Fresh' = 0 /\ KeyParts' = 1
    BY <1>0, <1>1, <2>1, <2>2, <2>4, <2>6 DEF Top, Frontier, Fresh, KeyParts
  <2>9. Grows(z, Kids(d), h + 2, 0, 1, read')
    <3>1. Grows(Top, Kids(d), h + 2, 0, 0, read)
      BY <1>0, <1>1, <2>8 DEF FramesGrow
    <3>2. cur.data \in KeySet
      BY <1>1, TypeFacts DEF KeySet
    <3>. HIDE DEF z
    <3>3. z = [Top EXCEPT !.keys = Append(Top.keys, cur.data)]
      BY DEF z
    <3>. HIDE DEF h
    <3>4. h \in Nat /\ h = Len(read)
      BY <1>1 DEF h
    <3>. QED  BY <1>0, <1>1, <1>2, <2>2, <3>1, <3>2, <3>3, <3>4, KeyAdded
  <2>10. FramesGrow'
    <3>1. \A k \in 1..(d - 1) : Grows(stack[k], Kids(k), stack[k + 1].start, 0, 2, read')
      BY <1>1, <1>2, OuterKept
    <3>. HIDE DEF z
    <3>2. ASSUME NEW k \in 1..(d - 1)
          PROVE  stack'[k] = stack[k] /\ Kids(k)' = Kids(k) /\ stack'[k + 1].start = stack[k + 1].start
      BY <1>1, <2>4, <2>5, <2>6
    <3>3. \A k \in 1..(d - 1) : Grows(stack'[k], Kids(k)', stack'[k + 1].start, 0, 2, read')
      BY <3>1, <3>2
    <3>4. h + 1 + 1 = h + 2
      BY <1>1
    <3>5. Grows(Top', Kids(d)', Frontier', Fresh', KeyParts', read')
      BY <2>8, <2>9, <3>4
    <3>. QED  BY <2>4, <3>3, <3>5 DEF FramesGrow
  <2>11. Placed'
    <3>1. read'[Here' - 1].kind = "string" /\ Here' > 1
      BY <1>0, <1>1, <1>2, <2>2 DEF Extends
    <3>2. stack'[1].start = stack[1].start /\ stack' # <<>>
      BY <1>1, <2>4, <2>5
    <3>. QED  BY <1>0, <1>1, <2>1, <3>1, <3>2 DEF Placed
  <2>. QED  BY <1>1, <2>1, <2>6, <2>7, <2>10, <2>11 DEF Tree
<1>. QED  BY <1>3, <1>4

(* A bracket opens a container: it is the child its caller expects, and has *)
(* none itself. *)
LEMMA OpenTree ==
  ASSUME IInv, IInv', Tree, NEW kind \in {"array", "object"}, Open(Opening(kind), kind)
  PROVE  Tree'
<1>. DEFINE d == Len(stack)
            h == Len(read)
            f == Frame(kind, h)
<1>0. /\ pc = "value" /\ cur.kind = Opening(kind) /\ Advance("first") /\ UNCHANGED nodes
      /\ stack' = Append(stack, f)
  BY DEF Open, Here
<1>1. /\ TypeOK /\ Spans /\ NodesDerived /\ FramesGrow /\ Placed /\ DepthsCounted
      /\ Starts = Begun /\ read # <<>> /\ h \in Nat \ {0} /\ cur = read[h]
      /\ d \in Nat /\ (stack # <<>> <=> d # 0) /\ TypeOK' /\ Spans'
  BY <1>0, Running DEF IInv
<1>2. /\ Extends(read', read) /\ Len(read') = h + 1
      /\ \E t \in Tokens : read' = Append(read, t)
  BY <1>0, <1>1, AdvanceExtends
<1>3. CASE pc' = "error"
  BY <1>0, <1>1, <1>2, <1>3, ErrorTree
<1>4. CASE pc' # "error"
  <2>1. pc' = "first" /\ Here = h /\ Here' = h + 1
    BY <1>0, <1>2, <1>4, AdvanceReads DEF Here
  <2>2. f \in FrameSet /\ f.start = h /\ f.kind = kind /\ f.keys = <<>>
    <3>. <<>> \in Seq(KeySet)
      OBVIOUS
    <3>. QED  BY <1>1 DEF Frame, FrameSet
  <2>. HIDE DEF f
  <2>3. /\ Len(stack') = d + 1 /\ stack'[d + 1] = f
        /\ \A k \in 1..d : stack'[k] = stack[k]
    <3>. stack \in Seq(FrameSet)
      BY <1>1 DEF TypeOK
    <3>. QED  BY <1>0, <2>2, AppendFacts
  <2>4. IsOpening(cur)
    BY <1>0, Zenon DEF Opening, IsOpening
  <2>n. \A i \in 1..Len(nodes) : nodes[i] \in NodeSet /\ nodes[i].from < h /\ nodes[i].from \in Nat
    BY <1>1, TypeFacts DEF Spans, NodesBehind, NodeSet
  <2>5. NodesDerived'
    BY <1>0, <1>1, <1>2, DerivedKept, TypeFacts DEF NodesDerived
  <2>6. DepthsCounted'
    <3>1. ASSUME NEW i \in 1..Len(nodes)
          PROVE  {k \in 1..(d + 1) : stack'[k].start < nodes[i].from}
                   = {k \in 1..d : stack[k].start < nodes[i].from}
      <4>1. ~ (stack'[d + 1].start < nodes[i].from)
        BY <1>1, <2>2, <2>3, <2>n
      <4>2. \A k \in 1..(d + 1) : k \in 1..d \/ k = d + 1
        BY <1>1
      <4>3. \A k \in 1..d : k \in 1..(d + 1)
        BY <1>1
      <4>. HIDE DEF d, h
      <4>. QED  BY <2>3, <4>1, <4>2, <4>3
    <3>2. \A i \in 1..Len(nodes) : Around(nodes[i])' = Around(nodes[i])
      BY <1>0, <2>3, <3>1 DEF Around
    <3>3. \A i \in 1..Len(nodes) : Enclosing(nodes[i])' = Enclosing(nodes[i])
      BY <1>0 DEF Enclosing
    <3>. QED  BY <1>0, <1>1, <3>2, <3>3 DEF DepthsCounted
  <2>7. Starts' = Starts \cup {h}
    <3>1. 1..(d + 1) = (1..d) \cup {d + 1}
      BY <1>1
    <3>2. {stack'[k].start : k \in 1..(d + 1)} = {stack[k].start : k \in 1..d} \cup {h}
      <4>. HIDE DEF d, h
      <4>. QED  BY <2>2, <2>3, <3>1
    <3>. QED  BY <1>0, <2>3, <3>2 DEF Starts
  <2>8. Begun' = Begun \cup {h}
    <3>1. BeginsHere(pc')
      BY <1>1, <2>1, <2>4 DEF BeginsHere
    <3>2. Here > 1 => read[Here - 1].kind \notin ScalarKinds
      BY <1>0, <1>1, <2>1 DEF Placed
    <3>. QED  BY <1>1, <1>2, <2>1, <3>1, <3>2, BegunGrows
  <2>9. FramesGrow'
    <3>1. ASSUME NEW k \in 1..d
          PROVE  Grows(stack'[k], Kids(k)', stack'[k + 1].start, 0, 2, read')
      <4>1. stack'[k] = stack[k] /\ Kids(k)' = Kids(k)
        BY <1>0, <2>3 DEF Kids
      <4>2. CASE k \in 1..(d - 1)
        <5>1. stack'[k + 1] = stack[k + 1]
          BY <1>1, <2>3, <4>2
        <5>. QED  BY <1>1, <1>2, <4>1, <4>2, <5>1, OuterKept
      <4>3. CASE k = d
        <5>1. /\ Top \in FrameSet /\ Top.start \in 1..h /\ Kids(d) \in SUBSET Past(h)
              /\ stack[k] = Top /\ stack'[k + 1].start = h
          BY <1>1, <2>2, <2>3, <4>3, TopPlace DEF Top
        <5>2. Grows(Top, Kids(d), h, 0, 2, read)
          <6>1. Frontier = h /\ Fresh = 0 /\ KeyParts = 2
            BY <1>0, <2>1 DEF Frontier, Fresh, KeyParts
          <6>. QED  BY <1>1, <4>3, <6>1 DEF FramesGrow
        <5>3. Grows(Top, Kids(d), h, 0, 2, read')
          BY <1>1, <1>2, <5>1, <5>2, GrowsKept
        <5>. QED  BY <4>1, <4>3, <5>1, <5>3
      <4>4. k \in 1..(d - 1) \/ k = d
        BY <1>1
      <4>. QED  BY <4>2, <4>3, <4>4
    <3>2. Kids(Len(stack))' = {}
      <4>1. \A j \in 1..Len(nodes') : ~ (stack'[d + 1].start < nodes'[j].from)
        BY <1>0, <1>1, <2>2, <2>3, <2>n
      <4>. QED  BY <2>3, <4>1 DEF Kids
    <3>3. /\ Top' = f /\ Fresh' = 0 /\ KeyParts' = 0
          /\ Frontier' = h + 1 - 1 + Lead(kind)
      BY <2>1, <2>2, <2>3 DEF Top, Frontier, Fresh, KeyParts
    <3>4. h + 1 - 1 + Lead(kind) = h + Lead(kind) /\ h + Lead(kind) \in Nat
      BY <1>1 DEF Lead
    <3>5. Grows(f, {}, h + Lead(kind), 0, 0, read')
      BY <1>1, <2>2, <3>4 DEF Grows, Chained, Keyed, Range
    <3>6. Len(stack') - 1 = d
      BY <1>1, <2>3
    <3>7. Grows(Top', Kids(Len(stack))', Frontier', Fresh', KeyParts', read')
      BY <2>3, <3>2, <3>3, <3>4, <3>5
    <3>. QED  BY <3>1, <3>6, <3>7 DEF FramesGrow
  <2>10. Placed'
    <3>1. read'[Here' - 1] = cur /\ Here' > 1 /\ cur.kind \notin ScalarKinds /\ Here' = Top'.start + 1
      BY <1>1, <1>2, <2>1, <2>2, <2>3, <2>4, Punctuation DEF Extends, Top
    <3>2. stack'[1].start = 1 /\ stack' # <<>>
      <4>1. CASE d = 0
        BY <1>0, <1>1, <2>1, <2>2, <2>3, <4>1 DEF Placed
      <4>2. CASE d # 0
        BY <1>0, <1>1, <2>3, <4>2 DEF Placed
      <4>. QED  BY <4>1, <4>2
    <3>. QED  BY <2>1, <3>1, <3>2 DEF Placed
  <2>. QED  BY <1>1, <2>1, <2>5, <2>6, <2>7, <2>8, <2>9, <2>10 DEF Tree
<1>. QED  BY <1>3, <1>4

-----------------------------------------------------------------------------
(* A value n that ends at the current token is constructed: a scalar, or a  *)
(* container whose call returns.                                            *)
Constructed(n) ==
  /\ n \in NodeSet /\ nodes' = Append(nodes, n) /\ n.to = Here /\ n.from <= Here
  /\ n.depth = Len(stack') /\ pc' = "item"
  /\ \E t \in Tokens : read' = Append(read, t)
  /\ \/ UNCHANGED stack /\ n.from = Here
     \/ stack # <<>> /\ stack' = Pop(stack) /\ n.from = Top.start

LEMMA ConstructedFacts ==
  ASSUME TypeOK, Spans, read # <<>>, NEW n, Constructed(n)
  PROVE  /\ Len(nodes) \in Nat /\ Len(nodes') = Len(nodes) + 1
         /\ \A i \in 1..Len(nodes) : nodes'[i] = nodes[i] /\ nodes[i] \in NodeSet
         /\ nodes'[Len(nodes) + 1] = n
         /\ Len(stack) \in Nat /\ Len(stack') \in Nat
         /\ \A k \in 1..Len(stack') : k \in 1..Len(stack) /\ stack'[k] = stack[k]
         /\ Len(read) \in Nat \ {0} /\ Len(read') = Len(read) + 1 /\ Extends(read', read)
         /\ Here = Len(read) /\ Here' = Len(read) + 1
<1>1. nodes \in Seq(NodeSet) /\ stack \in Seq(FrameSet) /\ read \in Seq(Tokens)
  BY DEF TypeOK
<1>2. /\ Len(nodes) \in Nat /\ Len(nodes') = Len(nodes) + 1
      /\ \A i \in 1..Len(nodes) : nodes'[i] = nodes[i] /\ nodes[i] \in NodeSet
      /\ nodes'[Len(nodes) + 1] = n
  BY <1>1, AppendFacts, TypeFacts DEF Constructed
<1>3. /\ Len(read) \in Nat \ {0} /\ Len(read') = Len(read) + 1 /\ Extends(read', read)
  BY <1>1, ReadExtends, EmptySeq DEF Constructed
<1>4. /\ Len(stack) \in Nat /\ Len(stack') \in Nat
      /\ \A k \in 1..Len(stack') : k \in 1..Len(stack) /\ stack'[k] = stack[k]
  <2>1. CASE UNCHANGED stack
    BY <2>1, TypeFacts
  <2>2. CASE stack # <<>> /\ stack' = Pop(stack)
    BY <1>1, <2>2, PopFacts
  <2>. QED  BY <2>1, <2>2 DEF Constructed
<1>. QED  BY <1>2, <1>3, <1>4 DEF Here

(* Its parent, if it has one, waits for the next comma. *)
LEMMA FramesGrowOn ==
  ASSUME TypeOK, Spans, read # <<>>, NEW n, Constructed(n),
         \A k \in 1..(Len(stack') - 1) : Grows(stack[k], Kids(k), stack[k + 1].start, 0, 2, read),
         Len(stack') >= 1 =>
           Grows(stack[Len(stack')], Kids(Len(stack')), n.from, 0, 2, read)
  PROVE  FramesGrow'
<1>. DEFINE e == Len(stack')
            h == Len(read)
<1>1. /\ Len(nodes) \in Nat /\ Len(nodes') = Len(nodes) + 1
      /\ \A i \in 1..Len(nodes) : nodes'[i] = nodes[i] /\ nodes[i] \in NodeSet
      /\ nodes'[Len(nodes) + 1] = n
      /\ Len(stack) \in Nat /\ e \in Nat
      /\ \A k \in 1..e : k \in 1..Len(stack) /\ stack'[k] = stack[k]
      /\ h \in Nat \ {0} /\ Extends(read', read) /\ Here = h /\ Here' = h + 1
  BY ConstructedFacts
<1>2. n \in NodeSet /\ n.to = h /\ n.from <= h /\ n.depth = e /\ pc' = "item" /\ n.from \in Nat
  BY <1>1 DEF Constructed, NodeSet
<1>3. ASSUME NEW k \in 1..e
      PROVE  /\ stack[k] \in FrameSet /\ stack[k].start \in 1..h /\ Kids(k) \in SUBSET Past(h)
             /\ stack[k].start < n.from
  <2>1. k \in 1..Len(stack)
    BY <1>1
  <2>2. stack[k] \in FrameSet /\ stack[k].start \in 1..(h - 1)
    BY <2>1, TypeFacts DEF Spans, FramesOpen
  <2>3. stack[k].start < n.from
    <3>1. CASE n.from = Here
      BY <1>1, <2>2, <3>1
    <3>2. CASE stack # <<>> /\ stack' = Pop(stack) /\ n.from = Top.start
      <4>1. Len(stack') = Len(stack) - 1
        BY <3>2, PopFacts DEF TypeOK
      <4>2. Len(stack) \in 1..Len(stack) /\ k < Len(stack)
        BY <1>1, <4>1
      <4>. QED  BY <2>1, <3>2, <4>2 DEF Spans, FramesOpen, Top
    <3>. QED  BY <3>1, <3>2 DEF Constructed
  <2>. QED  BY <1>1, <2>2, <2>3, KidsPast
<1>4. ASSUME NEW k \in 1..e
      PROVE  Kids(k)' = IF k = e THEN Kids(k) \cup {n} ELSE Kids(k)
  <2>1. 1..Len(nodes') = (1..Len(nodes)) \cup {Len(nodes) + 1}
    BY <1>1
  <2>2. stack'[k] = stack[k] /\ stack[k].start < n.from /\ n.depth = e
    BY <1>1, <1>2, <1>3
  <2>3. Kids(k)' = {nodes'[j] : j \in {j \in 1..Len(nodes') :
                       stack[k].start < nodes'[j].from /\ nodes'[j].depth = k}}
    BY <2>2 DEF Kids
  <2>4. \A x : x \in Kids(k)' <=> x \in Kids(k) \/ (k = e /\ x = n)
    <3>. HIDE DEF e, h
    <3>. QED  BY <1>1, <2>1, <2>2, <2>3 DEF Kids
  <2>. QED  BY <2>4
<1>5. ASSUME NEW k \in 1..(e - 1)
      PROVE  Grows(stack'[k], Kids(k)', stack'[k + 1].start, 0, 2, read')
  <2>1. k \in 1..e /\ k + 1 \in 1..e /\ k # e
    BY <1>1
  <2>2. stack'[k] = stack[k] /\ stack'[k + 1] = stack[k + 1] /\ Kids(k)' = Kids(k)
    BY <1>1, <1>4, <2>1
  <2>3. stack[k + 1].start \in Nat /\ stack[k + 1].start <= h + 1
    BY <1>1, <1>3, <2>1
  <2>. QED  BY <1>1, <1>3, <2>1, <2>2, <2>3, GrowsKept
<1>6. ASSUME e >= 1
      PROVE  Grows(Top', Kids(Len(stack))', Frontier', Fresh', KeyParts', read')
  <2>1. e \in 1..e
    BY <1>1, <1>6
  <2>2. Top' = stack[e]
    BY <1>1, <2>1 DEF Top
  <2>3. Frontier' = h + 1 + Lead(stack[e].kind) /\ Fresh' = h + 1 /\ KeyParts' = 0
    BY <1>1, <1>2, <2>2 DEF Frontier, Fresh, KeyParts
  <2>4. Kids(Len(stack))' = Kids(e) \cup {n}
    <3>1. \A k \in 1..e : Kids(k)' = IF k = e THEN Kids(k) \cup {n} ELSE Kids(k)
      BY <1>4
    <3>2. \A k \in 1..e :
            {nodes'[j] : j \in {j \in 1..Len(nodes') : stack'[k].start < nodes'[j].from /\ nodes'[j].depth = k}}
              = IF k = e THEN Kids(k) \cup {n} ELSE Kids(k)
      BY <3>1 DEF Kids
    <3>. QED  BY <2>1, <3>2 DEF Kids
  <2>5. Grows(stack[e], Kids(e), n.from, 0, 2, read)
    BY <1>6
  <2>6. Grows(stack[e], Kids(e) \cup {n}, h + 1 + Lead(stack[e].kind), h + 1, 0, read')
    <3>1. stack[e] \in FrameSet /\ stack[e].start \in 1..h /\ Kids(e) \in SUBSET Past(h)
      BY <1>3, <2>1
    <3>. QED  BY <1>1, <1>2, <2>5, <3>1, ChildAdded
  <2>. QED  BY <2>2, <2>3, <2>4, <2>6
<1>7. stack' # <<>> => e >= 1
  <2>1. stack' \in Seq(FrameSet)
    <3>1. CASE UNCHANGED stack
      BY <3>1 DEF TypeOK
    <3>2. CASE stack # <<>> /\ stack' = Pop(stack)
      BY <3>2, PopFacts DEF TypeOK
    <3>. QED  BY <3>1, <3>2 DEF Constructed
  <2>. QED  BY <1>1, <2>1, EmptySeq
<1>. QED  BY <1>5, <1>6, <1>7 DEF FramesGrow

(* The values around each finished value are counted again: those inside n  *)
(* have n around them now instead of its call. *)
LEMMA DepthsGrow ==
  ASSUME TypeOK, Spans, read # <<>>, NEW n, Constructed(n), DepthsCounted
  PROVE  DepthsCounted'
<1>. DEFINE e == Len(stack')
            d == Len(stack)
            h == Len(read)
            N == Len(nodes)
            Enc(m) == {j \in 1..N : nodes[j].from <= m.from /\ m.to <= nodes[j].to}
            EncX(m) == {j \in 1..(N + 1) : nodes'[j].from <= m.from /\ m.to <= nodes'[j].to}
            Arn(m) == {k \in 1..d : stack[k].start < m.from}
            ArnX(m) == {k \in 1..e : stack'[k].start < m.from}
<1>1. /\ N \in Nat /\ Len(nodes') = N + 1
      /\ \A i \in 1..N : nodes'[i] = nodes[i] /\ nodes[i] \in NodeSet
      /\ nodes'[N + 1] = n
      /\ d \in Nat /\ e \in Nat
      /\ \A k \in 1..e : k \in 1..d /\ stack'[k] = stack[k]
      /\ h \in Nat \ {0} /\ Here = h
  BY ConstructedFacts
<1>2. n \in NodeSet /\ n.to = h /\ n.from <= h /\ n.depth = e /\ n.from \in Nat
  BY <1>1 DEF Constructed, NodeSet
<1>3. \A i \in 1..N : /\ nodes[i].from \in Nat /\ nodes[i].to \in Nat /\ nodes[i].depth \in Nat
                      /\ nodes[i].from <= nodes[i].to /\ nodes[i].to < h
  BY <1>1, TypeFacts DEF Spans, NodesBehind, NodeSet
<1>4. /\ \A k \in 1..d : stack[k].start \in 1..(h - 1)
      /\ \A k, l \in 1..d : k < l => stack[k].start < stack[l].start
  BY DEF Spans, FramesOpen
<1>5. /\ \A m : IsFiniteSet(Enc(m)) /\ N + 1 \notin Enc(m)
      /\ \A m : IsFiniteSet(Arn(m))
  <2>1. IsFiniteSet(1..N) /\ IsFiniteSet(1..d)
    BY <1>1, FS_Interval
  <2>2. \A m : Enc(m) \in SUBSET (1..N) /\ Arn(m) \in SUBSET (1..d)
    OBVIOUS
  <2>3. \A m : IsFiniteSet(Enc(m)) /\ IsFiniteSet(Arn(m))
    BY <2>1, <2>2, FS_Subset
  <2>4. N + 1 \notin 1..N
    BY <1>1
  <2>. QED  BY <2>2, <2>3, <2>4
<1>6. ASSUME NEW m
      PROVE  EncX(m) = IF n.from <= m.from /\ m.to <= n.to THEN Enc(m) \cup {N + 1} ELSE Enc(m)
  <2>1. 1..(N + 1) = (1..N) \cup {N + 1}
    BY <1>1
  <2>. HIDE DEF N
  <2>2. \A j : j \in EncX(m) <=> j \in Enc(m) \/ (j = N + 1 /\ n.from <= m.from /\ m.to <= n.to)
    BY <1>1, <2>1
  <2>. QED  BY <2>2
<1>7. ASSUME UNCHANGED stack, n.from = Here
      PROVE  /\ \A i \in 1..N : Cardinality(EncX(nodes[i])) + Cardinality(ArnX(nodes[i]))
                                 = Cardinality(Enc(nodes[i])) + Cardinality(Arn(nodes[i]))
             /\ \A k \in 1..e : stack[k].start < n.from
  <2>1. e = d /\ stack' = stack /\ n.from = h
    BY <1>1, <1>7
  <2>2. ASSUME NEW i \in 1..N PROVE EncX(nodes[i]) = Enc(nodes[i]) /\ ArnX(nodes[i]) = Arn(nodes[i])
    <3>1. ~(n.from <= nodes[i].from)
      BY <1>1, <1>3, <2>1
    <3>. QED  BY <1>6, <2>1, <3>1
  <2>3. \A k \in 1..e : stack[k].start < n.from
    BY <1>1, <1>4, <2>1
  <2>. HIDE DEF Enc, EncX, Arn, ArnX, N
  <2>. QED  BY <2>2, <2>3
<1>8. ASSUME stack # <<>>, stack' = Pop(stack), n.from = Top.start
      PROVE  /\ \A i \in 1..N : Cardinality(EncX(nodes[i])) + Cardinality(ArnX(nodes[i]))
                                 = Cardinality(Enc(nodes[i])) + Cardinality(Arn(nodes[i]))
             /\ \A k \in 1..e : stack[k].start < n.from
  <2>1. d >= 1 /\ e = d - 1 /\ n.from = stack[d].start /\ d \in 1..d /\ n.from < h
    <3>1. d \in Nat \ {0} /\ e = d - 1
      BY <1>8, PopFacts DEF TypeOK
    <3>2. d \in 1..d
      BY <3>1
    <3>. QED  BY <1>1, <1>4, <1>8, <3>1, <3>2 DEF Top
  <2>2. ASSUME NEW i \in 1..N
        PROVE  Cardinality(EncX(nodes[i])) + Cardinality(ArnX(nodes[i]))
                 = Cardinality(Enc(nodes[i])) + Cardinality(Arn(nodes[i]))
    <3>1. nodes[i].to < n.from \/ n.from < nodes[i].from
      BY <2>1 DEF Spans, NodesBetween
    <3>2. ArnX(nodes[i]) = Arn(nodes[i]) \ {d}
      <4>1. 1..e = (1..d) \ {d}
        BY <1>1, <2>1
      <4>. HIDE DEF d, e
      <4>. QED  BY <1>1, <4>1
    <3>3. d \in Arn(nodes[i]) <=> n.from < nodes[i].from
      BY <2>1
    <3>4. Cardinality(Enc(nodes[i])) \in Nat /\ Cardinality(Arn(nodes[i])) \in Nat
      BY <1>5, FS_CardinalityType
    <3>5. Cardinality(Arn(nodes[i]) \ {d}) =
            IF d \in Arn(nodes[i]) THEN Cardinality(Arn(nodes[i])) - 1 ELSE Cardinality(Arn(nodes[i]))
      BY <1>5, FS_RemoveElement
    <3>6. Cardinality(Enc(nodes[i]) \cup {N + 1}) = Cardinality(Enc(nodes[i])) + 1
      BY <1>5, FS_AddElement
    <3>7. CASE n.from < nodes[i].from
      <4>1. n.from <= nodes[i].from /\ nodes[i].to <= n.to
        BY <1>1, <1>2, <1>3, <3>7
      <4>2. EncX(nodes[i]) = Enc(nodes[i]) \cup {N + 1}
        BY <1>6, <4>1
      <4>. HIDE DEF Enc, EncX, Arn, ArnX, N, d, e
      <4>. QED  BY <3>2, <3>3, <3>4, <3>5, <3>6, <3>7, <4>2
    <3>8. CASE nodes[i].to < n.from
      <4>1. ~(n.from <= nodes[i].from)
        BY <1>1, <1>2, <1>3, <3>8
      <4>2. EncX(nodes[i]) = Enc(nodes[i])
        BY <1>6, <4>1
      <4>3. ~(n.from < nodes[i].from)
        BY <1>2, <1>3, <4>1
      <4>. HIDE DEF Enc, EncX, Arn, ArnX, N, d, e
      <4>. QED  BY <3>2, <3>3, <3>4, <3>5, <4>2, <4>3
    <3>. QED  BY <3>1, <3>7, <3>8
  <2>3. ASSUME NEW k \in 1..e PROVE stack[k].start < n.from
    <3>1. k \in 1..d /\ d \in 1..d /\ k < d
      BY <1>1, <2>1
    <3>. QED  BY <1>4, <2>1, <3>1
  <2>. HIDE DEF Enc, EncX, Arn, ArnX, N
  <2>. QED  BY <2>2, <2>3
<1>9. /\ \A i \in 1..N : Cardinality(EncX(nodes[i])) + Cardinality(ArnX(nodes[i]))
                          = Cardinality(Enc(nodes[i])) + Cardinality(Arn(nodes[i]))
      /\ \A k \in 1..e : stack[k].start < n.from
  BY <1>7, <1>8 DEF Constructed
<1>10. EncX(n) = {N + 1}
  <2>1. Enc(n) = {}
    BY <1>1, <1>2, <1>3
  <2>. HIDE DEF Enc, EncX
  <2>. QED  BY <1>2, <1>6, <2>1
<1>11. ArnX(n) = 1..e
  <2>1. \A k \in 1..e : stack'[k].start < n.from
    BY <1>1, <1>9
  <2>. QED  BY <2>1
<1>12. Cardinality({N + 1}) = 1 /\ Cardinality(1..e) = e
  <2>. HIDE DEF N, e
  <2>1. Cardinality({N + 1}) = 1
    BY FS_Singleton
  <2>2. e \in Nat
    BY <1>1
  <2>3. Cardinality(1..e) = IF 1 > e THEN 0 ELSE e - 1 + 1
    BY <2>2, FS_Interval
  <2>. QED  BY <2>1, <2>2, <2>3
<1>13. \A i \in 1..N : Cardinality(Enc(nodes[i])) + Cardinality(Arn(nodes[i])) = nodes[i].depth + 1
  BY DEF DepthsCounted, Enclosing, Around
<1>14. ASSUME NEW i \in 1..(N + 1)
       PROVE  Cardinality(EncX(nodes'[i])) + Cardinality(ArnX(nodes'[i])) = nodes'[i].depth + 1
  <2>1. i \in 1..N \/ i = N + 1
    BY <1>1
  <2>. HIDE DEF Enc, EncX, Arn, ArnX, N, e
  <2>2. CASE i \in 1..N
    BY <1>1, <1>9, <1>13, <2>2
  <2>3. CASE i = N + 1
    <3>1. nodes'[i] = n
      BY <1>1, <2>3
    <3>2. Cardinality(EncX(n)) = 1 /\ Cardinality(ArnX(n)) = e
      BY <1>10, <1>11, <1>12
    <3>3. n.depth = e /\ e \in Nat
      BY <1>1, <1>2
    <3>. QED  BY <3>1, <3>2, <3>3
  <2>. QED  BY <2>1, <2>2, <2>3
<1>. QED  BY <1>1, <1>14 DEF DepthsCounted, Enclosing, Around

(* The parts of the invariant about a value that is being constructed, once *)
(* it is known to be derived, to begin where its parent expects it and to   *)
(* be the root if it has no parent. *)
LEMMA ConstructedTree ==
  ASSUME IInv, IInv', Tree, pc \in {"value", "first", "item"}, NEW n, Constructed(n),
         \A k \in 1..(Len(stack') - 1) : Grows(stack[k], Kids(k), stack[k + 1].start, 0, 2, read),
         Len(stack') >= 1 => Grows(stack[Len(stack')], Kids(Len(stack')), n.from, 0, 2, read),
         n.kind \notin ScalarKinds => \A i \in Nat : nodes'[i] = n => Built(nodes[i])',
         Len(stack') = 0 => n.from = 1,
         cur.kind # ":" /\ ~ IsOpening(cur), cur.kind \in ScalarKinds <=> n.from = Here,
         pc = "value" <=> n.from = Here
  PROVE  Tree'
<1>. DEFINE d == Len(stack)
            e == Len(stack')
            h == Len(read)
            N == Len(nodes)
<1>1. /\ TypeOK /\ Spans /\ NodesDerived /\ FramesGrow /\ Placed /\ DepthsCounted
      /\ Starts = Begun /\ read # <<>> /\ cur = read[h] /\ TypeOK' /\ Spans'
      /\ (stack # <<>> <=> d # 0)
  BY Running DEF IInv
<1>2. /\ N \in Nat /\ Len(nodes') = N + 1
      /\ \A i \in 1..N : nodes'[i] = nodes[i] /\ nodes[i] \in NodeSet
      /\ nodes'[N + 1] = n
      /\ d \in Nat /\ e \in Nat
      /\ \A k \in 1..e : k \in 1..d /\ stack'[k] = stack[k]
      /\ h \in Nat \ {0} /\ Extends(read', read) /\ Here = h /\ Here' = h + 1
  BY <1>1, ConstructedFacts
<1>3. n \in NodeSet /\ n.to = h /\ n.from <= h /\ pc' = "item" /\ n.from \in Nat
  BY <1>2 DEF Constructed, NodeSet
<1>4. PICK t \in Tokens : read' = Append(read, t)
  BY DEF Constructed
<1>5. FramesGrow' /\ DepthsCounted'
  BY <1>1, FramesGrowOn, DepthsGrow
<1>6. NodesDerived'
  <2>1. ASSUME NEW i \in 1..N, nodes[i].kind \notin ScalarKinds PROVE Built(nodes[i])'
    BY <1>1, <1>2, <2>1, DerivedKept
  <2>2. ASSUME NEW i \in 1..(N + 1), nodes'[i].kind \notin ScalarKinds PROVE Built(nodes[i])'
    <3>1. i \in 1..N \/ (i = N + 1 /\ i \in Nat)
      BY <1>2
    <3>2. CASE i \in 1..N
      BY <1>2, <2>1, <2>2, <3>2
    <3>3. CASE i = N + 1 /\ i \in Nat
      <4>1. nodes'[i] = n
        BY <1>2, <3>3
      <4>. HIDE DEF N
      <4>. QED  BY <2>2, <3>3, <4>1
    <3>. QED  BY <3>1, <3>2, <3>3
  <2>. QED  BY <1>2, <2>2 DEF NodesDerived
<1>7. Placed'
  <2>1. stack' # <<>> => e >= 1
    <3>1. stack' \in Seq(FrameSet)
      BY <1>1 DEF TypeOK
    <3>. QED  BY <1>2, <3>1, EmptySeq
  <2>2. stack' # <<>> => stack'[1].start = 1
    BY <1>1, <1>2, <2>1 DEF Placed
  <2>3. stack' = <<>> => nodes' # <<>> /\ nodes'[Len(nodes')].from = 1 /\ nodes'[Len(nodes')].to = Here' - 1
    BY <1>2, <1>3
  <2>4. Here' > 1
    BY <1>2
  <2>. QED  BY <1>3, <2>2, <2>3, <2>4 DEF Placed
<1>8. Starts' = Starts \cup {n.from}
  <2>1. {nodes'[i].from : i \in 1..(N + 1)} = {nodes[i].from : i \in 1..N} \cup {n.from}
    <3>1. 1..(N + 1) = (1..N) \cup {N + 1}
      BY <1>2
    <3>. HIDE DEF N
    <3>. QED  BY <1>2, <3>1
  <2>2. CASE UNCHANGED stack
    BY <1>2, <2>1, <2>2 DEF Starts
  <2>3. CASE stack # <<>> /\ stack' = Pop(stack) /\ n.from = Top.start
    <3>1. d \in Nat \ {0} /\ e = d - 1
      BY <1>1, <2>3, PopFacts DEF TypeOK
    <3>2. 1..d = (1..e) \cup {d}
      BY <3>1
    <3>3. {stack[k].start : k \in 1..d} = {stack'[k].start : k \in 1..e} \cup {n.from}
      <4>1. n.from = stack[d].start
        BY <2>3 DEF Top
      <4>2. \A k \in 1..e : stack'[k] = stack[k]
        BY <1>2
      <4>. HIDE DEF d, e
      <4>. QED  BY <3>2, <4>1, <4>2
    <3>. QED  BY <1>2, <2>1, <3>3 DEF Starts
  <2>. QED  BY <2>2, <2>3 DEF Constructed
<1>9. Begun' = Begun \cup (IF n.from = h THEN {h} ELSE {})
  <2>1. BeginsHere(pc') <=> n.from = h
    BY <1>1, <1>2, <1>3 DEF BeginsHere
  <2>2. Here > 1 /\ read[Here - 1].kind \in ScalarKinds => (pc \in {"item", "done"} <=> read[Here].kind # ":")
    BY <1>1, <1>2 DEF Placed
  <2>. QED  BY <1>1, <1>2, <1>4, <2>1, <2>2, BegunGrows
<1>10. n.from # h => n.from \in Starts
  <2>1. n.from # h => d \in 1..d /\ n.from = stack[d].start
    BY <1>1, <1>2 DEF Constructed, Top
  <2>. QED  BY <2>1 DEF Starts
<1>. QED  BY <1>1, <1>3, <1>5, <1>6, <1>7, <1>8, <1>9, <1>10 DEF Tree

(* A scalar. *)
LEMMA ScalarTree == ASSUME IInv, IInv', Tree, Scalar PROVE Tree'
<1>. DEFINE d == Len(stack)
            n == Node(cur.kind, Here, Here, Depth, <<>>)
<1>1. /\ pc = "value" /\ cur.kind \in ScalarKinds /\ UNCHANGED stack /\ Advance("item")
      /\ (pc' = "item" => nodes' = Append(nodes, n)) /\ (pc' # "item" => nodes' = nodes)
  BY DEF Scalar, Construct
<1>2. /\ TypeOK /\ Spans /\ NodesDerived /\ FramesGrow /\ Placed
      /\ read # <<>> /\ TypeOK' /\ Spans' /\ d \in Nat /\ (stack # <<>> <=> d # 0)
      /\ Len(read) \in Nat \ {0}
  BY <1>1, Running DEF IInv
<1>3. CASE pc' = "error"
  BY <1>1, <1>2, <1>3, AdvanceExtends, ErrorTree
<1>4. CASE pc' # "error"
  <2>1. pc' = "item" /\ \E t \in Tokens : read' = Append(read, t)
    BY <1>1, <1>4, AdvanceReads
  <2>2. /\ n \in NodeSet /\ n.kind = cur.kind /\ n.from = Here /\ n.to = Here /\ n.depth = d
    <3>. <<>> \in Seq(KeySet)
      OBVIOUS
    <3>. QED  BY <1>1, <1>2 DEF Node, Here, Depth, NodeSet
  <2>. HIDE DEF n
  <2>3. Constructed(n) /\ n.kind \in ScalarKinds
    BY <1>1, <1>2, <2>1, <2>2 DEF Constructed, Here
  <2>4. \A k \in 1..(d - 1) : Grows(stack[k], Kids(k), stack[k + 1].start, 0, 2, read)
    BY <1>2 DEF FramesGrow
  <2>5. d >= 1 => Grows(stack[d], Kids(d), n.from, 0, 2, read)
    <3>1. Frontier = Here /\ Fresh = 0 /\ KeyParts = 2
      BY <1>1 DEF Frontier, Fresh, KeyParts
    <3>. QED  BY <1>2, <2>2, <3>1 DEF FramesGrow, Top
  <2>6. d = 0 => n.from = 1
    BY <1>1, <1>2, <2>2 DEF Placed
  <2>7. cur.kind # ":" /\ ~ IsOpening(cur)
    BY <1>1, Punctuation
  <2>. QED  BY <1>1, <2>2, <2>3, <2>4, <2>5, <2>6, <2>7, ConstructedTree
<1>. QED  BY <1>3, <1>4

(* A container closes: its children are chained up to the closing bracket.  *)
LEMMA CloseTree == ASSUME IInv, IInv', Tree, Close PROVE Tree'
<1>. DEFINE d == Len(stack)
            h == Len(read)
            n == Node(Top.kind, Top.start, Here, Depth - 1, Top.keys)
<1>1. /\ pc \in {"first", "item"} /\ stack # <<>> /\ stack' = Pop(stack) /\ Advance("item")
      /\ (pc' = "item" => nodes' = Append(nodes, n)) /\ (pc' # "item" => nodes' = nodes)
  BY DEF Close, Construct
<1>2. /\ TypeOK /\ Spans /\ NodesDerived /\ FramesGrow /\ Placed
      /\ read # <<>> /\ TypeOK' /\ Spans' /\ d \in Nat \ {0}
      /\ h \in Nat \ {0} /\ Here = h
  BY <1>1, Running DEF IInv, Here
<1>3. CASE pc' = "error"
  BY <1>1, <1>2, <1>3, AdvanceExtends, ErrorTree
<1>4. CASE pc' # "error"
  <2>1. pc' = "item" /\ \E t \in Tokens : read' = Append(read, t)
    BY <1>1, <1>4, AdvanceReads
  <2>2. /\ Top \in FrameSet /\ Top.start \in 1..h /\ Top.start < h /\ Kids(d) \in SUBSET Past(h)
        /\ d \in 1..d /\ Top = stack[d]
    BY <1>1, <1>2, TopPlace DEF Top
  <2>3. /\ n \in NodeSet /\ n.kind = Top.kind /\ n.from = Top.start /\ n.to = h /\ n.depth = d - 1
        /\ n.keys = Top.keys
    BY <1>2, <2>2 DEF Node, Depth, NodeSet, FrameSet
  <2>. HIDE DEF n
  <2>4. /\ Len(stack') = d - 1 /\ \A k \in 1..(d - 1) : stack'[k] = stack[k]
    BY <1>1, <1>2, PopFacts DEF TypeOK
  <2>5. Constructed(n) /\ n.kind \notin ScalarKinds
    <3>1. n.kind \notin ScalarKinds
      BY <2>2, <2>3 DEF FrameSet, ScalarKinds
    <3>. QED  BY <1>1, <1>2, <2>1, <2>2, <2>3, <2>4, <3>1 DEF Constructed
  <2>6. /\ \A k \in 1..(d - 1) : Grows(stack[k], Kids(k), stack[k + 1].start, 0, 2, read)
        /\ Grows(Top, Kids(d), Frontier, Fresh, KeyParts, read)
    BY <1>1, <1>2 DEF FramesGrow
  <2>7. d - 1 >= 1 => Grows(stack[d - 1], Kids(d - 1), n.from, 0, 2, read)
    <3>1. d - 1 >= 1 => d - 1 \in 1..(d - 1) /\ d - 1 + 1 = d
      BY <1>2
    <3>. QED  BY <2>2, <2>3, <2>6, <3>1
  <2>8. /\ Lead(Top.kind) \in {1, 3} /\ KeyParts = 0
        /\ pc = "first" => Frontier = h - 1 + Lead(Top.kind) /\ h = Top.start + 1 /\ Fresh = 0
        /\ pc = "item" => Frontier = h + Lead(Top.kind) /\ Fresh = h
    BY <1>1, <1>2 DEF Lead, KeyParts, Frontier, Fresh, Placed
  <2>9. ASSUME NEW i \in Nat, nodes'[i] = n PROVE Built(nodes[i])'
    <3>1. ChildrenOf(nodes[i])' = Kids(d)
      <4>1. /\ Len(nodes) \in Nat /\ Len(nodes') = Len(nodes) + 1
            /\ \A j \in 1..Len(nodes) : nodes'[j] = nodes[j] /\ nodes[j].to < h
            /\ nodes'[Len(nodes) + 1] = n
        BY <1>2, <2>5, ConstructedFacts DEF Spans, NodesBehind
      <4>2. ~(n.from < n.from) /\ n.depth + 1 = d /\ stack[d].start = n.from
        BY <1>2, <2>2, <2>3
      <4>3. 1..(Len(nodes) + 1) = (1..Len(nodes)) \cup {Len(nodes) + 1}
        BY <4>1
      <4>4. \A j \in 1..Len(nodes') :
              (n.from < nodes'[j].from /\ nodes'[j].to < n.to /\ nodes'[j].depth = n.depth + 1)
                <=> (j \in 1..Len(nodes) /\ stack[d].start < nodes[j].from /\ nodes[j].depth = d)
        <5>. HIDE DEF d, h
        <5>. QED  BY <2>3, <4>1, <4>2, <4>3
      <4>5. ChildrenOf(nodes[i])' = {nodes'[j] : j \in {j \in 1..Len(nodes') :
               n.from < nodes'[j].from /\ nodes'[j].to < n.to /\ nodes'[j].depth = n.depth + 1}}
        BY <2>9 DEF ChildrenOf
      <4>6. \A j \in 1..Len(nodes) : j \in 1..Len(nodes') /\ nodes'[j] = nodes[j]
        BY <4>1, <4>3
      <4>. HIDE DEF d
      <4>7. \A x : x \in ChildrenOf(nodes[i])' <=> x \in Kids(d)
        BY <4>4, <4>5, <4>6 DEF Kids
      <4>. QED  BY <4>7
    <3>2. \A c \in Kids(d) :
            /\ c \in NodeSet /\ c.from <= c.to /\ c.to < h /\ c.from >= n.from + Lead(n.kind)
      BY <2>2, <2>3, <2>6 DEF Past, Grows, Chained
    <3>3. IF Kids(d) = {} THEN n.to = n.from + 1
          ELSE \E c \in Kids(d) : c.from = n.from + Lead(n.kind)
      <4>1. Kids(d) = {} => Frontier = Top.start + Lead(Top.kind)
        BY <2>6 DEF Grows, Chained
      <4>2. Kids(d) = {} => n.to = n.from + 1
        BY <1>1, <1>2, <2>2, <2>3, <2>8, <4>1
      <4>3. Kids(d) # {} => \E c \in Kids(d) : c.from = n.from + Lead(n.kind)
        BY <2>3, <2>6 DEF Grows, Chained
      <4>. QED  BY <4>2, <4>3
    <3>4. \A c \in Kids(d) :
            \/ c.to + 1 = n.to
            \/ IsComma(read'[c.to + 1]) /\ \E x \in Kids(d) : x.from = c.to + 1 + Lead(n.kind)
      <4>. SUFFICES ASSUME NEW c \in Kids(d), c.to + 1 # h
                    PROVE  IsComma(read'[c.to + 1]) /\ \E x \in Kids(d) : x.from = c.to + 1 + Lead(n.kind)
        BY <2>3
      <4>1. /\ c.from \in Nat /\ c.to \in Nat /\ c.from <= c.to /\ c.to < h /\ c.from > n.from
        <5>1. c \in NodeSet /\ c.from <= c.to /\ c.to < h
          BY <3>2
        <5>2. c.from >= n.from + Lead(n.kind)
          BY <3>2
        <5>3. n.from \in Nat /\ Lead(n.kind) \in {1, 3}
          BY <2>2, <2>3, <2>8
        <5>. QED  BY <5>1, <5>2, <5>3 DEF NodeSet
      <4>2. pc = "item"
        BY <1>1, <1>2, <2>2, <2>3, <2>8, <4>1
      <4>3. /\ c.to + 1 + Lead(Top.kind) = Frontier \/ \E x \in Kids(d) : x.from = c.to + 1 + Lead(Top.kind)
            /\ c.to + 1 = Fresh \/ IsComma(read[c.to + 1])
        BY <2>6 DEF Grows, Chained
      <4>4. c.to + 1 + Lead(Top.kind) # Frontier /\ c.to + 1 # Fresh
        BY <1>2, <2>8, <4>1, <4>2
      <4>5. read'[c.to + 1] = read[c.to + 1]
        BY <1>2, <2>1, <4>1, ReadExtends DEF Extends
      <4>. QED  BY <2>3, <4>3, <4>4, <4>5
    <3>5. n.kind = "object" =>
            /\ \A c \in Kids(d) : read'[c.from - 2].kind = "string" /\ read'[c.from - 1].kind = ":"
            /\ Range(n.keys) = {read'[c.from - 2].data : c \in Kids(d)}
      <4>. SUFFICES ASSUME n.kind = "object"
                    PROVE  /\ \A c \in Kids(d) :
                                read'[c.from - 2].kind = "string" /\ read'[c.from - 1].kind = ":"
                           /\ Range(n.keys) = {read'[c.from - 2].data : c \in Kids(d)}
        OBVIOUS
      <4>1. Keyed(Top, Kids(d), Frontier, 0, read)
        BY <2>3, <2>6, <2>8 DEF Grows
      <4>2. /\ \A c \in Kids(d) : read[c.from - 2].kind = "string" /\ read[c.from - 1].kind = ":"
            /\ Range(n.keys) = {read[c.from - 2].data : c \in Kids(d)}
        BY <2>3, <4>1 DEF Keyed
      <4>3. ASSUME NEW c \in Kids(d)
            PROVE  read'[c.from - 2] = read[c.from - 2] /\ read'[c.from - 1] = read[c.from - 1]
        <5>1. c \in NodeSet /\ c.from <= c.to /\ c.to < h /\ c.from >= n.from + Lead(n.kind)
          BY <3>2
        <5>2. n.from \in Nat /\ n.from >= 1 /\ Lead(n.kind) = 3
          BY <2>2, <2>3 DEF Lead
        <5>3. c.from - 2 \in 1..h /\ c.from - 1 \in 1..h
          BY <1>2, <5>1, <5>2 DEF NodeSet
        <5>. QED  BY <1>2, <2>1, <5>3, ReadExtends DEF Extends
      <4>. HIDE DEF d
      <4>4. {read'[c.from - 2].data : c \in Kids(d)} = {read[c.from - 2].data : c \in Kids(d)}
        BY <4>3
      <4>. QED  BY <4>2, <4>3, <4>4
    <3>. QED  BY <2>9, <3>1, <3>2, <3>3, <3>4, <3>5 DEF Built
  <2>10. d - 1 = 0 => n.from = 1
    <3>1. stack[1].start = 1
      BY <1>1, <1>2 DEF Placed
    <3>2. d - 1 = 0 => d = 1
      BY <1>2
    <3>. QED  BY <2>2, <2>3, <3>1, <3>2
  <2>11. cur.kind # ":" /\ ~ IsOpening(cur) /\ cur.kind \notin ScalarKinds
    BY Zenon DEF Close, Closing, IsOpening, ScalarKinds
  <2>12. n.from # Here /\ pc # "value"
    BY <1>1, <1>2, <2>2, <2>3
  <2>. HIDE DEF d
  <2>13. \A k \in 1..(Len(stack') - 1) : Grows(stack[k], Kids(k), stack[k + 1].start, 0, 2, read)
    BY <1>2, <2>4, <2>6
  <2>. QED  BY <1>1, <2>4, <2>5, <2>7, <2>9, <2>10, <2>11, <2>12, <2>13, ConstructedTree
<1>. QED  BY <1>3, <1>4

(* Only EOF follows the root. *)
LEMMA FinishTree == ASSUME IInv, IInv', Tree, Finish PROVE Tree'
<1>1. /\ pc = "item" /\ stack = <<>> /\ cur.kind = "EOF" /\ pc' = "done"
      /\ UNCHANGED <<read, cur, stack, nodes>>
  BY DEF Finish, Goto
<1>2. /\ TypeOK /\ Spans /\ NodesDerived /\ Placed /\ DepthsCounted /\ Starts = Begun
      /\ TypeOK' /\ Spans' /\ Len(stack) = 0
  BY <1>1, Running DEF IInv
<1>3. NodesDerived' /\ DepthsCounted' /\ Starts' = Starts
  BY <1>1, <1>2, SameShape DEF Extends
<1>4. Begun' = Begun
  BY <1>1 DEF Begun, Here
<1>5. FramesGrow' /\ Placed'
  BY <1>1, <1>2 DEF FramesGrow, Placed, Here
<1>. QED  BY <1>1, <1>2, <1>3, <1>4, <1>5 DEF Tree

(* Every step of the parser keeps the parse tree. *)
LEMMA NextTree == ASSUME IInv, IInv', Tree, [Next]_vars PROVE Tree'
<1>1. CASE Start
  BY <1>1, StartTree
<1>2. ASSUME NEW code, Reject(code) PROVE Tree'
  <2>1. pc' = "error" /\ UNCHANGED <<read, nodes>> /\ Extends(read', read)
    BY <1>2 DEF Reject, Fail, Extends
  <2>. QED  BY <2>1, ErrorTree DEF IInv, Tree
<1>3. CASE TooDeep \/ NoValue \/ TrailingComma \/ NoSeparator \/ NoKey \/ DuplicateKey \/ NoColon \/ TrailingData
  BY <1>2, <1>3 DEF TooDeep, NoValue, TrailingComma, NoSeparator, NoKey, DuplicateKey, NoColon, TrailingData
<1>4. CASE Scalar
  BY <1>4, ScalarTree
<1>5. CASE Open("[", "array") \/ Open("{", "object")
  BY <1>5, OpenTree, Zenon DEF Opening
<1>6. CASE Enter
  BY <1>6, EnterTree
<1>7. CASE Close
  BY <1>7, CloseTree
<1>8. CASE Comma \/ Colon
  <2>1. stack # <<>>
    BY <1>8, Zenon DEF Comma, Colon, IInv, InsideContainer
  <2>. QED  BY <1>8, <2>1, PassTree
<1>9. CASE Key
  BY <1>9, KeyTree
<1>10. CASE Finish
  BY <1>10, FinishTree
<1>11. CASE UNCHANGED vars
  <2>1. UNCHANGED <<read, cur, stack, nodes, pc, err>>
    BY <1>11 DEF vars
  <2>2. NodesDerived'
    BY <2>1, SameShape, DerivedKept, TypeFacts DEF IInv, Tree, NodesDerived, Extends
  <2>3. FramesGrow' <=> FramesGrow
    BY <2>1, Zenon DEF FramesGrow, Kids, Top, Frontier, Here, Fresh, KeyParts
  <2>4. (Placed' <=> Placed) /\ (DepthsCounted' <=> DepthsCounted)
    BY <2>1, Zenon DEF Placed, DepthsCounted, Enclosing, Around, Here, Top
  <2>5. Starts' = Starts /\ Begun' = Begun
    BY <2>1, Zenon DEF Starts, Begun, Here
  <2>. QED  BY <2>1, <2>2, <2>3, <2>4, <2>5 DEF Tree
<1>. QED
  BY <1>1, <1>3, <1>4, <1>5, <1>6, <1>7, <1>8, <1>9, <1>10, <1>11 DEF Next, Value, Items, Member

(* Before the first token there is nothing. *)
LEMMA InitTree == ASSUME Init PROVE Tree
<1>1. pc = "start" /\ Here = 0 /\ nodes = <<>> /\ stack = <<>> /\ Len(nodes) = 0 /\ Len(stack) = 0
  BY DEF Init, Here
<1>. QED  BY <1>1 DEF Tree, NodesDerived, FramesGrow, Placed, DepthsCounted

(* The two ways of naming the values directly in another agree. *)
LEMMA BuiltIsDerived ==
  ASSUME TypeOK, NEW n
  PROVE  Built(n) <=> Derived(n, Range(nodes), read)
<1>1. DOMAIN nodes = 1..Len(nodes)
  BY LenProperties DEF TypeOK
<1>2. Range(nodes) = {nodes[j] : j \in 1..Len(nodes)}
  BY <1>1 DEF Range
<1>3. Children(n, Range(nodes)) = ChildrenOf(n)
  BY <1>2 DEF Children, ChildrenOf
<1>. QED  BY <1>3, Zenon DEF Built, Derived, KeyOf

(* What Tree says of the finished values and of an accepted document is     *)
(* what IsParseTree does. *)
LEMMA TreeIsParseTree == ASSUME IInv, Tree PROVE IsParseTree
<1>1. \A i \in 1..Len(nodes) :
        nodes[i].kind \notin ScalarKinds => Derived(nodes[i], Range(nodes), read)
  BY BuiltIsDerived DEF Tree, NodesDerived, IInv
<1>2. ASSUME pc = "done"
      PROVE  /\ nodes # <<>>
             /\ nodes[Len(nodes)].from = 1 /\ nodes[Len(nodes)].to = Len(read) - 1
             /\ {nodes[i].from : i \in 1..Len(nodes)} = {i \in 1..(Len(read) - 1) : BeginsValue(i)}
             /\ \A i \in 1..Len(nodes) : Cardinality(Enclosing(nodes[i])) = nodes[i].depth + 1
  <2>1. /\ TypeOK /\ Placed /\ DepthsCounted /\ Starts = Begun /\ cur = read[Len(read)]
        /\ Len(read) \in Nat \ {0} /\ stack = <<>> /\ Len(stack) = 0 /\ cur.kind = "EOF"
    BY <1>2, Running DEF Placed
  <2>2. nodes # <<>> /\ nodes[Len(nodes)].from = 1 /\ nodes[Len(nodes)].to = Len(read) - 1
    BY <1>2, <2>1 DEF Placed, Here
  <2>3. {nodes[i].from : i \in 1..Len(nodes)} = Starts
    BY <2>1 DEF Starts
  <2>4. Begun = {i \in 1..(Len(read) - 1) : BeginsValue(i)}
    <3>1. ASSUME NEW i \in 1..(Len(read) - 1), i = Here - 1 PROVE read[i + 1].kind # ":"
      BY <2>1, <3>1 DEF Here
    <3>. QED  BY <1>2, <3>1 DEF Begun, BeginsValue, Here
  <2>5. ASSUME NEW i \in 1..Len(nodes) PROVE Cardinality(Enclosing(nodes[i])) = nodes[i].depth + 1
    <3>1. Around(nodes[i]) = {}
      BY <2>1 DEF Around
    <3>2. Cardinality({}) = 0
      BY FS_EmptySet
    <3>3. IsFiniteSet(Enclosing(nodes[i]))
      <4>1. IsFiniteSet(1..Len(nodes))
        BY <2>1, TypeFacts, FS_Interval
      <4>2. Enclosing(nodes[i]) \in SUBSET (1..Len(nodes))
        BY DEF Enclosing
      <4>. QED  BY <4>1, <4>2, FS_Subset
    <3>4. Cardinality(Enclosing(nodes[i])) \in Nat
      BY <3>3, FS_CardinalityType
    <3>5. Cardinality(Enclosing(nodes[i])) + 0 = nodes[i].depth + 1
      BY <1>2, <2>1, <3>1, <3>2 DEF DepthsCounted
    <3>. QED  BY <3>4, <3>5
  <2>. QED  BY <2>1, <2>2, <2>3, <2>4, <2>5
<1>. QED  BY <1>1, <1>2 DEF IsParseTree

(* What Parse accepts is a JSON document, and the value it returns is that  *)
(* document's parse tree: for every input and all limits. *)
THEOREM ParsesTheDocument == Spec => []IsParseTree
<1>1. Init => IInv /\ Tree
  BY InitIInv, InitTree
<1>2. IInv /\ Tree /\ [Next]_vars => (IInv /\ Tree)'
  BY NextIInv, NextTree
<1>3. IInv /\ Tree => IsParseTree
  BY TreeIsParseTree
<1>. QED  BY <1>1, <1>2, <1>3, PTL DEF Spec

-----------------------------------------------------------------------------
(***************************************************************************)
(* The other direction: a text that has a parse tree is refused only for a *)
(* limit.  While Parse() reads a document x, the calls in progress follow   *)
(* containers of x's tree from the root inwards, and the tree says what the *)
(* next token is; that is the invariant OnCourse.                           *)
(***************************************************************************)

(* q begins what Parse() reads of x. *)
Begins(q, x) ==
  /\ Len(q) <= Len(x.text) + 1
  /\ \A i \in 1..Len(q) : q[i] = Whole(x)[i]

(* What may stand next where d containers of x are open, p of them: the     *)
(* root, or what is directly in the innermost one.                          *)
Level(x, p, d) == IF d = 0 THEN {n \in x.tree : IsRoot(n, x)} ELSE Children(p[d], x.tree)

(* The calls in progress are in the containers p of x, and the keys seen    *)
(* are those of their children up to the current token.                     *)
Linked(x, p) ==
  \A k \in 1..Len(stack) :
    /\ p[k] \in Level(x, p, k - 1) /\ p[k] \in x.tree
    /\ p[k].from = stack[k].start /\ p[k].kind = stack[k].kind /\ p[k].depth = k - 1
    /\ \A key \in Range(stack[k].keys) :
         \E c \in Children(p[k], x.tree) : c.from <= Here + 1 /\ KeyOf(c, x.text) = key

(* The current token is where the code and the tree have it. *)
Expects(x, p) ==
  LET level == Level(x, p, Len(stack)) IN
  /\ pc = "value" => \E c \in level : c.from = Here
  /\ pc = "next"  => \E c \in level : c.from = Here - 1 + Lead(Top.kind)
  /\ pc = "key"   => Top.kind = "object" /\ \E c \in level : c.from = Here + 2
  /\ pc = "colon" => Top.kind = "object" /\ \E c \in level : c.from = Here + 1
  /\ pc = "item"  => \E c \in level : c.to + 1 = Here

OnCourse ==
  /\ pc = "error" => err \in Verdicts
  /\ \A x \in Corpus : Begins(read, x) =>
       /\ pc = "error" => Refusable(x, err, Here)
       /\ pc \notin {"start", "error"} => \E p : Linked(x, p) /\ Expects(x, p)

-----------------------------------------------------------------------------
(* Brackets, commas, colons, keys and values are told apart by their kinds. *)
LEMMA Brackets ==
  ASSUME NEW t, NEW kind
  PROVE  /\ t.kind = Ending(kind) =>
              t.kind \notin ScalarKinds /\ ~ IsOpening(t) /\ ~ IsComma(t) /\ t.kind # ":" /\ t.kind # "EOF"
         /\ t.kind = Opening(kind) => t.kind \notin ScalarKinds /\ IsOpening(t)
         /\ t.kind = "EOF" => t.kind \notin ScalarKinds /\ ~ IsOpening(t) /\ ~ IsComma(t)
         /\ t.kind = "string" => t.kind \in ScalarKinds
BY Zenon DEF Ending, Opening, IsOpening, IsComma, ScalarKinds

LEMMA ClosingIs == Closing <=> cur.kind = Ending(Top.kind)
BY Zenon DEF Closing, Ending

(* The text of a document and what Parse() reads of it. *)
LEMMA TextFacts ==
  ASSUME NEW x \in Corpus
  PROVE  /\ IsDocument(x) /\ Len(x.text) \in Nat
         /\ Whole(x) \in Seq(Tokens) /\ Len(Whole(x)) = Len(x.text) + 1
         /\ \A i \in 1..Len(x.text) : Whole(x)[i] = x.text[i] /\ x.text[i].kind # "invalid"
         /\ Whole(x)[Len(x.text) + 1].kind = "EOF"
<1>1. IsDocument(x)
  BY CorpusAssumption
<1>2. x.text \in Seq(Tokens) /\ EndOfInput \in Tokens
  BY <1>1, ParserAssumption DEF IsDocument
<1>3. /\ Whole(x) \in Seq(Tokens) /\ Len(Whole(x)) = Len(x.text) + 1
      /\ \A i \in 1..Len(x.text) : Whole(x)[i] = x.text[i]
      /\ Whole(x)[Len(x.text) + 1] = EndOfInput /\ Len(x.text) \in Nat
  BY <1>2, AppendFacts DEF Whole
<1>4. EndOfInput.kind = "EOF"
  BY DEF EndOfInput
<1>. QED  BY <1>1, <1>3, <1>4 DEF IsDocument

(* A value of a document's tree and the tokens at its ends. *)
LEMMA NodeFacts ==
  ASSUME NEW x \in Corpus, NEW n \in x.tree
  PROVE  /\ n \in NodeSet /\ n.from \in 1..Len(x.text) /\ n.to \in 1..Len(x.text) /\ n.from <= n.to
         /\ n.kind \in ScalarKinds => n.from = n.to /\ x.text[n.from].kind = n.kind
         /\ n.kind \notin ScalarKinds =>
              /\ x.text[n.from].kind = Opening(n.kind) /\ x.text[n.to].kind = Ending(n.kind)
              /\ n.from < n.to /\ Derived(n, x.tree, x.text)
<1>1. n \in NodeSet /\ HasSpan(n, x) /\ (n.kind \notin ScalarKinds => Derived(n, x.tree, x.text))
  BY TextFacts DEF IsDocument
<1>2. n.from \in Nat /\ n.to \in Nat /\ Len(x.text) \in Nat
  BY <1>1, TextFacts DEF NodeSet
<1>3. 1 <= n.from /\ n.to <= Len(x.text) /\ n.from <= n.to
  BY <1>1, <1>2 DEF HasSpan
<1>. QED  BY <1>1, <1>2, <1>3 DEF HasSpan

(* What is directly in a container, and what stands before and after it.    *)
LEMMA ChildFacts ==
  ASSUME NEW x \in Corpus, NEW n \in x.tree, n.kind \in {"array", "object"},
         NEW c \in Children(n, x.tree)
  PROVE  /\ c \in x.tree /\ c.depth = n.depth + 1 /\ c.to < n.to
         /\ c.from >= n.from + Lead(n.kind) /\ Lead(n.kind) \in {1, 3}
         /\ \/ c.to + 1 = n.to
            \/ /\ IsComma(x.text[c.to + 1])
               /\ \E d \in Children(n, x.tree) : d.from = c.to + 1 + Lead(n.kind)
         /\ n.kind = "array" => Lead(n.kind) = 1
         /\ n.kind = "object" => /\ Lead(n.kind) = 3
                                 /\ x.text[c.from - 2].kind = "string" /\ x.text[c.from - 1].kind = ":"
<1>1. Derived(n, x.tree, x.text)
  BY NodeFacts DEF ScalarKinds
<1>2. c \in x.tree /\ c.depth = n.depth + 1 /\ c.to < n.to
  BY DEF Children
<1>. HIDE DEF ScalarKinds
<1>. QED  BY <1>1, <1>2 DEF Derived, Lead

(* A value begins with its bracket or is its token. *)
LEMMA BeginFacts ==
  ASSUME NEW x \in Corpus, NEW n \in x.tree
  PROVE  /\ x.text[n.from].kind \in ScalarKinds \/ IsOpening(x.text[n.from])
         /\ \A kind : x.text[n.from].kind # Ending(kind)
         /\ x.text[n.from].kind \in ScalarKinds => n.to = n.from
         /\ IsOpening(x.text[n.from]) =>
              n.kind \in {"array", "object"} /\ x.text[n.from].kind = Opening(n.kind)
<1>1. n \in NodeSet
  BY NodeFacts
<1>2. n.kind \notin ScalarKinds => n.kind \in {"array", "object"}
  BY <1>1 DEF NodeSet
<1>3. CASE n.kind \in ScalarKinds
  <2>1. x.text[n.from].kind \in ScalarKinds /\ n.to = n.from
    BY <1>3, NodeFacts
  <2>. QED  BY <2>1, Brackets, Punctuation
<1>4. CASE n.kind \notin ScalarKinds
  <2>1. x.text[n.from].kind = Opening(n.kind)
    BY <1>4, NodeFacts
  <2>. QED  BY <1>2, <1>4, <2>1, Brackets, Punctuation
<1>. QED  BY <1>3, <1>4

-----------------------------------------------------------------------------
(* Where the current token is while x is read. *)
LEMMA Current ==
  ASSUME IInv, Tree, pc \notin {"start", "error"}, NEW x \in Corpus, Begins(read, x)
  PROVE  /\ Here \in Nat \ {0} /\ Here <= Len(x.text) + 1 /\ Len(x.text) \in Nat
         /\ cur = Whole(x)[Here] /\ (Here <= Len(x.text) => cur = x.text[Here])
         /\ Here = Len(x.text) + 1 => cur.kind = "EOF"
<1>1. cur = read[Len(read)] /\ Len(read) \in Nat \ {0}
  BY Running
<1>2. Here \in Nat \ {0} /\ Here <= Len(x.text) + 1 /\ cur = Whole(x)[Here]
  BY <1>1 DEF Begins, Here
<1>. QED  BY <1>2, TextFacts

(* An advance() over x does not fail. *)
LEMMA AdvanceOn ==
  ASSUME TypeOK, NEW x \in Corpus, NEW next, Advance(next), Begins(read', x)
  PROVE  /\ Begins(read, x) /\ pc' = next
         /\ Here \in Nat /\ Here' = Here + 1 /\ Here' <= Len(x.text) + 1 /\ Len(x.text) \in Nat
<1>1. PICK t \in Tokens : /\ read' = Append(read, t)
                          /\ t.kind # "invalid" => pc' = next
  BY DEF Advance
<1>2. /\ Len(read) \in Nat /\ Len(read') = Len(read) + 1
      /\ \A i \in 1..Len(read) : read'[i] = read[i]
      /\ read'[Len(read')] = t
  BY <1>1, ReadGrows
<1>3. t = Whole(x)[Len(read) + 1] /\ Len(read) + 1 \in 1..(Len(x.text) + 1) /\ Begins(read, x)
  BY <1>2, TextFacts DEF Begins
<1>4. t.kind # "invalid"
  BY <1>3, TextFacts
<1>. QED  BY <1>1, <1>2, <1>3, <1>4, TextFacts DEF Here, Begins

(* The value that stands next, and the container it is in. *)
LEMMA LevelFacts ==
  ASSUME IInv, NEW x \in Corpus, NEW p, Linked(x, p), NEW c \in Level(x, p, Len(stack))
  PROVE  /\ c \in x.tree /\ c.depth = Len(stack) /\ Len(stack) \in Nat
         /\ stack = <<>> => c.from = 1 /\ c.to = Len(x.text)
         /\ stack # <<>> =>
              LET n == p[Len(stack)] IN
              /\ n \in x.tree /\ n.kind = Top.kind /\ n.kind \in {"array", "object"}
              /\ Len(stack) \in Nat \ {0} /\ n.from = Top.start
              /\ c \in Children(n, x.tree) /\ Children(n, x.tree) = Level(x, p, Len(stack))
<1>1. TypeOK
  BY DEF IInv
<1>2. CASE stack = <<>>
  <2>1. Len(stack) = 0
    BY <1>2
  <2>. QED  BY <1>2, <2>1 DEF Level, IsRoot
<1>3. CASE stack # <<>>
  <2>. DEFINE d == Len(stack)
              n == p[d]
  <2>1. d \in Nat \ {0} /\ Top \in FrameSet /\ Top = stack[d]
    <3>1. d \in Nat \ {0}
      BY <1>1, <1>3, EmptySeq DEF TypeOK
    <3>. QED  BY <1>1, <3>1, TypeFacts DEF Top
  <2>2. n \in x.tree /\ n.kind = Top.kind /\ n.depth = d - 1 /\ n.from = Top.start
    BY <2>1 DEF Linked
  <2>3. n.kind \in {"array", "object"}
    BY <2>1, <2>2 DEF FrameSet
  <2>4. Level(x, p, d) = Children(n, x.tree)
    BY <2>1 DEF Level
  <2>5. c.depth = n.depth + 1 /\ c \in x.tree
    BY <2>4 DEF Children
  <2>. QED  BY <1>3, <2>1, <2>2, <2>3, <2>4, <2>5
<1>. QED  BY <1>2, <1>3

(* The calls in progress stay in their containers while the code reads on.  *)
LEMMA LinkedKept ==
  ASSUME NEW x, NEW p, Linked(x, p), Here \in Nat, Here' \in Nat, Here' >= Here,
         Len(stack) \in Nat, Len(stack') \in Nat, Len(stack') <= Len(stack),
         \A k \in 1..Len(stack') :
           /\ stack'[k].start = stack[k].start /\ stack'[k].kind = stack[k].kind
           /\ \A key \in Range(stack'[k].keys) :
                \/ key \in Range(stack[k].keys)
                \/ \E c \in Children(p[k], x.tree) : c.from <= Here' + 1 /\ KeyOf(c, x.text) = key,
         x \in Corpus
  PROVE  Linked(x, p)'
<1>. SUFFICES ASSUME NEW k \in 1..Len(stack')
              PROVE  /\ p[k] \in Level(x, p, k - 1) /\ p[k] \in x.tree
                     /\ p[k].from = stack'[k].start /\ p[k].kind = stack'[k].kind /\ p[k].depth = k - 1
                     /\ \A key \in Range(stack'[k].keys) :
                          \E c \in Children(p[k], x.tree) : c.from <= Here' + 1 /\ KeyOf(c, x.text) = key
  BY Zenon DEF Linked
<1>1. k \in 1..Len(stack)
  OBVIOUS
<1>2. ASSUME NEW key \in Range(stack'[k].keys)
      PROVE  \E c \in Children(p[k], x.tree) : c.from <= Here' + 1 /\ KeyOf(c, x.text) = key
  <2>1. CASE key \in Range(stack[k].keys)
    <3>1. PICK c \in Children(p[k], x.tree) : c.from <= Here + 1 /\ KeyOf(c, x.text) = key
      BY <1>1, <2>1 DEF Linked
    <3>2. c.from \in Nat
      BY NodeFacts DEF Children, NodeSet
    <3>. QED  BY <3>1, <3>2
  <2>. QED  BY <1>2, <2>1
<1>. QED  BY <1>1, <1>2 DEF Linked

-----------------------------------------------------------------------------
(* After an opening bracket or a comma stands an item's first token, or,    *)
(* after the bracket of an empty container, its end.                        *)
LEMMA AtItem ==
  ASSUME IInv, Tree, NEW x \in Corpus, Begins(read, x), NEW p, Linked(x, p), Expects(x, p),
         pc \in {"first", "next"}
  PROVE  /\ stack # <<>>
         /\ \/ Closing /\ pc = "first" /\ p[Len(stack)].to = Here
            \/ /\ ~ Closing
               /\ \E c \in Level(x, p, Len(stack)) : c.from = Here - 1 + Lead(Top.kind)
<1>. DEFINE d == Len(stack)
            n == p[d]
<1>1. stack # <<>> /\ Placed /\ d \in Nat \ {0} /\ TypeOK
  BY Running DEF IInv, InsideContainer
<1>2. n \in x.tree /\ n.kind = Top.kind /\ n.from = Top.start /\ Level(x, p, d) = Children(n, x.tree)
  <2>1. d # 0 /\ d \in 1..Len(stack) /\ Top = stack[d]
    BY <1>1 DEF Top
  <2>. HIDE DEF d
  <2>. QED  BY <2>1 DEF Linked, Level
<1>3. Top.kind \in {"array", "object"}
  BY <1>1, TypeFacts DEF Top, FrameSet
<1>4. /\ Here \in Nat \ {0} /\ Len(x.text) \in Nat
      /\ Here <= Len(x.text) => cur = x.text[Here]
  BY Current
<1>. HIDE DEF n, d
<1>5. ASSUME NEW c \in Children(n, x.tree), c.from = Here - 1 + Lead(Top.kind)
      PROVE  ~ Closing
  <2>1. c \in x.tree /\ Lead(n.kind) \in {1, 3}
    BY <1>2, <1>3, <1>5, ChildFacts
  <2>2. c.from \in 1..Len(x.text)
    BY <2>1, NodeFacts
  <2>3. Here <= Len(x.text)
    BY <1>2, <1>4, <1>5, <2>1, <2>2
  <2>4. CASE Top.kind = "array"
    <3>1. c.from = Here
      BY <1>2, <1>3, <1>4, <1>5, <2>4, ChildFacts
    <3>. QED  BY <1>4, <2>1, <2>3, <3>1, BeginFacts, ClosingIs
  <2>5. CASE Top.kind = "object"
    <3>1. c.from - 2 = Here /\ x.text[c.from - 2].kind = "string"
      BY <1>2, <1>3, <1>4, <1>5, <2>5, ChildFacts
    <3>2. cur.kind = "string"
      BY <1>4, <2>3, <3>1
    <3>. QED  BY <3>2, Brackets, ClosingIs
  <2>. QED  BY <1>3, <2>4, <2>5
<1>6. CASE pc = "next"
  <2>1. \E c \in Children(n, x.tree) : c.from = Here - 1 + Lead(Top.kind)
    BY <1>2, <1>6 DEF Expects, d
  <2>. QED  BY <1>1, <1>2, <1>5, <2>1 DEF d
<1>7. CASE pc = "first"
  <2>1. Here = n.from + 1
    BY <1>1, <1>2, <1>7 DEF Placed
  <2>2. Derived(n, x.tree, x.text) /\ n.from \in Nat
    BY <1>2, <1>3, NodeFacts DEF ScalarKinds, NodeSet
  <2>3. CASE Children(n, x.tree) = {}
    <3>1. n.to = Here
      BY <2>1, <2>2, <2>3 DEF Derived
    <3>2. x.text[n.to].kind = Ending(n.kind) /\ n.to \in 1..Len(x.text)
      BY <1>2, <1>3, NodeFacts DEF ScalarKinds
    <3>3. Closing
      BY <1>2, <1>4, <3>1, <3>2, ClosingIs
    <3>. QED  BY <1>1, <1>7, <3>1, <3>3 DEF n, d
  <2>4. CASE Children(n, x.tree) # {}
    <3>1. \E c \in Children(n, x.tree) : c.from = n.from + Lead(n.kind)
      BY <2>2, <2>4 DEF Derived
    <3>2. n.from = Here - 1
      BY <2>1, <2>2
    <3>. QED  BY <1>1, <1>2, <1>5, <3>1, <3>2 DEF d
  <2>. QED  BY <2>3, <2>4
<1>. QED  BY <1>6, <1>7

(* After an item in a container stands its end, or a comma and then another. *)
LEMMA AfterItem ==
  ASSUME IInv, Tree, NEW x \in Corpus, Begins(read, x), NEW p, Linked(x, p), Expects(x, p),
         pc = "item", stack # <<>>
  PROVE  \/ Closing /\ p[Len(stack)].to = Here
         \/ /\ IsComma(cur) /\ ~ Closing
            /\ \E c \in Level(x, p, Len(stack)) : c.from = Here + Lead(Top.kind)
<1>1. PICK c \in Level(x, p, Len(stack)) : c.to + 1 = Here
  BY DEF Expects
<1>. DEFINE n == p[Len(stack)]
<1>2. /\ n \in x.tree /\ n.kind = Top.kind /\ n.kind \in {"array", "object"}
      /\ c \in Children(n, x.tree) /\ Children(n, x.tree) = Level(x, p, Len(stack))
  BY LevelFacts
<1>3. /\ Here \in Nat \ {0} /\ Len(x.text) \in Nat
      /\ Here <= Len(x.text) => cur = x.text[Here]
  BY Current
<1>. HIDE DEF n
<1>4. /\ c \in x.tree /\ c.to < n.to
      /\ \/ Here = n.to
         \/ /\ IsComma(x.text[Here])
            /\ \E e \in Children(n, x.tree) : e.from = Here + Lead(n.kind)
  BY <1>1, <1>2, ChildFacts
<1>5. Here <= Len(x.text)
  BY <1>1, <1>2, <1>3, <1>4, NodeFacts
<1>6. CASE Here = n.to
  <2>1. cur.kind = Ending(n.kind)
    BY <1>2, <1>3, <1>5, <1>6, NodeFacts DEF ScalarKinds
  <2>. QED  BY <1>2, <1>6, <2>1, ClosingIs DEF n
<1>7. CASE IsComma(x.text[Here]) /\ \E e \in Children(n, x.tree) : e.from = Here + Lead(n.kind)
  <2>1. IsComma(cur) /\ ~ Closing
    BY <1>3, <1>5, <1>7, ClosingIs, Brackets
  <2>. QED  BY <1>2, <1>7, <2>1
<1>. QED  BY <1>4, <1>6, <1>7

(* Where a value is expected one begins. *)
LEMMA AtValue ==
  ASSUME IInv, Tree, NEW x \in Corpus, Begins(read, x), NEW p, Linked(x, p), Expects(x, p),
         pc = "value"
  PROVE  \E c \in Level(x, p, Len(stack)) :
           /\ c \in x.tree /\ c.from = Here /\ c.depth = Len(stack)
           /\ cur.kind \in ScalarKinds \/ IsOpening(cur)
           /\ cur.kind \in ScalarKinds => c.to = Here
           /\ IsOpening(cur) => c.kind \in {"array", "object"} /\ cur.kind = Opening(c.kind)
<1>1. PICK c \in Level(x, p, Len(stack)) : c.from = Here
  BY DEF Expects
<1>2. c \in x.tree /\ c.depth = Len(stack)
  BY LevelFacts
<1>3. cur = x.text[Here]
  BY <1>1, <1>2, Current, NodeFacts
<1>. QED  BY <1>1, <1>2, <1>3, BeginFacts

(* Where a key or a colon is expected there is one, of a member to come.    *)
LEMMA AtKey ==
  ASSUME IInv, Tree, NEW x \in Corpus, Begins(read, x), NEW p, Linked(x, p), Expects(x, p),
         pc \in {"key", "colon"}
  PROVE  /\ stack # <<>>
         /\ \E c \in Level(x, p, Len(stack)) :
              /\ c.from = IF pc = "key" THEN Here + 2 ELSE Here + 1
              /\ cur.kind = IF pc = "key" THEN "string" ELSE ":"
              /\ pc = "key" => KeyOf(c, x.text) = cur.data
<1>1. stack # <<>> /\ Top.kind = "object"
  BY DEF IInv, InsideContainer, Expects
<1>2. PICK c \in Level(x, p, Len(stack)) : c.from = IF pc = "key" THEN Here + 2 ELSE Here + 1
  BY DEF Expects
<1>. DEFINE n == p[Len(stack)]
<1>3. n \in x.tree /\ n.kind = "object" /\ c \in Children(n, x.tree) /\ c \in x.tree
  BY <1>1, LevelFacts
<1>. HIDE DEF n
<1>4. /\ x.text[c.from - 2].kind = "string" /\ x.text[c.from - 1].kind = ":"
      /\ c.from \in 1..Len(x.text)
  BY <1>3, ChildFacts, NodeFacts
<1>5. /\ Here \in Nat \ {0} /\ Len(x.text) \in Nat
      /\ Here <= Len(x.text) => cur = x.text[Here]
  BY Current
<1>6. CASE pc = "key"
  <2>1. Here = c.from - 2 /\ Here <= Len(x.text)
    BY <1>2, <1>4, <1>5, <1>6
  <2>2. cur = x.text[c.from - 2]
    BY <1>5, <2>1
  <2>. QED  BY <1>1, <1>2, <1>4, <1>6, <2>2 DEF KeyOf
<1>7. CASE pc = "colon"
  <2>1. Here = c.from - 1 /\ Here <= Len(x.text)
    BY <1>2, <1>4, <1>5, <1>7
  <2>2. cur = x.text[c.from - 1]
    BY <1>5, <2>1
  <2>. QED  BY <1>1, <1>2, <1>4, <1>7, <2>2
<1>. QED  BY <1>6, <1>7

-----------------------------------------------------------------------------
(* When the stack stays as it is, only the place in the code moves on.      *)
LEMMA SameStack ==
  ASSUME IInv, NEW x \in Corpus, NEW p, Linked(x, p), UNCHANGED stack,
         Here' \in Nat, Here' >= Here
  PROVE  /\ Linked(x, p)' /\ Level(x, p, Len(stack))' = Level(x, p, Len(stack))
         /\ Len(stack') = Len(stack) /\ Top' = Top
<1>1. Len(stack) \in Nat /\ Here \in Nat
  BY TypeFacts DEF IInv, Here
<1>2. Linked(x, p)'
  BY <1>1, LinkedKept
<1>. QED  BY <1>2 DEF Level, Top

(* Parse() primes cur with the root's first token. *)
LEMMA StartOn ==
  ASSUME IInv, Tree, Start, NEW x \in Corpus, Begins(read', x)
  PROVE  pc' = "value" /\ Linked(x, <<>>)' /\ Expects(x, <<>>)'
<1>1. pc' = "value" /\ Here' = Here + 1 /\ TypeOK
  BY AdvanceOn DEF Start, IInv
<1>2. Here = 0 /\ Len(stack) = 0 /\ Len(stack') = 0
  BY DEF Start, Tree, Placed
<1>3. Here' = 1
  BY <1>1, <1>2
<1>4. Linked(x, <<>>)'
  BY <1>2 DEF Linked
<1>5. \E c \in Level(x, <<>>, 0) : c.from = 1
  BY TextFacts DEF Level, IsDocument, IsRoot
<1>6. Expects(x, <<>>)'
  BY <1>1, <1>2, <1>3, <1>5 DEF Expects
<1>. QED  BY <1>1, <1>4, <1>6

(* A scalar is the value expected. *)
LEMMA ScalarOn ==
  ASSUME IInv, Tree, Scalar, NEW x \in Corpus, Begins(read', x),
         NEW p, Linked(x, p), Expects(x, p)
  PROVE  pc' = "item" /\ Linked(x, p)' /\ Expects(x, p)'
<1>1. pc = "value" /\ cur.kind \in ScalarKinds /\ Advance("item") /\ UNCHANGED stack /\ TypeOK
  BY DEF Scalar, Construct, IInv
<1>2. Begins(read, x) /\ pc' = "item" /\ Here \in Nat /\ Here' = Here + 1
  BY <1>1, AdvanceOn
<1>3. \E c \in Level(x, p, Len(stack)) : c.to = Here
  BY <1>1, <1>2, AtValue
<1>4. /\ Linked(x, p)' /\ Level(x, p, Len(stack))' = Level(x, p, Len(stack))
  BY <1>1, <1>2, SameStack
<1>5. Expects(x, p)'
  BY <1>2, <1>3, <1>4 DEF Expects
<1>. QED  BY <1>2, <1>4, <1>5

(* An opening bracket begins the value expected, which is of its kind. *)
LEMMA OpenOn ==
  ASSUME IInv, Tree, NEW kind \in {"array", "object"}, Open(Opening(kind), kind),
         NEW x \in Corpus, Begins(read', x), NEW p, Linked(x, p), Expects(x, p)
  PROVE  pc' = "first" /\ \E q : Linked(x, q)' /\ Expects(x, q)'
<1>. DEFINE d == Len(stack)
            f == Frame(kind, Here)
<1>1. /\ pc = "value" /\ cur.kind = Opening(kind) /\ Advance("first") /\ TypeOK
      /\ stack' = Append(stack, f)
  BY DEF Open, IInv
<1>2. /\ Begins(read, x) /\ pc' = "first" /\ Here \in Nat /\ Here' = Here + 1
  BY <1>1, AdvanceOn
<1>3. IsOpening(cur)
  BY <1>1, Brackets
<1>4. PICK c \in Level(x, p, d) :
        /\ c \in x.tree /\ c.from = Here /\ c.depth = d
        /\ c.kind \in {"array", "object"} /\ Opening(c.kind) = Opening(kind)
  BY <1>1, <1>2, <1>3, AtValue
<1>5. c.kind = kind
  <2>1. ~ (c.kind = "array" /\ kind = "object") /\ ~ (c.kind = "object" /\ kind = "array")
    BY <1>4, Zenon DEF Opening
  <2>. QED  BY <1>4, <2>1
<1>6. /\ f.start = Here /\ f.kind = kind /\ Range(f.keys) = {} /\ f \in FrameSet
  <2>1. <<>> \in Seq(KeySet) /\ Range(<<>>) = {}
    BY EmptySeq DEF Range
  <2>. QED  BY <1>2, <2>1 DEF Frame, FrameSet
<1>7. /\ d \in Nat /\ Len(stack') = d + 1 /\ stack'[d + 1] = f
      /\ \A k \in 1..d : stack'[k] = stack[k]
  <2>1. stack \in Seq(FrameSet)
    BY <1>1 DEF TypeOK
  <2>. HIDE DEF f
  <2>. QED  BY <1>1, <1>6, <2>1, AppendFacts
<1>. HIDE DEF d, f
<1>8. PICK q : /\ \A k \in 1..d : q[k] = p[k]
               /\ q[d + 1] = c
  <2>. DEFINE r == [k \in 1..(d + 1) |-> IF k = d + 1 THEN c ELSE p[k]]
  <2>1. (\A k \in 1..d : r[k] = p[k]) /\ r[d + 1] = c
    BY <1>7
  <2>. QED  BY <2>1
<1>9. \A k \in 1..(d + 1) : Level(x, q, k - 1) = Level(x, p, k - 1)
  <2>1. \A k \in 1..(d + 1) : k - 1 = 0 \/ k - 1 \in 1..d
    BY <1>7
  <2>. QED  BY <1>8, <2>1 DEF Level
<1>10. ASSUME NEW k \in 1..(d + 1)
       PROVE  /\ q[k] \in Level(x, q, k - 1) /\ q[k] \in x.tree
              /\ q[k].from = stack'[k].start /\ q[k].kind = stack'[k].kind /\ q[k].depth = k - 1
              /\ \A key \in Range(stack'[k].keys) :
                   \E e \in Children(q[k], x.tree) : e.from <= Here' + 1 /\ KeyOf(e, x.text) = key
  <2>1. CASE k \in 1..d
    <3>1. /\ p[k] \in Level(x, p, k - 1) /\ p[k] \in x.tree
          /\ p[k].from = stack[k].start /\ p[k].kind = stack[k].kind /\ p[k].depth = k - 1
          /\ \A key \in Range(stack[k].keys) :
               \E e \in Children(p[k], x.tree) : e.from <= Here + 1 /\ KeyOf(e, x.text) = key
      BY <2>1 DEF Linked, d
    <3>2. \A e \in Children(p[k], x.tree) : e.from \in Nat
      BY NodeFacts DEF Children, NodeSet
    <3>3. \A e \in Children(p[k], x.tree) : e.from <= Here + 1 => e.from <= Here' + 1
      BY <1>2, <3>2
    <3>. QED  BY <1>7, <1>8, <1>9, <2>1, <3>1, <3>3
  <2>2. CASE k = d + 1
    <3>1. k - 1 = d
      BY <1>7, <2>2
    <3>. QED  BY <1>4, <1>5, <1>6, <1>7, <1>8, <1>9, <2>2, <3>1
  <2>. QED  BY <1>7, <2>1, <2>2
<1>11. Linked(x, q)'
  <2>1. \A k \in 1..Len(stack') : k \in 1..(d + 1)
    BY <1>7
  <2>. SUFFICES ASSUME NEW k \in 1..Len(stack')
                PROVE  /\ q[k] \in Level(x, q, k - 1) /\ q[k] \in x.tree
                       /\ q[k].from = stack'[k].start /\ q[k].kind = stack'[k].kind /\ q[k].depth = k - 1
                       /\ \A key \in Range(stack'[k].keys) :
                            \E e \in Children(q[k], x.tree) : e.from <= Here' + 1 /\ KeyOf(e, x.text) = key
    BY Zenon DEF Linked
  <2>. QED  BY <1>10, <2>1, Zenon
<1>12. Expects(x, q)'
  BY <1>2 DEF Expects
<1>. QED  BY <1>2, <1>11, <1>12

(* At a container's end its tree node ends. *)
LEMMA CloseOn ==
  ASSUME IInv, Tree, Close, NEW x \in Corpus, Begins(read', x),
         NEW p, Linked(x, p), Expects(x, p)
  PROVE  pc' = "item" /\ Linked(x, p)' /\ Expects(x, p)'
<1>. DEFINE d == Len(stack)
<1>1. /\ pc \in {"first", "item"} /\ stack # <<>> /\ Closing /\ Advance("item")
      /\ stack' = Pop(stack) /\ TypeOK
  BY DEF Close, Construct, IInv
<1>2. /\ Begins(read, x) /\ pc' = "item" /\ Here \in Nat /\ Here' = Here + 1
  BY <1>1, AdvanceOn
<1>3. p[d].to = Here
  <2>1. CASE pc = "first"
    BY <1>1, <1>2, <2>1, AtItem
  <2>2. CASE pc = "item"
    BY <1>1, <1>2, <2>2, AfterItem
  <2>. QED  BY <1>1, <2>1, <2>2
<1>4. /\ d \in Nat \ {0} /\ Len(stack') = d - 1
      /\ \A k \in 1..(d - 1) : stack'[k] = stack[k]
  <2>1. stack \in Seq(FrameSet)
    BY <1>1 DEF TypeOK
  <2>. QED  BY <1>1, <2>1, PopFacts
<1>5. Linked(x, p)'
  BY <1>2, <1>4, LinkedKept
<1>6. p[d] \in Level(x, p, d - 1)
  BY <1>4 DEF Linked
<1>7. Level(x, p, Len(stack))' = Level(x, p, d - 1)
  BY <1>4, Zenon DEF Level
<1>. HIDE DEF d
<1>8. Expects(x, p)'
  BY <1>2, <1>3, <1>6, <1>7 DEF Expects
<1>. QED  BY <1>2, <1>5, <1>8

(* After a comma the next item stands. *)
LEMMA CommaOn ==
  ASSUME IInv, Tree, Comma, NEW x \in Corpus, Begins(read', x),
         NEW p, Linked(x, p), Expects(x, p)
  PROVE  pc' = "next" /\ Linked(x, p)' /\ Expects(x, p)'
<1>1. /\ pc = "item" /\ stack # <<>> /\ IsComma(cur) /\ Advance("next") /\ UNCHANGED stack /\ TypeOK
  BY Zenon DEF Comma, IInv, IsComma
<1>2. Begins(read, x) /\ pc' = "next" /\ Here \in Nat /\ Here' = Here + 1
  BY <1>1, AdvanceOn
<1>3. PICK c \in Level(x, p, Len(stack)) : c.from = Here + Lead(Top.kind)
  <2>1. ~ Closing
    BY <1>1, Brackets, ClosingIs
  <2>. QED  BY <1>1, <1>2, <2>1, AfterItem
<1>4. /\ Linked(x, p)' /\ Level(x, p, Len(stack))' = Level(x, p, Len(stack)) /\ Top' = Top
  BY <1>1, <1>2, SameStack
<1>5. c.from = Here' - 1 + Lead(Top'.kind)
  BY <1>2, <1>3, <1>4 DEF Lead
<1>6. Expects(x, p)'
  BY <1>2, <1>3, <1>4, <1>5 DEF Expects
<1>. QED  BY <1>2, <1>4, <1>6

(* An item is a value, or a key first. *)
LEMMA EnterOn ==
  ASSUME IInv, Tree, Enter, NEW x \in Corpus, Begins(read', x),
         NEW p, Linked(x, p), Expects(x, p)
  PROVE  pc' \in {"value", "key"} /\ Linked(x, p)' /\ Expects(x, p)'
<1>1. /\ pc \in {"first", "next"} /\ ~ Closing /\ UNCHANGED <<read, cur, stack>> /\ TypeOK
      /\ pc' = IF Top.kind = "array" THEN "value" ELSE "key"
  BY DEF Enter, Goto, IInv
<1>2. Begins(read, x) /\ Here' = Here /\ Here \in Nat
  BY <1>1, TypeFacts DEF Here, Begins
<1>3. stack # <<>> /\ \E c \in Level(x, p, Len(stack)) : c.from = Here - 1 + Lead(Top.kind)
  BY <1>1, <1>2, AtItem
<1>4. /\ Linked(x, p)' /\ Level(x, p, Len(stack))' = Level(x, p, Len(stack)) /\ Top' = Top
  BY <1>1, <1>2, SameStack
<1>5. Top.kind \in {"array", "object"}
  <2>1. Top \in FrameSet
    BY <1>1, <1>3, TopPlace DEF IInv
  <2>. QED  BY <2>1 DEF FrameSet
<1>6. CASE Top.kind = "array"
  <2>1. Here - 1 + Lead(Top.kind) = Here
    BY <1>2, <1>6 DEF Lead
  <2>. QED  BY <1>1, <1>2, <1>3, <1>4, <1>6, <2>1 DEF Expects
<1>7. CASE Top.kind = "object"
  <2>1. Here - 1 + Lead(Top.kind) = Here + 2
    BY <1>2, <1>7 DEF Lead
  <2>. QED  BY <1>1, <1>2, <1>3, <1>4, <1>7, <2>1 DEF Expects
<1>. QED  BY <1>5, <1>6, <1>7

(* The value comes after the colon. *)
LEMMA ColonOn ==
  ASSUME IInv, Tree, Colon, NEW x \in Corpus, Begins(read', x),
         NEW p, Linked(x, p), Expects(x, p)
  PROVE  pc' = "value" /\ Linked(x, p)' /\ Expects(x, p)'
<1>1. pc = "colon" /\ Advance("value") /\ UNCHANGED stack /\ TypeOK
  BY DEF Colon, IInv
<1>2. Begins(read, x) /\ pc' = "value" /\ Here \in Nat /\ Here' = Here + 1
  BY <1>1, AdvanceOn
<1>3. \E c \in Level(x, p, Len(stack)) : c.from = Here'
  BY <1>1, <1>2, AtKey
<1>4. /\ Linked(x, p)' /\ Level(x, p, Len(stack))' = Level(x, p, Len(stack))
  BY <1>1, <1>2, SameStack
<1>5. Expects(x, p)'
  BY <1>2, <1>3, <1>4 DEF Expects
<1>. QED  BY <1>2, <1>4, <1>5

(* The key of a member to come joins the keys seen. *)
LEMMA KeyOn ==
  ASSUME IInv, IInv', Tree, Key, NEW x \in Corpus, Begins(read', x),
         NEW p, Linked(x, p), Expects(x, p)
  PROVE  pc' = "colon" /\ Linked(x, p)' /\ Expects(x, p)'
<1>. DEFINE d == Len(stack)
            z == [Top EXCEPT !.keys = Append(Top.keys, cur.data)]
<1>1. /\ pc = "key" /\ Advance("colon") /\ TypeOK /\ TypeOK' /\ stack # <<>>
      /\ stack' = [stack EXCEPT ![d] = z]
  BY DEF Key, IInv, InsideContainer, Top
<1>2. Begins(read, x) /\ pc' = "colon" /\ Here \in Nat /\ Here' = Here + 1
  BY <1>1, AdvanceOn
<1>3. PICK c \in Level(x, p, d) : c.from = Here + 2 /\ KeyOf(c, x.text) = cur.data
  BY <1>1, <1>2, AtKey
<1>4. /\ d \in Nat \ {0} /\ Len(stack') = d /\ stack'[d] = z
      /\ \A k \in 1..d : stack'[k] = IF k = d THEN z ELSE stack[k]
  BY <1>1, KeyStack
<1>5. Top \in FrameSet /\ Top = stack[d]
  BY <1>1, <1>4, TypeFacts DEF Top
<1>6. /\ z.start = Top.start /\ z.kind = Top.kind
      /\ Range(z.keys) = Range(Top.keys) \cup {cur.data}
  <2>1. z.start = Top.start /\ z.kind = Top.kind /\ z.keys = Append(Top.keys, cur.data)
    BY <1>5 DEF FrameSet
  <2>2. z \in FrameSet
    <3>1. TypeOK'
      BY <1>1
    <3>2. stack' \in Seq(FrameSet)
      BY <3>1 DEF TypeOK
    <3>. QED  BY <1>4, <3>2, ElementOfSeq
  <2>. HIDE DEF z
  <2>3. Top.keys \in Seq(KeySet) /\ z.keys \in Seq(KeySet)
    BY <1>5, <2>2 DEF FrameSet
  <2>4. z.keys = Append(Top.keys, cur.data)
    BY <2>1
  <2>5. cur.data \in KeySet
    <3>1. cur \in Tokens
      BY <1>1, Running, TypeFacts DEF IInv
    <3>. QED  BY <3>1 DEF KeySet
  <2>6. Range(z.keys) = Range(Top.keys) \cup {cur.data}
    BY <2>3, <2>4, <2>5, AppendRange
  <2>. QED  BY <2>1, <2>6
<1>. HIDE DEF z, d
<1>7. c \in Children(p[d], x.tree)
  BY <1>3, <1>4 DEF Level
<1>8. ASSUME NEW k \in 1..d, NEW key \in Range(stack'[k].keys)
      PROVE  \/ key \in Range(stack[k].keys)
             \/ \E e \in Children(p[k], x.tree) : e.from <= Here' + 1 /\ KeyOf(e, x.text) = key
  <2>1. CASE k = d
    <3>1. key \in Range(Top.keys) \/ key = cur.data
      BY <1>4, <1>6, <1>8, <2>1
    <3>2. c.from <= Here' + 1
      BY <1>2, <1>3
    <3>. QED  BY <1>3, <1>5, <1>7, <2>1, <3>1, <3>2
  <2>2. CASE k # d
    BY <1>4, <1>8, <2>2
  <2>. QED  BY <2>1, <2>2
<1>9. \A k \in 1..d : stack'[k].start = stack[k].start /\ stack'[k].kind = stack[k].kind
  BY <1>4, <1>5, <1>6
<1>10. Linked(x, p)'
  BY <1>2, <1>4, <1>8, <1>9, LinkedKept DEF d
<1>11. Level(x, p, Len(stack))' = Level(x, p, d)
  BY <1>4, Zenon DEF Level
<1>12. Top' = z /\ Top.kind = "object"
  BY <1>1, <1>4 DEF Top, Expects
<1>13. c.from = Here' + 1
  BY <1>2, <1>3
<1>14. Expects(x, p)'
  BY <1>2, <1>3, <1>6, <1>11, <1>12, <1>13 DEF Expects
<1>. QED  BY <1>2, <1>10, <1>14

-----------------------------------------------------------------------------
(* A document is refused at a value that is too deep. *)
LEMMA TooDeepIsRefusable ==
  ASSUME IInv, Tree, TooDeep, NEW x \in Corpus, Begins(read, x),
         NEW p, Linked(x, p), Expects(x, p)
  PROVE  Refusable(x, err', Here)
<1>1. pc = "value" /\ Len(stack) > MaxDepth /\ err' = "EMaxDepth"
  BY DEF TooDeep, Reject, Fail, Depth
<1>2. Len(stack) \in Nat /\ MaxDepth \in Nat /\ Len(stack) <= MaxDepth + 1
  BY TypeFacts, ParserAssumption DEF IInv, DepthBounded
<1>3. \E c \in x.tree : c.from = Here /\ c.depth = MaxDepth + 1
  <2>1. Len(stack) = MaxDepth + 1
    BY <1>1, <1>2
  <2>. QED  BY <1>1, <2>1, AtValue
<1>. QED  BY <1>1, <1>3 DEF Refusable, TooDeepAt

(* ... and at a key that the object already has. *)
LEMMA DuplicateIsRefusable ==
  ASSUME IInv, Tree, DuplicateKey, NEW x \in Corpus, Begins(read, x),
         NEW p, Linked(x, p), Expects(x, p)
  PROVE  Refusable(x, err', Here)
<1>. DEFINE n == p[Len(stack)]
<1>1. /\ pc = "key" /\ RejectDuplicateKeys /\ cur.data \in Range(Top.keys) /\ err' = "EDuplicateKey"
  BY DEF DuplicateKey, Duplicate, Seen, Reject, Fail
<1>2. stack # <<>> /\ TypeOK /\ Top.kind = "object"
  BY <1>1 DEF IInv, InsideContainer, Expects
<1>3. PICK c \in Level(x, p, Len(stack)) : c.from = Here + 2 /\ KeyOf(c, x.text) = cur.data
  BY <1>1, AtKey
<1>4. n \in x.tree /\ n.kind = "object" /\ c \in Children(n, x.tree) /\ Len(stack) \in Nat \ {0}
  BY <1>2, LevelFacts
<1>5. PICK e \in Children(n, x.tree) : e.from <= Here + 1 /\ KeyOf(e, x.text) = cur.data
  BY <1>1, <1>4 DEF Linked, Top
<1>. HIDE DEF n
<1>6. e.from < c.from
  <2>1. Here \in Nat /\ e.from \in Nat
    BY <1>2, TypeFacts, NodeFacts DEF Here, Children, NodeSet
  <2>. QED  BY <1>3, <1>5, <2>1
<1>7. RepeatsKeyAt(x, Here)
  BY <1>3, <1>4, <1>5, <1>6 DEF RepeatsKeyAt
<1>. QED  BY <1>1, <1>7 DEF Refusable

(* No other check refuses one. *)
LEMMA NothingElseRefuses ==
  ASSUME IInv, Tree, NEW x \in Corpus, Begins(read, x), NEW p, Linked(x, p), Expects(x, p)
  PROVE  ~ (NoValue \/ TrailingComma \/ NoSeparator \/ NoKey \/ NoColon \/ TrailingData)
<1>1. ~ NoValue
  <2>1. SUFFICES ASSUME NoValue PROVE FALSE
    OBVIOUS
  <2>2. pc = "value" /\ cur.kind \notin ScalarKinds /\ ~ IsOpening(cur)
    BY <2>1, Zenon DEF NoValue, IsOpening
  <2>. QED  BY <2>2, AtValue
<1>2. ~ TrailingComma
  <2>1. TrailingComma => pc = "next" /\ Closing
    BY DEF TrailingComma
  <2>2. pc = "next" => pc # "first"
    OBVIOUS
  <2>. QED  BY <2>1, <2>2, AtItem
<1>3. ~ NoSeparator
  <2>1. NoSeparator => pc = "item" /\ stack # <<>> /\ ~ Closing /\ ~ IsComma(cur)
    BY Zenon DEF NoSeparator, IsComma
  <2>. QED  BY <2>1, AfterItem
<1>4. ~ NoKey /\ ~ NoColon
  BY AtKey DEF NoKey, NoColon
<1>5. ~ TrailingData
  <2>1. SUFFICES ASSUME TrailingData PROVE FALSE
    OBVIOUS
  <2>2. pc = "item" /\ stack = <<>> /\ cur.kind # "EOF"
    BY <2>1 DEF TrailingData
  <2>3. PICK c \in Level(x, p, Len(stack)) : c.to + 1 = Here
    BY <2>2 DEF Expects
  <2>4. c.to = Len(x.text)
    BY <2>2, LevelFacts
  <2>. QED  BY <2>2, <2>3, <2>4, Current
<1>. QED  BY <1>1, <1>2, <1>3, <1>4, <1>5

(* A step that reads a document goes on, or refuses it for a limit. *)
LEMMA RunsOn ==
  ASSUME IInv, IInv', Tree, Next, NEW x \in Corpus, Begins(read', x),
         Begins(read, x) => \E p : Linked(x, p) /\ Expects(x, p), pc # "start"
  PROVE  \/ pc' # "error" /\ \E p : Linked(x, p)' /\ Expects(x, p)'
         \/ pc' = "error" /\ Refusable(x, err', Here')
<1>0. ASSUME NEW code, Reject(code) PROVE pc' = "error" /\ Here' = Here /\ Begins(read, x)
  BY <1>0 DEF Reject, Fail, Begins, Here
<1>1. Begins(read, x)
  <2>1. ASSUME NEW next, Advance(next) PROVE Begins(read, x)
    BY <2>1, AdvanceOn DEF IInv
  <2>2. read' = read \/ \E next : Advance(next)
    BY DEF Next, Start, Value, Items, Member, TooDeep, Scalar, Open, NoValue, Enter, TrailingComma,
           Close, Comma, NoSeparator, NoKey, DuplicateKey, Key, Colon, NoColon, Finish, TrailingData,
           Reject, Goto, Construct
  <2>. QED  BY <2>1, <2>2 DEF Begins
<1>. PICK p : Linked(x, p) /\ Expects(x, p)
  BY <1>1
<1>2. CASE TooDeep
  <2>1. Reject("EMaxDepth")
    BY <1>2 DEF TooDeep
  <2>. QED  BY <1>0, <1>1, <1>2, <2>1, TooDeepIsRefusable
<1>3. CASE DuplicateKey
  <2>1. Reject("EDuplicateKey")
    BY <1>3 DEF DuplicateKey
  <2>. QED  BY <1>0, <1>1, <1>3, <2>1, DuplicateIsRefusable
<1>4. CASE Scalar
  BY <1>4, ScalarOn
<1>5. CASE Open("[", "array") \/ Open("{", "object")
  <2>1. Open(Opening("array"), "array") \/ Open(Opening("object"), "object")
    BY <1>5, Zenon DEF Opening
  <2>. QED  BY <2>1, OpenOn
<1>6. CASE Enter
  BY <1>6, EnterOn
<1>7. CASE Close
  BY <1>7, CloseOn
<1>8. CASE Comma
  BY <1>8, CommaOn
<1>9. CASE Key
  BY <1>9, KeyOn
<1>10. CASE Colon
  BY <1>10, ColonOn
<1>11. CASE Finish
  <2>1. pc' = "done" /\ UNCHANGED <<read, stack>>
    BY <1>11 DEF Finish, Goto
  <2>2. Here' = Here /\ Here \in Nat
    BY <2>1, TypeFacts DEF Here, IInv
  <2>3. Linked(x, p)'
    BY <2>1, <2>2, SameStack
  <2>. QED  BY <2>1, <2>3 DEF Expects
<1>. QED
  BY <1>1, <1>2, <1>3, <1>4, <1>5, <1>6, <1>7, <1>8, <1>9, <1>10, <1>11, NothingElseRefuses
  DEF Next, Start, Value, Items, Member

(* Every error has a code. *)
LEMMA Failures ==
  ASSUME [Next]_vars, pc' = "error", pc = "error" => err \in Verdicts
  PROVE  err' \in Verdicts
<1>1. ASSUME NEW code \in Verdicts, Reject(code) PROVE err' \in Verdicts
  BY <1>1 DEF Reject, Fail
<1>2. ASSUME NEW next, next # "error", Advance(next) PROVE err' \in Verdicts
  BY <1>2 DEF Advance, Fail, Verdicts
<1>3. ASSUME NEW next, next # "error", Goto(next) PROVE FALSE
  BY <1>3 DEF Goto
<1>4. CASE UNCHANGED vars
  BY <1>4 DEF vars
<1>5. CASE Next
  <2>1. \/ \E next : next # "error" /\ (Advance(next) \/ Goto(next))
        \/ \E code \in Verdicts : Reject(code)
    <3>1. CASE TooDeep \/ NoValue \/ TrailingComma \/ NoSeparator \/ NoKey \/ DuplicateKey \/ NoColon \/ TrailingData
      BY <3>1 DEF TooDeep, NoValue, TrailingComma, NoSeparator, NoKey, DuplicateKey, NoColon, TrailingData, Verdicts
    <3>2. CASE Start \/ Scalar \/ Close \/ Comma \/ Key \/ Colon
      BY <3>2, Zenon DEF Start, Scalar, Close, Comma, Key, Colon, Construct
    <3>3. CASE Open("[", "array") \/ Open("{", "object")
      BY <3>3, Zenon DEF Open
    <3>4. CASE Enter \/ Finish
      BY <3>4 DEF Enter, Finish
    <3>. QED  BY <1>5, <3>1, <3>2, <3>3, <3>4, Zenon DEF Next, Value, Items, Member
  <2>. QED  BY <1>1, <1>2, <1>3, <2>1
<1>. QED  BY <1>4, <1>5

(* Every step of the parser keeps documents on their course. *)
LEMMA NextOnCourse == ASSUME IInv, IInv', Tree, OnCourse, [Next]_vars PROVE OnCourse'
<1>0. pc' = "error" => err' \in Verdicts
  BY Failures DEF OnCourse
<1>. SUFFICES ASSUME NEW x \in Corpus, Begins(read', x)
              PROVE  /\ pc' = "error" => Refusable(x, err', Here')
                     /\ pc' \notin {"start", "error"} => \E p : Linked(x, p)' /\ Expects(x, p)'
  BY <1>0, Zenon DEF OnCourse
<1>1. CASE UNCHANGED vars
  <2>1. UNCHANGED <<read, cur, stack, nodes, pc, err>> /\ Begins(read, x)
    BY <1>1 DEF vars, Begins
  <2>2. Here' = Here /\ \A p : (Linked(x, p)' <=> Linked(x, p)) /\ (Expects(x, p)' <=> Expects(x, p))
    BY <2>1, Zenon DEF Linked, Expects, Here, Top, Level
  <2>. QED  BY <2>1, <2>2 DEF OnCourse
<1>2. CASE Next /\ pc = "start"
  <2>1. Start
    BY <1>2 DEF Next, Start, Value, Items, Member, TooDeep, Scalar, Open, NoValue, Enter, TrailingComma,
           Close, Comma, NoSeparator, NoKey, DuplicateKey, Key, Colon, NoColon, Finish, TrailingData
  <2>2. pc' = "value" /\ Linked(x, <<>>)' /\ Expects(x, <<>>)'
    BY <2>1, StartOn
  <2>. QED  BY <2>2
<1>3. CASE Next /\ pc # "start"
  <2>1. pc # "error"
    BY <1>3 DEF Next, Start, Value, Items, Member, TooDeep, Scalar, Open, NoValue, Enter, TrailingComma,
           Close, Comma, NoSeparator, NoKey, DuplicateKey, Key, Colon, NoColon, Finish, TrailingData
  <2>2. Begins(read, x) => \E p : Linked(x, p) /\ Expects(x, p)
    BY <1>3, <2>1 DEF OnCourse
  <2>. QED  BY <1>3, <2>2, RunsOn
<1>. QED  BY <1>1, <1>2, <1>3

(* The first i elements of a sequence. *)
LEMMA Beginning ==
  ASSUME NEW S, NEW s \in Seq(S), NEW i \in 0..Len(s)
  PROVE  Len(SubSeq(s, 1, i)) = i /\ \A j \in 1..i : SubSeq(s, 1, i)[j] = s[j]
<1>1. Len(s) \in Nat /\ \A j \in 1..Len(s) : s[j] \in S
  BY LenProperties, ElementOfSeq
<1>2. /\ Len(SubSeq(s, 1, i)) = IF 1 <= i THEN i - 1 + 1 ELSE 0
      /\ \A j \in 1..(i - 1 + 1) : SubSeq(s, 1, i)[j] = s[1 + j - 1]
  BY <1>1, SubSeqProperties
<1>3. \A j \in 1..i : i - 1 + 1 = i /\ 1 + j - 1 = j
  BY <1>1
<1>. QED  BY <1>1, <1>2, <1>3

(* What OnCourse says of an error is RefusesOnlyForLimits. *)
LEMMA OnCourseRefuses == ASSUME IInv, OnCourse PROVE RefusesOnlyForLimits
<1>. SUFFICES ASSUME pc = "error", read \in Acceptable[err] PROVE FALSE
  BY DEF RefusesOnlyForLimits
<1>1. err \in Verdicts
  BY DEF OnCourse
<1>2. read \in UNION {{SubSeq(Whole(x), 1, i) : i \in Spared(x, err)} : x \in Corpus}
  BY <1>1, Zenon DEF Acceptable
<1>3. PICK x \in Corpus : read \in {SubSeq(Whole(x), 1, i) : i \in Spared(x, err)}
  BY <1>2
<1>4. PICK i \in Spared(x, err) : read = SubSeq(Whole(x), 1, i)
  BY <1>3
<1>5. i \in 0..(Len(x.text) + 1) /\ ~ Refusable(x, err, i)
  BY DEF Spared
<1>6. Len(read) = i /\ \A j \in 1..i : read[j] = Whole(x)[j]
  BY <1>4, <1>5, TextFacts, Beginning
<1>7. Begins(read, x) /\ Here = i
  BY <1>5, <1>6, TextFacts DEF Begins, Here
<1>. QED  BY <1>5, <1>7 DEF OnCourse

(* Parse refuses a JSON document for nothing but its depth and its repeated *)
(* keys: for every document, every token alphabet and all limits. *)
THEOREM RefusesForLimits == Spec => []RefusesOnlyForLimits
<1>1. Init => IInv /\ Tree /\ OnCourse
  <2>1. Init => OnCourse
    BY DEF Init, OnCourse
  <2>. QED  BY <2>1, InitIInv, InitTree
<1>2. IInv /\ Tree /\ OnCourse /\ [Next]_vars => (IInv /\ Tree /\ OnCourse)'
  BY NextIInv, NextTree, NextOnCourse
<1>3. IInv /\ Tree /\ OnCourse => RefusesOnlyForLimits
  BY OnCourseRefuses
<1>. QED  BY <1>1, <1>2, <1>3, PTL DEF Spec

=============================================================================
