------------------------------ MODULE Writing -------------------------------
(***************************************************************************)
(* What Marshal should write.  An occurrence is a value where it is met:    *)
(* the cell node of heap, with opts, at some depth, inTree if within a      *)
(* parser.Value.  Occurrences(h, o) are those that a walk from the root may *)
(* meet, Texts(w) is what may be written for w, Bodies(w, order, n) for the *)
(* first n of its items; each is determined by the texts of what is in w,   *)
(* with no recursion.  There are such texts unless pointers or              *)
(* parser.Values refer to themselves.  Models no code.                      *)
(***************************************************************************)
EXTENDS Encoder

CONSTANTS Occurrences(_, _), Texts(_), Bodies(_, _, _)

Occurrence(h, o, x, d, within) ==
  [heap |-> h, opts |-> o, node |-> x, depth |-> d, inTree |-> within]

(* What Marshal is called with. *)
Outermost(h, o) == Occurrence(h, o, Root, 0, FALSE)

Met(w) == w.heap[w.node]

(* What is deeper than MaxDepth has no text; parser.Values have any depth.  *)
Allowed(w) == w.inTree \/ w.depth <= MaxDepth

Inner(w, i) ==
  Occurrence(w.heap, w.opts, Met(w).items[i].node,
             IF Met(w).kind \in References THEN w.depth ELSE w.depth + 1,
             Met(w).kind \in Trees)

-----------------------------------------------------------------------------
(* The items of w that are written: all but the fields marked omitempty     *)
(* that are empty.                                                          *)
Omitted(w, i) ==
  LET item == Met(w).items[i]
      value == w.heap[item.node]
  IN /\ Met(w).kind = "struct" /\ item.omitEmpty
     /\ value.kind \in {"slice", "map", "array"} => value.items = <<>>
     /\ value.kind \in {"slice", "map", "array"} \cup Zeros

Written(w) == {i \in 1..Len(Met(w).items) : ~ Omitted(w, i)}

(* Elements and fields are in their order, members in that of their names   *)
(* if it is asked for; those of the same name stay as they are.             *)
Sorted(w) == w.opts.sortKeys /\ Met(w).kind \in Objects

Follows(w, i, j) ==
  LET m == Met(w).items[i].name
      n == Met(w).items[j].name
  IN /\ Sorted(w) => m <= n
     /\ (IF Sorted(w) THEN m = n ELSE Met(w).kind # "map") => i < j

Arrangements(w) ==
  {p \in [1..Cardinality(Written(w)) -> Written(w)] :
     \A i, j \in DOMAIN p : i < j => p[i] # p[j] /\ Follows(w, p[i], p[j])}

-----------------------------------------------------------------------------
(* Each item is on a line of its own, indented by the containers that are   *)
(* open; the closing token too, if there are items.                         *)
Line(w, d) == IF w.opts.indented THEN <<[text |-> "newline", of |-> d]>> ELSE <<>>

Lead(w, i, first) ==
  Separator(first) \o Line(w, w.depth + 1) \o Label(Met(w).kind, Met(w).items[i].name)

Ending(w, empty) ==
  (IF empty THEN <<>> ELSE Line(w, w.depth)) \o <<Closing(Met(w).kind)>>

Quoted(w, i) == Met(w).kind = "struct" /\ Met(w).items[i].quoted
Quote(w, i, text) == IF Quoted(w, i) THEN Escaped(text) ELSE text

Enclosed(w, order) ==
  { <<Opening(Met(w).kind)>> \o body \o Ending(w, order = <<>>) : body \in Bodies(w, order, Len(order)) }

IsText(w) ==
  LET kind == Met(w).kind
  IN Texts(w) = IF ~ Allowed(w) THEN {}
                ELSE IF kind \in Leaves THEN {Leaf(kind, w.node)}
                ELSE IF kind \in References THEN Texts(Inner(w, 1))
                ELSE IF kind \in Containers THEN UNION {Enclosed(w, order) : order \in Arrangements(w)}
                ELSE {}

Longer(w, i, bodies, first) ==
  UNION { {body \o Lead(w, i, first) \o Quote(w, i, text) : body \in bodies} : text \in Texts(Inner(w, i)) }

IsBody(w, order) ==
  /\ Bodies(w, order, 0) = {<<>>}
  /\ \A n \in 1..Len(order) :
       Bodies(w, order, n) = Longer(w, order[n], Bodies(w, order, n - 1), n = 1)

(* What the texts of w depend on. *)
Parts(w) ==
  IF ~ Allowed(w) THEN {}
  ELSE IF Met(w).kind \in References THEN {1}
  ELSE IF Met(w).kind \in Containers THEN Written(w) ELSE {}

ASSUME WritingAssumption ==
  \A h \in Heaps, o \in Settings :
    LET met == Occurrences(h, o)
    IN \A w \in met :
         /\ w = Occurrence(h, o, w.node, w.depth, w.inTree)
         /\ IsText(w)
         /\ Allowed(w) /\ Met(w).kind \in Containers => \A order \in Arrangements(w) : IsBody(w, order)
         /\ \A i \in Parts(w) : Inner(w, i) \in met

-----------------------------------------------------------------------------
(* Two slices or maps at one address are the same, or both are empty.       *)
Identified(h) ==
  \A x, y \in Nodes :
    /\ h[x].kind \in Tracked /\ h[x].items # <<>>
    /\ h[y].kind = h[x].kind /\ h[y].ptr = h[x].ptr
    => x = y

(* What Marshal returns is the value, token by token: commas between items  *)
(* only, members sorted if asked for, each newline indented by the number   *)
(* of containers that are open, a quoted field escaped and nothing else.    *)
(* Exactly the values without JSON are refused, cyclic ones among them, if  *)
(* slices are known by their addresses (encode.go 14-123).                  *)
EncodesTheValue ==
  LET w == Outermost(heap, opts)
  IN pc = "done" /\ w \in Occurrences(heap, opts) =>
       IF err = "" THEN Len(buffers) = 1 /\ buffers[1] \in Texts(w)
       ELSE Identified(heap) => Texts(w) = {}

-----------------------------------------------------------------------------
(* What is written of the cell x, what can be met from the cells X, and     *)
(* what a pointer or an interface at x comes to. *)
Children(h, x) == {h[x].items[i].node : i \in Written([heap |-> h, node |-> x])}

From(h, X) ==
  {y \in Nodes : \A Y \in SUBSET Nodes : X \subseteq Y /\ (\A x \in Y : Children(h, x) \subseteq Y) => y \in Y}

Behind(h, x) ==
  {y \in Nodes :
     \A Y \in SUBSET Nodes :
       x \in Y /\ (\A z \in Y : h[z].kind \in References => h[z].items[1].node \in Y) => y \in Y}

(* A walk into the value that is too deep before it comes to a slice or map *)
(* for the second time. *)
DeepWithoutCycle(h) ==
  \E p \in [0..(MaxDepth + 1) -> Nodes] :
    /\ p[0] \in Behind(h, Root)
    /\ \A d \in 0..MaxDepth :
         /\ h[p[d]].kind \in Containers \ Trees
         /\ \E y \in Children(h, p[d]) : p[d + 1] \in Behind(h, y)
         /\ h[p[d]].kind \in Tracked => \A e \in 0..(d - 1) : p[e] # p[d]

(* The error code of Marshal names what is wrong: a value that is met twice *)
(* is no cycle, and a cycle through slices or maps is reported as such      *)
(* unless the value is too deep without it (encode.go 20-80).               *)
ErrorsNameTheCause ==
  /\ err = "EMaxDepth" => DeepWithoutCycle(heap)
  /\ err = "ECycle" /\ Identified(heap) =>
       \E x \in From(heap, {Root}) : heap[x].kind \in Tracked /\ x \in From(heap, Children(heap, x))
  /\ err \in {Refusals[k] : k \in DOMAIN Refusals} =>
       \E x \in From(heap, {Root}) : heap[x].kind \in DOMAIN Refusals /\ Refusals[heap[x].kind] = err

=============================================================================
