------------------------------ MODULE Encoder -------------------------------
(***************************************************************************)
(* The walk of encode.Marshal (encode/encode.go) over a Go value.           *)
(*                                                                          *)
(* The value is a heap of cells, one per reflect.Value that value() or      *)
(* tree() can meet.  A cell's items are the elements of a slice or array,   *)
(* the entries of a map, the fields of a struct that are exported and not   *)
(* tagged "-", the members of a parser.Value, or what a pointer or an       *)
(* interface refers to.  ptr is the address v.Pointer() of a slice or map;  *)
(* all slices of a value are of one type here, and so are all its maps.     *)
(*                                                                          *)
(* The output is a sequence of tokens.  A step writes the tokens of one     *)
(* value, or those before or after it; stack holds the calls of array(),    *)
(* objectMap(), objectStruct() and tree() in progress.                      *)
(***************************************************************************)
EXTENDS Integers, Sequences, FiniteSets

CONSTANTS
  Nodes,        (* where cells may be                                       *)
  Heaps,        (* the values there may be, with all they refer to          *)
  Root,         (* the value that Marshal is called with                    *)
  MaxDepth,     (* Options.MaxDepth                                         *)
  Settings      (* the other options there may be: indented is whether      *)
                (* Options.Indent is not empty                              *)

Leaves     == {"scalar", "zero", "null",
               "custom", "customZero",               \* what its marshaler returns
               "nullValue", "invalid"}               \* a parser.Value: null, of no kind
References == {"pointer", "interface"}
TreeLeaves == {"scalar", "nullValue", "invalid"}
Zeros      == {"zero", "null", "customZero", "refusesZero"}   \* reflect: false, 0, "", nil
Trees      == {"treeArray", "treeObject"}
Objects    == {"map", "struct", "treeObject"}
Tracked    == {"slice", "map"}                       \* kinds that enter() is called for
Containers == {"slice", "array", "map", "struct"} \cup Trees
Refusals   == [float |-> "EInvalidValue",            \* NaN and the infinities
               unsupported |-> "EUnsupportedType",
               refuses |-> "EUser",                  \* a marshaler fails or returns no JSON
               refusesZero |-> "EUser"]

Kinds == Leaves \cup References \cup Containers \cup DOMAIN Refusals
Items == [name : Nat, node : Nodes, quoted : BOOLEAN, omitEmpty : BOOLEAN]
Cells == [kind : Kinds, ptr : Nat, items : Seq(Items)]

ASSUME EncoderAssumption ==
  /\ Root \in Nodes
  /\ MaxDepth \in Nat \ {0}
  /\ Settings \subseteq [sortKeys : BOOLEAN, indented : BOOLEAN]
  /\ Heaps \subseteq [Nodes -> Cells]
  /\ \A h \in Heaps, x \in Nodes : h[x].kind \in References => Len(h[x].items) = 1
  /\ \A h \in Heaps, x \in Nodes : h[x].kind \in Trees =>
       \A i \in 1..Len(h[x].items) : h[h[x].items[i].node].kind \in Trees \cup TreeLeaves

VARIABLES
  heap,
  opts,      (* e.opts                                                      *)
  pc,        (* "value": value() is called for at; "next": it has returned   *)
  at,
  stack,     (* the containers being written, the innermost last            *)
  seen,      (* e.seen                                                      *)
  buffers,   (* e.b, last, and before it the buffers it has replaced        *)
  err

vars == <<heap, opts, pc, at, stack, seen, buffers, err>>

Cell  == heap[at]
Top   == stack[Len(stack)]
Whole == heap[Top.node]

(* The depth argument of value(), and what array() and so on call their own *)
(* depth: each container adds one. *)
Depth == Len(stack)

Pop(s) == SubSeq(s, 1, Len(s) - 1)
SetLast(s, e) == [s EXCEPT ![Len(s)] = e]

-----------------------------------------------------------------------------
Token(text)    == [text |-> text, of |-> 0]
Name(n)        == [text |-> "name", of |-> n]
Leaf(kind, x)  == IF kind = "invalid" THEN <<>> ELSE <<[text |-> kind, of |-> x]>>

(* appendEscapedString() of what was written for a quoted field. *)
Escaped(text)  == <<Token("quote")>> \o text \o <<Token("unquote")>>

(* layout.newline() *)
Newline(depth) == IF opts.indented THEN <<[text |-> "newline", of |-> depth]>> ELSE <<>>

Opening(kind) == Token(IF kind \in Objects THEN "{" ELSE "[")
Closing(kind) == Token(IF kind \in Objects THEN "}" ELSE "]")

(* What stands before a value in its container. *)
Separator(first) == IF first THEN <<>> ELSE <<Token(",")>>
Label(kind, name) == IF kind \in Objects THEN <<Name(name), Token(":")>> ELSE <<>>

(* isEmpty() goes by the Go kind, whatever is written of the value: one that *)
(* has a marshaler may be empty, a parser.Value is a struct and never is.   *)
Empty(cell) ==
  \/ cell.kind \in Zeros
  \/ cell.kind \in {"slice", "map", "array"} /\ cell.items = <<>>

(* The items that are written, and the orders they may be written in: that  *)
(* of the Go map is any, sorting is stable.                                 *)
Live(cell) ==
  {i \in 1..Len(cell.items) :
     ~ (cell.kind = "struct" /\ cell.items[i].omitEmpty /\ Empty(heap[cell.items[i].node]))}

Sorts(cell) == opts.sortKeys /\ cell.kind \in Objects

Mut_Before(cell, i, j) ==
  Sorts(cell) => cell.items[i].name <= cell.items[j].name

Before(cell, i, j) ==
  LET m == cell.items[i].name
      n == cell.items[j].name
  IN IF Sorts(cell) THEN m < n \/ (m = n /\ i < j)
     ELSE cell.kind # "map" => i < j

Orders(cell) ==
  {p \in [1..Cardinality(Live(cell)) -> Live(cell)] :
     \A i, j \in DOMAIN p : i < j => p[i] # p[j] /\ Before(cell, p[i], p[j])}

-----------------------------------------------------------------------------
Write(text) == buffers' = SetLast(buffers, buffers[Len(buffers)] \o text)

(* An error ends all calls.  Their deferred calls and the restoring of e.b  *)
(* do not matter any more: Marshal returns no output. *)
Fail(e) == err' = e /\ pc' = "done" /\ UNCHANGED <<heap, opts, at, stack, seen, buffers>>

(* tree() does not look at the depth. *)
InTree == stack # <<>> /\ Whole.kind \in Trees

Mut_Calls == pc = "value" /\ (InTree \/ Depth <= MaxDepth + 1)

Calls == pc = "value" /\ (InTree \/ Depth <= MaxDepth)

Mut_TooDeep ==
  /\ pc = "value" /\ ~ InTree /\ Depth >= MaxDepth
  /\ Fail("EMaxDepth")

TooDeep ==
  /\ pc = "value" /\ ~ InTree /\ Depth > MaxDepth
  /\ Fail("EMaxDepth")

WriteLeaf ==
  /\ Calls /\ Cell.kind \in Leaves
  /\ Write(Leaf(Cell.kind, at))
  /\ pc' = "next"
  /\ UNCHANGED <<heap, opts, at, stack, seen, err>>

Refuse ==
  /\ Calls /\ Cell.kind \in DOMAIN Refusals
  /\ Fail(Refusals[Cell.kind])

(* A pointer or an interface: value() calls itself, at the same depth.      *)
Follow ==
  /\ Calls /\ Cell.kind \in References
  /\ at' = Cell.items[1].node
  /\ UNCHANGED <<heap, opts, pc, stack, seen, buffers, err>>

-----------------------------------------------------------------------------
(* enter() *)
Visit(x)  == [typ |-> heap[x].kind, ptr |-> heap[x].ptr]
Visits(x) == IF heap[x].kind \in Tracked THEN {Visit(x)} ELSE {}

Mut_Cycle ==
  /\ Calls /\ Cell.kind \in Tracked /\ Visit(at) \in seen
  /\ err' = "ECycle"
  /\ UNCHANGED <<heap, opts, pc, at, stack, seen, buffers>>

Cycle ==
  /\ Calls /\ Cell.kind \in Tracked /\ Visit(at) \in seen
  /\ Fail("ECycle")

Open ==
  /\ Calls /\ Cell.kind \in Containers
  /\ Visits(at) \cap seen = {}
  /\ seen' = seen \cup Visits(at)
  /\ \E order \in Orders(Cell) :
       stack' = Append(stack, [node |-> at, left |-> order, first |-> TRUE, quoting |-> FALSE])
  /\ Write(<<Opening(Cell.kind)>>)
  /\ pc' = "next"
  /\ UNCHANGED <<heap, opts, at, err>>

(* The next item of the innermost container.  A quoted field is written to  *)
(* a buffer of its own. *)
Item ==
  /\ pc = "next" /\ stack # <<>> /\ ~ Top.quoting /\ Top.left # <<>>
  /\ LET item == Whole.items[Head(Top.left)]
         quoted == Whole.kind = "struct" /\ item.quoted
         text == buffers[Len(buffers)] \o Separator(Top.first) \o Newline(Depth)
                   \o Label(Whole.kind, item.name)
     IN /\ at' = item.node
        /\ stack' = SetLast(stack, [Top EXCEPT !.left = Tail(@), !.first = FALSE, !.quoting = quoted])
        /\ buffers' = SetLast(buffers, text) \o (IF quoted THEN << <<>> >> ELSE <<>>)
  /\ pc' = "value"
  /\ UNCHANGED <<heap, opts, seen, err>>

Mut_Unquote ==
  /\ pc = "next" /\ stack # <<>> /\ Top.quoting
  /\ buffers' = SetLast(buffers, Escaped(buffers[Len(buffers)]))
  /\ stack' = SetLast(stack, [Top EXCEPT !.quoting = FALSE])
  /\ UNCHANGED <<heap, opts, pc, at, seen, err>>

Unquote ==
  /\ pc = "next" /\ stack # <<>> /\ Top.quoting
  /\ buffers' = LET outer == Pop(buffers)
                IN SetLast(outer, outer[Len(outer)] \o Escaped(buffers[Len(buffers)]))
  /\ stack' = SetLast(stack, [Top EXCEPT !.quoting = FALSE])
  /\ UNCHANGED <<heap, opts, pc, at, seen, err>>

Mut_Close ==
  /\ pc = "next" /\ stack # <<>> /\ ~ Top.quoting /\ Top.left = <<>>
  /\ Write((IF Top.first THEN <<>> ELSE Newline(Depth - 1)) \o <<Closing(Whole.kind)>>)
  /\ stack' = Pop(stack)
  /\ UNCHANGED <<heap, opts, pc, at, seen, err>>

(* The container ends; leave() forgets it. *)
Close ==
  /\ pc = "next" /\ stack # <<>> /\ ~ Top.quoting /\ Top.left = <<>>
  /\ Write((IF Top.first THEN <<>> ELSE Newline(Depth - 1)) \o <<Closing(Whole.kind)>>)
  /\ seen' = seen \ Visits(Top.node)
  /\ stack' = Pop(stack)
  /\ UNCHANGED <<heap, opts, pc, at, err>>

(* Marshal returns what is in e.b. *)
Return ==
  /\ pc = "next" /\ stack = <<>>
  /\ pc' = "done"
  /\ UNCHANGED <<heap, opts, at, stack, seen, buffers, err>>

-----------------------------------------------------------------------------
Init ==
  /\ heap \in Heaps /\ opts \in Settings
  /\ pc = "value" /\ at = Root
  /\ stack = <<>> /\ seen = {}
  /\ buffers = << <<>> >>
  /\ err = ""

Next == \/ TooDeep \/ WriteLeaf \/ Refuse \/ Follow \/ Cycle \/ Open
        \/ Item \/ Unquote \/ Close \/ Return

(* Marshal is a sequential function. *)
Spec == Init /\ [][Next]_vars /\ WF_vars(Next)

-----------------------------------------------------------------------------
Errors == {"EMaxDepth", "ECycle", "EInvalidValue", "EUnsupportedType", "EUser"}

Frames == [node : Nodes, left : Seq(Nat), first : BOOLEAN, quoting : BOOLEAN]

Tokens ==
  [text : Leaves \cup {"name", "quote", "unquote", "newline", "{", "}", "[", "]", ",", ":"},
   of   : Nat \cup Nodes]

(* Type invariant of the walk; which tokens are written is EncodesTheValue. *)
TypeOK ==
  /\ heap \in [Nodes -> Cells] /\ opts \in [sortKeys : BOOLEAN, indented : BOOLEAN]
  /\ pc \in {"value", "next", "done"} /\ at \in Nodes
  /\ stack \in Seq(Frames)
  /\ seen \subseteq [typ : Tracked, ptr : Nat]
  /\ buffers \in Seq(Seq(Tokens)) /\ Len(buffers) >= 1
  /\ err \in {""} \cup Errors

(* The calls in progress that called enter(). *)
Entered == {i \in 1..Len(stack) : heap[stack[i].node].kind \in Tracked}

(* e.seen is what the calls in progress have entered, each its own visit:   *)
(* a container that has been left can be met again without being a cycle,   *)
(* and none is being written twice. *)
SeenIsTheStack ==
  /\ seen = {Visit(stack[i].node) : i \in Entered}
  /\ \A i, j \in Entered : Visit(stack[i].node) = Visit(stack[j].node) => i = j

(* One buffer for each quoted field being written, and Marshal's: whatever  *)
(* fields have been quoted, the output is in the one it will be copied from.*)
BuffersAreRestored ==
  Len(buffers) = 1 + Cardinality({i \in 1..Len(stack) : stack[i].quoting})

(* The recursion of value() is bounded. *)
DepthBounded ==
  \A i \in 1..Len(stack) : heap[stack[i].node].kind \notin Trees => i <= MaxDepth + 1

=============================================================================
