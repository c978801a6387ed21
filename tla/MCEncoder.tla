----------------------------- MODULE MCEncoder ------------------------------
(***************************************************************************)
(* Model checking of Encoder: heaps of three cells, and what Marshal should *)
(* write for them, defined on the unfolded value.                           *)
(***************************************************************************)
EXTENDS Writing, FiniteSetsExt

CONSTANT Family     (* which of the families of heaps below a run is about *)

MCNodes == 1..3
MCRoot  == 1
MCSettings == {[sortKeys |-> b, indented |-> b] : b \in BOOLEAN}

(* Up to two items; names are the names that two may have. *)
Plain(n, x) == [name |-> n, node |-> x, quoted |-> FALSE, omitEmpty |-> FALSE]
ItemsOf(X, names, Forms(_, _)) ==
  {<<>>}
  \cup UNION { {<<f>> : f \in Forms(1, x)} : x \in X }
  \cup UNION { {<<f, g>> : f \in Forms(n[1], x), g \in Forms(n[2], y)} : n \in names, x \in X, y \in X }

PlainForms(n, x) == {Plain(n, x)}
FieldForms(n, x) == {Plain(n, x), [Plain(n, x) EXCEPT !.quoted = TRUE],
                                  [Plain(n, x) EXCEPT !.omitEmpty = TRUE]}

CellOf(kind, x, items) == [kind |-> kind, ptr |-> x, items |-> items]
CellsOf(kinds, x, itemss) == {CellOf(kind, x, items) : kind \in kinds, items \in itemss}
To(X) == {<<Plain(0, x)>> : x \in X}

HeapOf(c1, c2, c3) == [x \in MCNodes |-> IF x = 1 THEN c1 ELSE IF x = 2 THEN c2 ELSE c3]

(* Cells that are not part of the value are all the same. *)
Referred(h, X) == X \cup UNION { {h[x].items[i].node : i \in 1..Len(h[x].items)} : x \in X }
Tidy(H) ==
  {h \in H : \A x \in MCNodes \ Referred(h, Referred(h, {MCRoot})) : h[x] = CellOf("slice", x, <<>>)}

-----------------------------------------------------------------------------
(* Values that may refer to themselves: any three cells, each of which may  *)
(* refer to any.  Pointers and interfaces alone do not form a cycle.        *)
Cyclic(x) ==
  CellsOf({"scalar"}, x, {<<>>}) \cup CellsOf({"pointer"}, x, To(MCNodes))
  \cup CellsOf({"slice", "map", "struct"}, x, ItemsOf(MCNodes, {<<1, 2>>}, PlainForms))

Pointing(h, X) == {x \in X : h[x].kind \in References /\ h[x].items[1].node \in X}

(* Which of the other two cells the root refers to first makes no           *)
(* difference. *)
InOrder(h) ==
  \A i \in 1..Len(h[1].items) :
    h[1].items[i].node = 3 => \E j \in 1..(i - 1) : h[1].items[j].node = 2

CyclicHeaps(X) ==
  {h \in {HeapOf(c1, c2, c3) : c1 \in Cyclic(1), c2 \in Cyclic(2), c3 \in Cyclic(3)} :
     InOrder(h) /\ Pointing(h, Pointing(h, Pointing(h, X))) = {}}

(* Pointers to interfaces that hold them, and what else two cells can be.   *)
ReferenceHeaps(X) ==
  {HeapOf(c1, c2, CellOf("scalar", 3, <<>>)) :
     c1 \in CellsOf({"pointer"}, 1, To(X \ {1})), c2 \in CellsOf({"interface"}, 2, To(X \ {2}))}

(* Every kind of cell; a cell refers to later ones only, and a parser.Value *)
(* to parser.Values.  The third cell is a leaf or empty. *)
Shapes(x, X) ==
  CellsOf(References, x, To(X))
  \cup CellsOf(Containers \ {"struct"}, x, ItemsOf(X, {<<2, 1>>}, PlainForms))
  \cup CellsOf({"treeObject"}, x, ItemsOf(X, {<<1, 1>>}, PlainForms))
  \cup CellsOf({"struct"}, x, ItemsOf(X, {<<2, 1>>}, FieldForms))

Ends(x) == CellsOf(Kinds \ (References \cup {"invalid"}), x, {<<>>})

InTrees(h) ==
  \A x \in MCNodes : h[x].kind \in Trees =>
    \A i \in 1..Len(h[x].items) : h[h[x].items[i].node].kind \in Trees \cup TreeLeaves

AcyclicHeaps(X) ==
  {h \in {HeapOf(c1, c2, c3) : c1 \in Shapes(1, X \ {1}), c2 \in Shapes(2, X \ {1, 2}), c3 \in Ends(3)} :
     InTrees(h)}

(* A slice within itself: two slices that begin at the same element.  The   *)
(* inner one is shorter, so that it does not hold itself.                   *)
PrefixHeaps ==
  {HeapOf(CellOf("slice", 1, <<Plain(0, 2), Plain(0, 3)>>), CellOf("scalar", 2, <<>>),
          CellOf("slice", 1, inner)) : inner \in {<<>>, <<Plain(0, 2)>>}}

(* A struct with a field of type parser.Value, never assigned. *)
ZeroHeaps ==
  {HeapOf(CellOf("struct", 1, <<Plain(1, 2)>>), CellOf(kind, 2, <<>>), CellOf("scalar", 3, <<>>))
     : kind \in {"scalar", "invalid"}}

MCHeaps ==
  CASE Family = "all"        -> Tidy(CyclicHeaps(MCNodes)) \cup Tidy(AcyclicHeaps(MCNodes))
    [] Family = "references" -> ReferenceHeaps(MCNodes)
    [] Family = "prefix"     -> PrefixHeaps
    [] Family = "zero"       -> ZeroHeaps

-----------------------------------------------------------------------------
(* The texts of an occurrence, as the rules of Writing determine them, and  *)
(* the occurrences within it.                                               *)
RECURSIVE MCTexts(_), MCBodies(_, _, _), Nested(_)

MCTexts(w) ==
  LET kind == Met(w).kind
  IN IF ~ Allowed(w) \/ kind \in DOMAIN Refusals THEN {}
     ELSE IF kind \in Leaves THEN {Leaf(kind, w.node)}
     ELSE IF kind \in References THEN MCTexts(Inner(w, 1))
     ELSE { <<Opening(kind)>> \o body \o Ending(w, body = <<>>) :
              body \in UNION {MCBodies(w, order, Len(order)) : order \in Arrangements(w)} }

MCBodies(w, order, n) ==
  IF n = 0 THEN {<<>>}
  ELSE { body \o Lead(w, order[n], n = 1) \o Quote(w, order[n], text) :
           body \in MCBodies(w, order, n - 1), text \in MCTexts(Inner(w, order[n])) }

Nested(w) == {w} \cup UNION {Nested(Inner(w, i)) : i \in Parts(w)}

MCOccurrences(h, o) ==
  IF Pointing(h, Pointing(h, Pointing(h, MCNodes))) = {}
  THEN Nested(Outermost(h, o)) ELSE {}

(* A name is followed by a value (encode/indent.go 15: encoder output is    *)
(* already validated). *)
NamesHaveValues ==
  pc = "done" /\ err = "" =>
    \A i \in 1..Len(buffers[1]) :
      buffers[1][i].text = ":" => buffers[1][i + 1].text \notin {",", "}"}

(* Only what holds itself is a cycle (encode.go 81: "cyclic value"). *)
OnlyCyclesAreCycles ==
  err = "ECycle" => \E x \in From(heap, {Root}) : x \in From(heap, Children(heap, x))

(* Marshal returns, also from values that refer to themselves (README.md 7: *)
(* cyclic references are detected). *)
Terminates == <>(pc = "done")

=============================================================================
