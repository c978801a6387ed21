--------------------------- MODULE ElementStream ----------------------------
(***************************************************************************)
(* What StreamReader promises its caller, without saying how: a sequence of *)
(* elements cut from the input from left to right, each of which Parse      *)
(* accepts, until a verdict that is given once and never taken back.  The   *)
(* verdict is "clean" only if the reader came to its end without failing.   *)
(***************************************************************************)
EXTENDS Integers, Sequences

CONSTANT Parse(_)

VARIABLES input, tail, elements, verdict

vars == <<input, tail, elements, verdict>>

(* Where the text of an element ends. *)
Last(e) == e.from + Len(e.text) - 1

Init == elements = <<>> /\ verdict = "open"

Give(v) == verdict' = v /\ (v = "clean" => tail = "EOF")

(* The next element; a root value that is no array comes with the verdict.  *)
Deliver ==
  /\ verdict = "open"
  /\ \E k, l \in 1..Len(input) :
       LET text == SubSeq(input, k, l) IN
       /\ k <= l
       /\ \A i \in 1..Len(elements) : Last(elements[i]) < k
       /\ elements' = Append(elements, [from |-> k, text |-> text])
       /\ Parse(text)
  /\ \E v \in {"open", "clean"} : Give(v)
  /\ UNCHANGED <<input, tail>>

End ==
  /\ verdict = "open"
  /\ \E v \in {"clean", "failed"} : Give(v)
  /\ UNCHANGED <<input, tail, elements>>

Next == Deliver \/ End

Spec == Init /\ [][Next]_vars

=============================================================================
