----------------------------- MODULE ParseTree ------------------------------
(***************************************************************************)
(* What the parser may refuse.  A text is a JSON document when it has a     *)
(* parse tree, whatever its depth and its keys; Corpus holds any such       *)
(* texts, each with a tree of it, and models no code.  Parser's IsParseTree *)
(* says that what Parse accepts has a tree; here a text that has one is     *)
(* refused for no other reason than the two limits of Options.              *)
(***************************************************************************)
EXTENDS Parser

CONSTANT Corpus   (* documents: a text and a tree of it *)

IsRoot(n, x) == n.from = 1 /\ n.to = Len(x.text) /\ n.depth = 0

HasSpan(n, x) ==
  /\ 1 <= n.from /\ n.to <= Len(x.text)
  /\ IF n.kind \in ScalarKinds
       THEN n.from = n.to /\ x.text[n.from].kind = n.kind
       ELSE /\ n.from < n.to
            /\ x.text[n.from].kind = Opening(n.kind)
            /\ x.text[n.to].kind = Ending(n.kind)

IsDocument(x) ==
  /\ x.text \in Seq(Tokens) /\ \A i \in 1..Len(x.text) : x.text[i].kind # "invalid"
  /\ \A n \in x.tree :
       /\ n \in NodeSet /\ HasSpan(n, x)
       /\ n.kind \notin ScalarKinds => Derived(n, x.tree, x.text)
  /\ \E n \in x.tree : IsRoot(n, x)

ASSUME CorpusAssumption == \A x \in Corpus : IsDocument(x)

-----------------------------------------------------------------------------
(* What Parse() reads of x, and the two limits x may exceed at its token i: *)
(* a value begins there below MaxDepth, or a key that its object already    *)
(* has.                                                                     *)
Whole(x) == Append(x.text, EndOfInput)

TooDeepAt(x, i) == \E n \in x.tree : n.from = i /\ n.depth = MaxDepth + 1

RepeatsKeyAt(x, i) ==
  \E n \in x.tree : \E c, d \in Children(n, x.tree) :
    /\ n.kind = "object" /\ c.from < d.from /\ d.from = i + 2
    /\ KeyOf(c, x.text) = KeyOf(d, x.text)

Refusable(x, code, i) ==
  \/ code = "EMaxDepth" /\ TooDeepAt(x, i)
  \/ code = "EDuplicateKey" /\ RejectDuplicateKeys /\ RepeatsKeyAt(x, i)

Verdicts == {"lexical", "EUnexpectedToken", "EExpectedKey", "EDuplicateKey", "EMaxDepth",
             "ETrailingData"}

Spared(x, code) == {i \in 0..(Len(x.text) + 1) : ~ Refusable(x, code, i)}

\* The beginnings of documents at which code is no verdict.
Acceptable ==
  [code \in Verdicts |->
     UNION {{SubSeq(Whole(x), 1, i) : i \in Spared(x, code)} : x \in Corpus}]

(* Parse refuses a document only for a limit, and where it exceeds it: when *)
(* the tokens read so far begin a document, there is no error but EMaxDepth *)
(* at a value enclosed by MaxDepth + 1 others and EDuplicateKey, if repeated *)
(* keys are rejected, at a repeated key (parser.go 75-189).                 *)
RefusesOnlyForLimits == pc = "error" => read \notin Acceptable[err]

=============================================================================
