------------------------------ MODULE MCParser ------------------------------
(***************************************************************************)
(* Model checking of Parser against the JSON grammar.                       *)
(***************************************************************************)
EXTENDS ParseTree

CONSTANTS Keys       (* the strings that may be keys or string values *)

Tok(kind, data) == [kind |-> kind, data |-> data]

MCTokens ==
  {Tok(k, "") : k \in {"{", "}", "[", "]", ":", ",", "EOF", "invalid", "number"}}
  \cup {Tok("string", k) : k \in Keys}

Grammar(distinct) == INSTANCE JSONGrammar WITH
  ScalarTokens <- {t \in MCTokens : t.kind \in ScalarKinds},
  KeyTokens    <- {t \in MCTokens : t.kind = "string"},
  DistinctKeys <- distinct

(* How many containers are open after the tokens ts. *)
Unclosed(ts) == Cardinality({i \in 1..Len(ts) : ts[i].kind \in {"[", "{"}})
                - Cardinality({i \in 1..Len(ts) : ts[i].kind \in {"]", "}"}})

(* The tree of a text of the grammar, read off its brackets. *)
TreeOf(text) ==
  LET Level(i)  == Unclosed(SubSeq(text, 1, i))
      IsKey(i)  == i < Len(text) /\ text[i + 1].kind = ":"
      starts    == {i \in 1..Len(text) : IsOpening(text[i]) \/ (text[i].kind \in ScalarKinds /\ ~ IsKey(i))}
      End(i)    == CHOOSE j \in i..Len(text) :
                     Level(j) = Level(i - 1) /\ \A k \in i..(j - 1) : Level(k) > Level(i - 1)
      Kind(i)   == CASE text[i].kind = "[" -> "array" [] text[i].kind = "{" -> "object"
                     [] OTHER -> text[i].kind
      KeysIn(i) == {j \in i..End(i) : IsKey(j) /\ Level(j) = Level(i)}
      keys(i)   == [k \in 1..Cardinality(KeysIn(i)) |->
                      text[CHOOSE j \in KeysIn(i) : Cardinality({l \in KeysIn(i) : l <= j}) = k].data]
  IN {Node(Kind(i), i, End(i), Level(i - 1), keys(i)) : i \in starts}

(* Every text of the grammar within the bound, however deep, with its tree. *)
MCCorpus ==
  {[text |-> d, tree |-> TreeOf(d)] : d \in Grammar(FALSE)!Documents(MaxTokens, MaxTokens)}

(* The documents within the limits, and every text that begins a document.  *)
Accepted   == Grammar(RejectDuplicateKeys)!Documents(MaxTokens, MaxDepth)
ViableDeep == UNION { {SubSeq(d, 1, n) : n \in 0..Len(d)}
                      : d \in Grammar(RejectDuplicateKeys)!Documents(MaxTokens, MaxTokens) }

-----------------------------------------------------------------------------
(* The verdict names its cause: Parse returns a value after a document of   *)
(* the grammar within the limits, trailing data comes after such a document, *)
(* a depth error after MaxDepth + 1 unclosed containers, a duplicate key at *)
(* a key that the same object already has, and any other token error at the *)
(* first token that extends no prefix of a document, whatever the depth     *)
(* limit (checked where a document that continues it, with up to three      *)
(* tokens before the closing brackets, is within MaxTokens).                *)
VerdictNamesTheCause ==
  LET before == SubSeq(read, 1, Len(read) - 1)
      Level(i) == Unclosed(SubSeq(read, 1, i))
  IN /\ pc = "done" => before \in Accepted
     /\ err = "ETrailingData" <=> (pc = "error" /\ before \in Accepted /\ err # "lexical")
     /\ err = "EMaxDepth" => Unclosed(before) = MaxDepth + 1
     /\ err = "EDuplicateKey" =>
          \E i \in 1..(Len(before) - 1) :
            /\ read[i] = cur /\ read[i + 1].kind = ":"
            /\ \A j \in i..Len(before) : Level(j) >= Level(i)
            /\ Level(Len(before)) = Level(i)
     /\ /\ err \in {"EUnexpectedToken", "EExpectedKey"}
        /\ Len(before) + Unclosed(before) + 3 <= MaxTokens
        => before \in ViableDeep

=============================================================================
