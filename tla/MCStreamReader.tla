--------------------------- MODULE MCStreamReader ---------------------------
(***************************************************************************)
(* Model checking of StreamReader.  Parse is the scanner of Lexer followed  *)
(* by the grammar that MCParser shows Parser to accept.                     *)
(***************************************************************************)
EXTENDS StreamReader, FiniteSets, SequencesExt

CONSTANT Family     (* which of the families of inputs below a run is about *)

(* Inputs of up to n units, sequences of symbols, from an alphabet, after p.*)
Prefixed(p, alphabet, n) ==
  {p \o FlattenSeq(units) : units \in UNION {[1..k -> alphabet] : k \in 0..n}}
InputsOf(alphabet, m, n) ==
  Prefixed(<<>>, alphabet, m) \cup Prefixed(<<"[", "1", " ", ",">>, alphabet, n)

(* Brackets, commas, scalars, a string that holds an escaped quote and a    *)
(* bracket, an object up to its first value.                                *)
Text == {<<c>> : c \in {"[", "]", "}", ",", "1", " "}}
        \cup {<<"\"", "\\", "\"", "]", "\"">>, <<"{", "\"", "\"", ":">>}

(* Comments, among them one that a closing scan could end too early, where  *)
(* white space may stand. *)
Commented == {<<c>> : c \in {"[", "]", ",", " "}}
             \cup {<<"1", " ">>, <<"/", "/", "1", "LF">>, <<"/", "*", "/", ",", "*", "/">>, <<"/", "/">>}

(* Everything the byte loops tell apart, in any order. *)
Bytes == {<<c>> : c \in {"[", "]", ",", "1", "LF", "/", "*", "\"", "\\", "VT"}}

(* A line comment right after an element; what follows a root array.        *)
Slashes  == {<<"[", "1">>, <<",", "1">>, <<"LF">>, <<"]">>, <<"/", "/">>}
Trailers == {<<c>> : c \in {"/", " ", "LF", "*"}}

WellSpaced == {d : d \in InputsOf(Text, 4, 4) \cup InputsOf(Commented, 4, 4)}

MCInputs ==
  CASE Family = "all"       -> WellSpaced \cup InputsOf(Bytes, 4, 4)
    [] Family = "slashes"   -> InputsOf(Slashes, 5, 1)
    [] Family = "tails"     -> Prefixed(<<"[", "1", "]">>, Trailers, 2)

-----------------------------------------------------------------------------
Scanner == INSTANCE Lexer

RECURSIVE TokensFrom(_, _)
From(text, t) ==
  CASE t.kind = "EOF"   -> <<>>
    [] t.kind = "error" -> <<t>>
    [] OTHER            -> <<t>> \o TokensFrom(text, t.end)
TokensFrom(text, s) == From(text, Scanner!Next(text, s))

TokensOf(text) == TokensFrom(text, [i |-> 1, pos |-> Scanner!StartPosition])

MaxLength == 10   \* bound: tokens in the inputs above
MaxDepth  == 1    \* Options.MaxDepth: containers in a container are too deep

Grammar == INSTANCE JSONGrammar WITH
  ScalarTokens <- {[kind |-> k, data |-> ""] : k \in {"number", "string"}},
  KeyTokens    <- {[kind |-> "string", data |-> ""]},
  DistinctKeys <- FALSE

Documents == [limit \in MaxDepth..(MaxDepth + 1) |->
                [n \in 1..MaxLength |-> Grammar!Values(n, limit)]]

IsDocument(ts, limit) ==
  /\ Len(ts) \in 1..MaxLength
  /\ [k \in 1..Len(ts) |-> Grammar!Punct(ts[k].kind)] \in Documents[limit][Len(ts)]

IsValid(text) == IsDocument(TokensOf(text), MaxDepth)

(* An element begins where a unit does and may end within one. *)
Elements(alphabet, n) ==
  UNION {{SubSeq(text, 1, l) : l \in 1..Len(text)} : text \in Prefixed(<<>>, alphabet, n)}
Candidates == {t : t \in Elements(Text, 4) \cup Elements(Commented, 4) \cup Elements(Bytes, 4)}
Accepted   == {text \in Candidates : IsValid(text)}

MCParse(text) == text \in Accepted

(* The texts of the root's elements, as the tokens ts of the whole input   *)
(* delimit them: between the brackets and the commas of the root array.     *)
Cuts(ts) ==
  LET Open(k) == Cardinality({i \in 1..k : ts[i].kind \in {"[", "{"}})
                 - Cardinality({i \in 1..k : ts[i].kind \in {"]", "}"}})
  IN SetToSortSeq({1, Len(ts)} \cup {k \in 1..Len(ts) : Open(k) = 1 /\ ts[k].kind = ","},
                  LAMBDA a, b : a < b)
Between(text, ts, cuts) ==
  [k \in 1..(Len(cuts) - 1) |-> SubSeq(text, ts[cuts[k] + 1].from, ts[cuts[k + 1] - 1].to)]
ElementsOf(text, ts) ==
  CASE ts = <<>>         -> <<>>
    [] ts # <<>> /\ ts[1].kind # "[" -> <<SubSeq(text, ts[1].from, ts[Len(ts)].to)>>
    [] OTHER -> IF Len(ts) = 2 THEN <<>> ELSE Between(text, ts, Cuts(ts))
RootElements(text) == ElementsOf(text, TokensOf(text))

Texts == [k \in 1..Len(delivered) |-> delivered[k].text]

(* Reading a document as a stream and parsing it whole agree: the stream    *)
(* ends cleanly exactly if Parse accepts the document (or there is nothing  *)
(* but white space, which is a stream of no elements), and then what it     *)
(* delivered is the elements of the root array, each once and in order.     *)
(* Only the array itself does not count for MaxDepth when its elements are  *)
(* parsed one by one.                                                       *)
Streamed(ts) ==
  ts = <<>> \/ IsDocument(ts, IF ts[1].kind = "[" THEN MaxDepth + 1 ELSE MaxDepth)
AgreesWithParse ==
  done /\ pc = "idle" /\ input \in WellSpaced =>
    /\ err = "EOF" <=> tail = "EOF" /\ Streamed(TokensOf(input))
    /\ err = "EOF" => Texts = RootElements(input)

(* A text as its tokens: comments and white space do not count. *)
Content(ts) == [k \in 1..Len(ts) |-> <<ts[k].kind, ts[k].data>>]
Meaning(text) == Content(TokensOf(text))
Meanings(texts) == [k \in 1..Len(texts) |-> Meaning(texts[k])]

(* The stream "incrementally reads root-array elements": of a document that *)
(* Parse accepts, it delivers the elements of the root array.               *)
DeliversRootElements ==
  err = "EOF" /\ pc = "idle" /\ IsValid(input) =>
    Meanings(Texts) = Meanings(RootElements(input))

(* A stream that ends cleanly had nothing but white space and comments      *)
(* after its root value.                                                    *)
NoTrailingData ==
  err = "EOF" /\ pc = "idle" => IsValid(input) \/ TokensOf(input) = <<>>

=============================================================================
