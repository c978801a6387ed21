------------------------------- MODULE Parser -------------------------------
(***************************************************************************)
(* The recursive-descent parser of parser/parser.go, one action per stretch *)
(* of code between two calls of p.advance().                                *)
(*                                                                          *)
(* The Go call stack value -> array/object -> value ... is the variable     *)
(* stack, one frame per array() or object() call in progress; the depth     *)
(* argument of value() is therefore Len(stack).  The lexer is the           *)
(* environment: each advance() takes any token of Tokens, so a behaviour is *)
(* a token sequence together with the parser's run over it.  The token kind *)
(* "invalid" stands for a call of lex.Next() that returns an error.         *)
(*                                                                          *)
(* A *Value is abstracted to the record of its node: its kind, the tokens   *)
(* it spans (what Value.Raw() returns), how many containers enclose it and, *)
(* for an object, its keys in source order.  nodes lists the nodes in the   *)
(* order the code constructs them (children first).                         *)
(***************************************************************************)
EXTENDS Integers, Sequences, Functions, FiniteSets

CONSTANTS
  Tokens,               (* the tokens lex.Next() may return                *)
  MaxDepth,             (* Options.MaxDepth, after the default is applied  *)
  RejectDuplicateKeys,  (* Options.RejectDuplicateKeys                     *)
  MaxTokens             (* bound: after this many tokens comes EOF         *)

ScalarKinds == {"string", "number", "true", "false", "null"}
TokenKinds  == ScalarKinds \cup {"{", "}", "[", "]", ":", ",", "EOF", "invalid"}

EndOfInput == [kind |-> "EOF", data |-> ""]

ASSUME ParserAssumption ==
  /\ \A t \in Tokens : t = [kind |-> t.kind, data |-> t.data] /\ t.kind \in TokenKinds
  /\ EndOfInput \in Tokens
  /\ MaxDepth \in Nat
  /\ RejectDuplicateKeys \in BOOLEAN
  /\ MaxTokens \in Nat

VARIABLES
  read,    (* every token the lexer has returned, in order                  *)
  cur,     (* p.cur                                                         *)
  stack,   (* the array() and object() calls in progress, outermost first   *)
  nodes,   (* the values constructed so far                                 *)
  pc,      (* where the innermost call stands                               *)
  err      (* the code of the error returned, "" while there is none        *)

vars == <<read, cur, stack, nodes, pc, err>>

Here     == Len(read)             \* index of cur in read
Depth    == Len(stack)
Top      == stack[Len(stack)]
Pop(s)   == SubSeq(s, 1, Len(s) - 1)

Frame(kind, start) == [kind |-> kind, start |-> start, keys |-> <<>>]
Node(kind, from, to, depth, keys) ==
  [kind |-> kind, from |-> from, to |-> to, depth |-> depth, keys |-> keys]

\* cur closes the innermost container: ArrayEnd in array(), ObjectEnd in object().
Closing == cur.kind = (IF Top.kind = "array" THEN "]" ELSE "}")

-----------------------------------------------------------------------------
(* Leaving with an error: every caller up to Parse() returns it at once. *)
Fail(code) ==
  /\ pc' = "error"
  /\ err' = code

(* p.advance(): the next token becomes cur and control goes on at next, or  *)
(* the lexer's error is returned and cur stays.                             *)
Advance(next) ==
  \E t \in Tokens :
    /\ Len(read) >= MaxTokens => t = EndOfInput
    /\ read' = Append(read, t)
    /\ IF t.kind = "invalid"
         THEN Fail("lexical") /\ cur' = cur
         ELSE cur' = t /\ pc' = next /\ err' = err

(* A value has been recognised: past its last token, it is constructed and  *)
(* value() returns to the caller at "item".                                 *)
Construct(node) ==
  /\ Advance("item")
  /\ nodes' = IF pc' = "item" THEN Append(nodes, node) ELSE nodes

Reject(code) == Fail(code) /\ UNCHANGED <<read, cur, stack, nodes>>

Goto(next) == pc' = next /\ UNCHANGED <<read, cur, stack, nodes, err>>

-----------------------------------------------------------------------------
Init ==
  /\ read = <<>>
  /\ cur = [kind |-> "invalid", data |-> ""]   \* the zero Token
  /\ stack = <<>>
  /\ nodes = <<>>
  /\ pc = "start"
  /\ err = ""

(* Parse() primes cur and calls value(0). *)
Start == pc = "start" /\ Advance("value") /\ UNCHANGED <<stack, nodes>>

(* value(): the depth check comes before the token is looked at. *)
TooDeep == pc = "value" /\ Depth > MaxDepth /\ Reject("EMaxDepth")

Mut_InDepth == Depth <= MaxDepth + 1

InDepth == Depth <= MaxDepth

Scalar ==
  /\ pc = "value" /\ InDepth
  /\ cur.kind \in ScalarKinds
  /\ Construct(Node(cur.kind, Here, Here, Depth, <<>>))
  /\ UNCHANGED stack

Open(bracket, kind) ==
  /\ pc = "value" /\ InDepth
  /\ cur.kind = bracket
  /\ stack' = Append(stack, Frame(kind, Here))
  /\ Advance("first")
  /\ UNCHANGED nodes

NoValue ==
  /\ pc = "value" /\ InDepth
  /\ cur.kind \notin ScalarKinds \cup {"[", "{"}
  /\ Reject("EUnexpectedToken")

(* array() and object() right after the opening bracket ("first") or after  *)
(* a comma ("next"): anything but the closing bracket begins an item.       *)
Enter ==
  /\ pc \in {"first", "next"}
  /\ ~ Closing
  /\ Goto(IF Top.kind = "array" THEN "value" ELSE "key")

TrailingComma == pc = "next" /\ Closing /\ Reject("EUnexpectedToken")

Mut_CloseTrailingComma ==
  /\ pc \in {"first", "item", "next"} /\ stack # <<>>
  /\ Closing
  /\ stack' = Pop(stack)
  /\ Construct(Node(Top.kind, Top.start, Here, Depth - 1, Top.keys))

Mut_CloseShort ==
  /\ pc \in {"first", "item"} /\ stack # <<>>
  /\ Closing
  /\ stack' = Pop(stack)
  /\ Construct(Node(Top.kind, Top.start, Here - 1, Depth - 1, Top.keys))

(* The container ends after its opening bracket or after an item; the value *)
(* spans from the opening bracket to this one.                              *)
Close ==
  /\ pc \in {"first", "item"} /\ stack # <<>>
  /\ Closing
  /\ stack' = Pop(stack)
  /\ Construct(Node(Top.kind, Top.start, Here, Depth - 1, Top.keys))

Comma ==
  /\ pc = "item" /\ stack # <<>>
  /\ cur.kind = ","
  /\ Advance("next")
  /\ UNCHANGED <<stack, nodes>>

NoSeparator ==
  /\ pc = "item" /\ stack # <<>>
  /\ ~ Closing /\ cur.kind # ","
  /\ Reject("EUnexpectedToken")

-----------------------------------------------------------------------------
(* object(): the key, its duplicate check, the colon. *)
Seen(k) == k \in Range(Top.keys)

Mut_SeenAround == RejectDuplicateKeys /\ \E k \in 1..Depth : cur.data \in Range(stack[k].keys)

Mut_Duplicate == RejectDuplicateKeys /\ Depth = 1 /\ Seen(cur.data)

Duplicate == RejectDuplicateKeys /\ Seen(cur.data)

Mut_NoKeySkips == pc = "key" /\ cur.kind # "string" /\ Goto("next")

NoKey == pc = "key" /\ cur.kind # "string" /\ Reject("EExpectedKey")

DuplicateKey == pc = "key" /\ cur.kind = "string" /\ Duplicate /\ Reject("EDuplicateKey")

Key ==
  /\ pc = "key"
  /\ cur.kind = "string" /\ ~ Duplicate
  /\ stack' = [stack EXCEPT ![Len(stack)].keys = Append(@, cur.data)]
  /\ Advance("colon")
  /\ UNCHANGED nodes

Colon ==
  /\ pc = "colon"
  /\ cur.kind = ":"
  /\ Advance("value")
  /\ UNCHANGED <<stack, nodes>>

NoColon == pc = "colon" /\ cur.kind # ":" /\ Reject("EUnexpectedToken")

-----------------------------------------------------------------------------
(* Back in Parse(): only EOF may follow the root value, whose raw text then *)
(* becomes the whole input (the same tokens, white space around included). *)
Finish ==
  /\ pc = "item" /\ stack = <<>>
  /\ cur.kind = "EOF"
  /\ Goto("done")

Mut_TrailingDataCode ==
  /\ pc \in {"item", "next"} /\ (stack = <<>> \/ cur.kind = "}")
  /\ cur.kind # "EOF"
  /\ Reject("ETrailingData")

TrailingData ==
  /\ pc = "item" /\ stack = <<>>
  /\ cur.kind # "EOF"
  /\ Reject("ETrailingData")

Value  == TooDeep \/ Scalar \/ Open("[", "array") \/ Open("{", "object") \/ NoValue
Items  == Enter \/ TrailingComma \/ Close \/ Comma \/ NoSeparator
Member == NoKey \/ DuplicateKey \/ Key \/ Colon \/ NoColon

Next == Start \/ Value \/ Items \/ Member \/ Finish \/ TrailingData

(* Parse is a sequential function: it runs until it returns. *)
Spec == Init /\ [][Next]_vars /\ WF_vars(Next)

(* parser.Stats: how many nodes the tree has and how deep it is, the root   *)
(* counting 1.                                                              *)
StatsNodes == Len(nodes)
StatsDepths == {nodes[i].depth + 1 : i \in 1..Len(nodes)}

-----------------------------------------------------------------------------
KeySet   == {t.data : t \in Tokens}
FrameSet == [kind : {"array", "object"}, start : Nat, keys : Seq(KeySet)]
NodeSet  == [kind : ScalarKinds \cup {"array", "object"}, from : Nat, to : Nat,
             depth : Nat, keys : Seq(KeySet)]

(* Type invariant of the parser's variables. *)
TypeOK ==
  /\ read \in Seq(Tokens)
  /\ cur \in Tokens \cup {[kind |-> "invalid", data |-> ""]}
  /\ stack \in Seq(FrameSet)
  /\ nodes \in Seq(NodeSet)
  /\ pc \in {"start", "value", "first", "next", "item", "key", "colon", "done", "error"}
  /\ err \in {"", "lexical", "EUnexpectedToken", "EExpectedKey", "EDuplicateKey",
              "EMaxDepth", "ETrailingData"}

Opening(kind) == IF kind = "array" THEN "[" ELSE "{"
Ending(kind)  == IF kind = "array" THEN "]" ELSE "}"

(* The document that Value.Raw() slices is cut at matching brackets: a      *)
(* container's span starts at its own kind of opening bracket and ends at   *)
(* its own kind of closing bracket, a scalar's is its one token.            *)
SpansMatch ==
  \A i \in 1..Len(nodes) :
    LET n == nodes[i] IN
    IF n.kind \in ScalarKinds
      THEN n.from = n.to /\ read[n.from].kind = n.kind
      ELSE /\ n.from < n.to
           /\ read[n.from].kind = Opening(n.kind)
           /\ read[n.to].kind = Ending(n.kind)

(* Of two values, the later one constructed either starts after the earlier *)
(* ends or encloses it strictly, and only then is the earlier one deeper:   *)
(* no Raw() slice ever overlaps another in part.                            *)
SpansNest ==
  \A i, j \in 1..Len(nodes) :
    i < j => \/ nodes[i].to < nodes[j].from
             \/ /\ nodes[j].from < nodes[i].from
                /\ nodes[i].to < nodes[j].to
                /\ nodes[j].depth < nodes[i].depth

(* The values directly in the container n of a tree, and how many tokens    *)
(* there are from the bracket or comma before one of them to its first.     *)
Children(n, tree) ==
  {c \in tree : n.from < c.from /\ c.to < n.to /\ c.depth = n.depth + 1}

Lead(kind) == IF kind = "array" THEN 1 ELSE 3

KeyOf(n, text) == text[n.from - 2].data

IsComma(t)   == t.kind = ","
IsOpening(t) == t.kind \in {"[", "{"}

(* A container is its brackets, what is directly in it, one comma between   *)
(* two of these and, in an object, a key and a colon before each.           *)
Derived(n, tree, text) ==
  LET children == Children(n, tree) IN
  /\ IF children = {} THEN n.to = n.from + 1
     ELSE \E c \in children : c.from = n.from + Lead(n.kind)
  /\ \A c \in children :
       /\ c.from >= n.from + Lead(n.kind)
       /\ \/ c.to + 1 = n.to
          \/ /\ IsComma(text[c.to + 1])
             /\ \E d \in children : d.from = c.to + 1 + Lead(n.kind)
  /\ n.kind = "object" =>
       /\ \A c \in children : text[c.from - 2].kind = "string" /\ text[c.from - 1].kind = ":"
       /\ Range(n.keys) = {KeyOf(c, text) : c \in children}

Enclosing(n) == {j \in 1..Len(nodes) : nodes[j].from <= n.from /\ n.to <= nodes[j].to}

BeginsValue(i) == \/ IsOpening(read[i])
                  \/ read[i].kind \in ScalarKinds /\ read[i + 1].kind # ":"

(* Parse builds the parse tree of its document: every container's value is  *)
(* made of the values directly in it as the grammar has it, and has their   *)
(* keys; the root of an accepted document spans all of it, each token that  *)
(* can begin a value begins a node, and the depth kept with a node is the   *)
(* number of values around it, which Stats recomputes (parser.go 53-189).   *)
IsParseTree ==
  /\ \A i \in 1..Len(nodes) : nodes[i].kind \notin ScalarKinds => Derived(nodes[i], Range(nodes), read)
  /\ pc = "done" =>
       /\ nodes # <<>>
       /\ nodes[Len(nodes)].from = 1 /\ nodes[Len(nodes)].to = Len(read) - 1
       /\ {nodes[i].from : i \in 1..Len(nodes)} = {i \in 1..(Len(read) - 1) : BeginsValue(i)}
       /\ \A i \in 1..Len(nodes) : Cardinality(Enclosing(nodes[i])) = nodes[i].depth + 1

(* Options.MaxDepth bounds both the recursion (at most MaxDepth + 1 calls   *)
(* of array() or object() are ever in progress) and the tree that is built. *)
DepthBounded ==
  /\ Len(stack) <= MaxDepth + 1
  /\ \A i \in 1..Len(nodes) : nodes[i].depth <= MaxDepth

(* With RejectDuplicateKeys no object, finished or in progress, has a key   *)
(* twice, however its members and the containers inside them interleave.    *)
UniqueKeys ==
  RejectDuplicateKeys =>
    /\ \A i \in 1..Len(nodes) : IsInjective(nodes[i].keys)
    /\ \A i \in 1..Len(stack) : IsInjective(stack[i].keys)

(* Parse returns. *)
Terminates == <>(pc \in {"done", "error"})

=============================================================================
