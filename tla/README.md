# A verification of jsonx

`jsonx` is a JSON library in Go (scanner, parser, stream reader, value tree,
encoder, decoder, schema validation) with a command line tool and a web
playground. This directory holds TLA+ models of its components, the TLC runs that
check them on small instances, and TLAPS proofs of their main invariants. Line numbers
refer to the sources under `src/`.

## 1. The system

| Component | State | Operations | Interacts with |
|---|---|---|---|
| Scanner `lexer.Lexer` | input, index, position (line, column, offset) | `Next` (skip space and comments, scan a string, number, literal or punctuation) | called by the parser once per token |
| `lexer.TokenStream` | a scanner, a sticky error | `NewReader`, `Next`, `Err` | reads an `io.Reader` whole, then drives the scanner |
| `lexer.PositionAt` | none | position of an offset, recomputed | nothing calls it; a second definition of what a position is |
| Parser `parser.Parse` | current token, the Go call stack of `value`, `array`, `object` | recursive descent, one `advance` per token; `Stats` | the scanner; used by everything below |
| `parser.StreamReader` | flags `started`, `array`, `first`, `done`, current element, sticky error, offset | `Next`, `Value`, `Err`, `Offset` | reads an `io.Reader` byte by byte, cuts out one element, calls `Parse` on it |
| `parser.Value` | immutable tree, each node with the slice of its source | accessors | all |
| Encoder `encode.Marshal` | output buffer, set of visited (type, pointer), depth | walks Go values by reflection; custom marshalers are parsed again | buffer pool, parser, value tree |
| Number conversions | none | `ParseIntFast`, `ParseUintFast`, `IsInteger` | the last with the schema; nothing calls the fast ones |
| Escaping, `Compact` | none | string to JSON string; removal of white space | encoder |
| Decoder `decode.Decode` | path stack, error list, the destination being filled | `assign` and one function per kind | field cache, paths, value tree |
| Field cache `typeCache` | `sync.Map` of type to field table | load, build, store | decoder, from any goroutine |
| Schema `decode.Schema` | compiled root; path stack, error list | `CompileSchema`, `Validate` | value tree, paths |
| Errors and paths | steps of a path | `AppendKey`, `AppendIndex`, `Pop`, `Clone`, `String`, `ParsePath` | decoder, schema, `PathGet` |
| Buffer pools `internal` | process-wide `sync.Pool` | acquire, release | every `Marshal`, from any goroutine |
| Facade `jsonx`, options | none (options resolved per call) | one function per feature | all |
| `jsonctl`, `webui` | none | commands, HTTP handlers | facade |

What is hard in it:

- **State carried across many small steps.** The scanner counts lines and columns
  in three places that count differently; a string is kept as a slice until its
  first escape and as a buffer from then on; a container's source text is cut by
  an offset taken at its opening bracket and a token read much later; the keys
  seen in an object outlive the nested objects in between.
- **Two readers of one language.** The stream reader finds the end of an element
  with a byte loop of its own that knows only brackets, strings and commas, then
  hands the text to `Parse`. Wherever the two disagree, elements are lost, joined
  or invented.
- **An input that may end or fail at any byte**, and a caller that takes `io.EOF`
  for success and may call `Next` again after the end.
- **Reflection over a heap** (encoder): cycles, sharing, depth.
- **Concurrent callers** of the pools and the field cache.
- **Partial failure** in the decoder, which goes on after errors with one shared,
  mutable path.

What makes each component correct:

| Component | Properties |
|---|---|
| Scanner | tokens and gaps tile the input; number tokens are the longest RFC 8259 numbers; strings decode to what they mean; positions are those of the offsets |
| Parser | accepts exactly the grammar; source spans are values and nest; depth is bounded; keys are unique when asked for; error codes name the cause; it returns |
| Stream reader | what it delivers is what parsing the whole input would give; no byte is lost, repeated or moved; a failing reader never looks like a clean end; one verdict, never revised; it returns |
| Encoder | the output is the value; cycles are reported and sharing is not; errors name the cause; it terminates; the buffer is restored |
| Decoder | every place that does not fit is reported, every other is assigned; errors carry the path of the value they are about; the path is restored |
| Field cache, pools | concurrent callers see complete field tables and private buffers; what is shared is never written |
| Schema | the verdict is the schema's meaning: combinators agree with their definition, trial errors do not leak; no pattern goes unchecked |
| Paths | `ParsePath` inverts `String`; a kept path never changes |
| Escaping, `Compact` | the scanner reads back what was written; no byte of a string is lost |
| Number conversions | exact or refused, up to the ends of the range |
| Facade | the last word on an option counts; limits are obeyed |

## 2. Modules

| Module | Stands for |
|---|---|
| `Lexer` | `lexer/lexer.go`, `position.go`: scanning functions as operators from a scanner state to a token or an error and a new state |
| `TokenStream` | `lexer.NewReader` and `TokenStream`: a state machine that calls `Lexer!Next` |
| `Scanning` | what tokens should be, said of places of a text and without recursion: blanks and gaps, RFC 8259 numbers, the items of strings; what is read of escaped strings, of compacted texts and of integers; whose positions are right; a reference, models no code |
| `MCTokenStream` | alphabets of inputs |
| `Parser` | `parser/parser.go`: recursive descent with an explicit stack |
| `JSONGrammar` | the grammar as sets of token sequences; a reference, models no code |
| `ParseTree` | documents with their parse trees and the two limits of `Options`, not how one parses; a reference, models no code |
| `MCParser` | tokens; the documents of `JSONGrammar` as `ParseTree` wants them; the verdict compared with the grammar |
| `StreamReader` | `parser/stream.go`: the byte loops of `Next` |
| `ElementStream` | what the stream reader promises its caller; `StreamReader` is shown to implement it |
| `MCStreamReader` | inputs; `Parse` composed of `Lexer` and `JSONGrammar`; properties that compare the stream with the whole parse |
| `Encoder` | `encode/encode.go`, newlines of `indent.go`: the walk of `Marshal` over a heap |
| `Writing` | the texts of a value where it is met, determined by those of what is in it: what `Marshal` should write; what errors should mean; a reference, models no code |
| `MCEncoder` | families of heaps; the texts built by recursion on the unfolded value |
| `BufferPool`, `MCBufferPool` | `internal/pool.go` under concurrent and nested calls of `Marshal` |
| `Escaping` | `encode/escape.go`, `Compact` of `indent.go`, `RepairUTF8` of `internal/utf8.go`, on the symbols of `Lexer` |
| `Conversion` | the integers of `parser/number.go` in words of any width |
| `Value` | `parser/value.go`: the tree and its accessors; Go values as the decoder makes them |
| `Path` | `errors/path.go`: the memory of paths, their texts, `ParsePath` |
| `Fields` | `decode/strict.go`: the field table of a struct, as operators |
| `FieldCache` | `cachedFields` and `collectFields`, called concurrently |
| `FieldList`, `MCFieldCache` | the lists of fields a call should return, one determined by the others; a reference, models no code; structs and calls |
| `Decoder` | `decode/decode.go`: `Decode` and the calls of `assign` |
| `Assigning` | what `Decode` should do, as assignments with what they hold, leave and refuse; a reference, models no code |
| `Schema` | `decode/schema.go`: `CompileSchema` and `validateNode` as operators on a path and an error list |
| `Settings` | `jsonx/options.go`: lists of options and what they resolve to, and what the last word on each is |
| `JSONX` | `jsonx/jsonx.go`: requests with their options, and the decoder and schema under them |
| `MCJSONX` | requests; the assignments of each call of `Decode`, built by recursion; what each other function should give |
| `ParserProofs`, `ParserTreeProofs`, `StreamReaderProofs`, `EncoderProofs`, `BufferPoolProofs`, `FieldCacheProofs`, `DecoderProofs`, `ScannerProofs` | theorems |

How they build on each other: `Decoder` EXTENDS `Value` and `Path`, `Value` and
`FieldCache` EXTEND `Fields`, `Schema` EXTENDS `Value` and `Path`, and `JSONX` EXTENDS
`Decoder`, `Schema` and `Settings`, so that decoder and schema share the memory of paths and the
shape of an error. `Assigning` EXTENDS `Decoder` and states its properties; `MCJSONX`
joins it with `JSONX`. `Writing` EXTENDS `Encoder` and `Scanning` EXTENDS `TokenStream` in the
same way. `Scanning` also takes in `Escaping` and
`Conversion`, which have no state: they are evaluated on the inputs of the scanner.
`MCStreamReader` joins `StreamReader`, `Lexer` and `JSONGrammar`.

### Scanner

A scanner state is `[i, pos]`. The input is a sequence of symbols; most are one
byte, some stand for several bytes that the code always treats together (the
three literals, four hex digits, a two-byte rune), and `Width` says how many, so
that offsets and columns are those of bytes. `" "` stands for space, tab and
carriage return, `"0"` and `"1"` for the digits (what the scanner tells apart is
0 and the other digits), `"e"` for both exponent letters, `"b"` and `"n"` for
the one-letter escapes. The symbols `BS`, `VT`, `LS`, `REPL` and `<` are one character
each of those that `EscapeString` treats differently, and four hex digits stand for
the character they spell (`Stands`). `Symbols` is the set of them all. The loops of
the code are recursive functions of the index, or of the loop's variables
(`StringStates`), with what a round does in an operator (`StringRound`); where a loop only
passes symbols its end is the least index of a set (`LineEnd`, `DigitsEnd`). The position
is not carried through the loops but computed from what was passed: `AdvanceTo` counts
newlines and bytes, `AdvanceInText` one column for a rune, as `advanceRune` does.
`PositionAt` walks from byte to byte (`Stride`, `ByteAt`), and so may go on in the middle of a
symbol: it believes the first byte of a rune, also one that no rune follows. Bytes
that are not UTF-8 are therefore four symbols, `LEAD2`, `LEAD3` and `LEAD4`, which announce as
many bytes, and `BYTE`. The message and the snippet of an error are left out; its
code and its position are kept. `TokenStream` adds the sticky error: `Returned`,
`Failed` and `Closed` are the three ways through `TokenStream.Next`.

### Parser

The Go stack is the variable `stack`: one frame per `array` or `object` call in
progress, so that the `depth` argument of `value` is `Len(stack)`. `pc` is the
place in the innermost call between two calls of `advance`; an action is the code
from there to the next `advance` or return, and an error leaves all calls at once,
as the code's chain of `return nil, err` does. Tokens come from the environment:
each `advance` takes any token, or a lexical error, so a behaviour is a token
sequence and the parser's run over it. A node is its kind, its span in tokens
(which is what `Value.Raw` slices), its depth and its keys.

### Stream reader

A step reads at most one byte. `pc` says which loop `Next` is in, `ret` which of
the five calls of `readNonSpace` it is in. The `io.Reader` is the input and the
error after it: `"EOF"` or `"failure"`. `UnreadByte` is modelled as not moving
`offset` (it cannot fail right after a successful `ReadByte`). `delivered` and
`result` record what calls of `Next` returned. `array`'s early exit in lines
39-42 cannot be reached (this is the invariant `StartedIsArray`) and is no action.
`Parse` is a constant operator: TLC instantiates it with the scanner and the
grammar, or with "anything", and the proofs with nothing at all.

### Encoder

What `Marshal` is called with is a heap of cells, one for each `reflect.Value` the
walk can meet: a kind, an address for slices and maps, and items that refer to
other cells, also to earlier ones or to itself. `stack` holds one frame per
container being written (its kind says whether the frame is a call of `array`,
`objectMap`, `objectStruct` or `tree`), so that `depth` is `Len(stack)` in all
four; pointers and interfaces are followed by `Follow` without a frame, as the
code calls `value` with the same `depth`. `seen` is `e.seen`. `buffers` is `e.b`
together with the buffers it has replaced for quoted fields. The output is a
sequence of tokens, each scalar being one token that names its cell; the output
of a custom marshaler is one token too. Whether a field is empty (`Zeros`, `Empty`) goes by the
Go kind, as in `isEmpty`: what a marshaler writes for a value that is empty, or that it refuses to
write, does not matter (`customZero`, `refusesZero`), and a null `parser.Value` (`nullValue`)
is a struct, which is never empty. Sorting and the order of Go maps are the
choice of an order among `Orders`. An error ends the walk at once: nothing is
returned then, so what the deferred `leave` calls do no longer matters.

`Writing` says what should be written without a walk. An occurrence is a cell where
it is met: at some depth, and within a `parser.Value` or not. A leaf's text is its
token; a reference's texts are those of what it refers to; a container's are, for each
order of its written items that the options allow, the opening token, every item with
its separator, newline and name before its text, and the closing one. What is too deep
or has no JSON has no text, and neither has what contains it: `EncodesTheValue` says that
what `Marshal` returns is a text of the value, and that it returns an error only if there is
none. The second half supposes that no two slices or maps of a type that differ begin at one
address (`Identified`), which `encoder_prefix` shows is not so in Go.
`ErrorsNameTheCause` speaks of the cells that can be met (`From`) and of walks into the
value (`DeepWithoutCycle`). `MCEncoder` builds the texts by
recursion, and TLC checks that they are what `Writing` says (`WritingAssumption`). In the
run every value has occurrences; those of a cycle of pointers alone, which has none
with finitely many, are the subject of `encoder_references`.

### Buffer pool

Every call of `Marshal`, on any goroutine or from a custom marshaler, is a process
that acquires, resets, writes, copies or fails, and releases in separate steps.
`sync.Pool` is external: `Get` takes any pooled buffer or a new one, and a garbage
collection may empty the pool between any two steps. A buffer's content is the
sequence of the calls that wrote to it.

### Escaping and conversions

`EscapeString` keeps the code's structure of late copies (`start`; its loop stands at one
of `EscapeStates`) and writes symbols
that the scanner reads; the characters that HTML gives a meaning are one symbol. A
byte that is no UTF-8 (`Invalid`) comes back as `REPL`, which is what
`Repaired` says. `Compact` folds over the input with the code's two flags. They have
no state, so the run `scanner` evaluates them on its inputs: taken as a Go string for
`EscapeString`, as a JSON text for `Compact`, as an integer's text for the conversions.

`Conversion` does arithmetic modulo `2 * Half`. A `Round` is one round of either
loop with its guard against overflow; the fallback to `strconv` is `Fallback`.
`ParseIntFast("-")` gives 0 and no error, unlike `strconv.ParseInt`: the properties say
so, and nothing in the repository calls the function.

### Paths

A Go slice shares its array with the slices it was made from, and an error keeps a
slice. So the model has the memory: `arrays`, each as long as its capacity, and the
one path that is appended to, `at` and `len`. `AppendKey` and `AppendIndex` write in
place while there is room and otherwise allocate an array of twice the size
(`Pushed`), `Pop` shortens, `Clone` allocates (`Cloned`), and an error is `[code, at,
len, ...]`. Without the arrays "an error keeps its path" would hold by the shape
of the model; with them it depends on `Clone`. Texts are sequences of characters of a
small alphabet, and `ParsePath` reads them as the code does; it refuses an index beyond
`MaxIndex`, the largest that `strconv.Atoi` can represent.

### Decoder

As in `Parser` and `Encoder` the Go stack is the variable `stack`; `pc` says
whether a call of `assign` begins, ends, or a container's loop is between two items.
`src`, `typ` and `val` are the arguments of `assign`, with what the destination holds;
`made` of a frame is the container being filled. `where` and the `place` and `source`
of an error are history: what the path should say. A Go type is its kind, the type it
holds, a fixed length, its own methods and, for a struct, the fields in the order of
the table. Whether a text converts (`Strconv`), what a method of the destination makes
of a value, and base64 are external predicates. `Decode` goes on after an error, so
`Blame` returns to the loop like any other end of a call.

`Assigning` says what comes out of it. An assignment is a record of a source, a
destination type and place, what the destination holds before (`old`) and after (`new`),
the places that do not fit (`faults`), and the assignments directly inside it (`inner`):
the items of the source that have somewhere to go. Each part is determined by the others
without recursion (`IsAssignment`): a container's slot holds what the last item for it has
left there, or what was in it. So the two properties, `AssignsTheValue` and
`FaultsAreReported`, compare a run of the decoder, which walks with a stack and changes
things in place, with a definition that knows neither order nor stack. `Assignments(c)` is
a set of such records; `AssignmentsAssumption` says that they are assignments, and
`EveryCallConcerned` in `MCJSONX` that in the run every call has its own.

### Field cache

Every call of `cachedFields` is a process; a step is one field of `collectFields`, so
that calls interleave anywhere in it. A table is named by the call that made it and
`typeCache` holds names, because the maps of a table are shared and not copied. That a
call stores its table although another was faster is the action `Store`, as in
the code. `work` is the recursion into embedded structs with the `index` so far.

### Schema and facade

A validation threads a record of paths, errors and `where` through operators, one for
each of the code's functions; trials of `anyOf`, `oneOf`, `allOf` and `not` run with an
error list of their own and the same path (`Tried`). In `JSONX` it is one step, since
nothing is observable in between; `Decode` is stepwise. A request is what is passed
to a function of the facade: options as a sequence of settings, data as the value whose
text it is. What the parser refuses for the options' sake (`Parses`) is depth and
duplicate keys; syntax is the business of the parser's own modules. `float64` is a
multiple of a small unit, regular expressions and formats are external.

## 3. Runs

| Run | Shows | Bound |
|---|---|---|
| `parser` | the nodes are the document's parse tree; a document is refused only for depth or a repeated key, where it exceeds the limit; what is accepted is in the grammar and every error names its cause; spans nest, depth, keys; `Parse` returns | 10 tokens, depth limit 2, two keys, duplicates rejected; every document of the grammar of up to 10 tokens |
| `scanner` | number tokens are RFC 8259's; strings decode; positions match offsets; tokens and gaps tile the input; escaped strings scan back; `Compact` keeps tokens; integers are exact | 5 symbols of `- 0 1 . e +`, 4 with commas; 4 units of quotes, runes, invalid bytes, escapes, surrogates; 4 symbols of what `EscapeString` tells apart; 5 of blanks, comment signs and tokens; 6 of comments, with runes in them; 4 units of comments with stray bytes of each kind; comments allowed; words of 4 bits, two digits for `Conversion` |
| `stream` | stream and whole parse agree but for one level of depth; flags; `Value`; slices, clean end, refinement of `ElementStream`; `Next` returns | three alphabets, with brackets, strings and objects, with comments where white space may stand, and with all bytes the loops distinguish: 4 units after nothing and 4 after `[1 ,` |
| `encoder` | error codes, the output is the value's text, `seen`, depth, buffers; `Marshal` returns | any three cells referring to any (scalar, pointer, slice, map, struct), up to two items; all kinds, three cells two containers deep, with fields that are `quoted` or `omitempty`, names in and out of order and alike; unsorted on one line, and sorted and indented; depth limit 2; cells that are not part of the value are all the same, and of the other two cells the root refers to the second first |
| `buffer_pool` | one owner, own output | three calls, four buffers, two writes per call, calls repeated for ever |
| `facade` | `Decode` reports exactly the places that do not fit and assigns all others; the path is where the walk is, errors keep theirs, and `PathGet` finds the value by the path's text; of several options the last counts, and limits are obeyed (`OptionsAreObeyed`); the verdict of a schema; patterns; functions return | some 20,000 requests: 20 Go types, values up to three containers deep, options up to two long, 229 schemas on 45 instances |
| `fields` | complete tables for concurrent callers, never written again | three calls, four struct types that embed each other |
| `stream_slashes`, `stream_tail`, `encoder_prefix`, `encoder_references`, `encoder_zero` | the disagreements below | one family of inputs or heaps each |

The type invariants (`TypeOK`) and `StartedIsArray` are no properties of the runs: they
are proved for every value of the constants (section 4), and the runs check what says
more. `RejectDuplicateKeys = FALSE` has no run: the option adds one guard to the parser
(`Duplicate`), and the proofs of section 4 cover both settings.

Why the bounds are enough. With 10 tokens and a depth limit of 2 the parser meets
an object in an array in an object, three levels (one too many), a duplicate
key with a container in between, every illegal token in every state, and every
error code. The scanner's look-ahead is at most ten symbols, for a surrogate
pair, which is three units of the alphabet; all others are one or two
symbols. The byte loops of the stream reader keep one byte of history (a slash, a
star, a backslash) and a depth; four units after `[1 ,` reach a second and third
element, four after nothing reach nested arrays, objects and strings with escaped
quotes, at the beginning and in the middle of a stream. `StreamReader` is run both with the input ending
and with it failing. Three cells suffice for every shape of a cycle the encoder
tells apart: on itself, of two or three cells, through tracked kinds or only
through structs and pointers, and next to a shared value; with a depth limit of 2
each of them meets both the cycle check and the depth check first. In the pool
three calls hold at most three buffers at a time, so that with four there is
always a choice between a pooled buffer and a new one; two writes are enough to
see another call's write between one's own.

In `facade` each type is met by values that fit it, values of every other kind, null,
and members that are unknown, missing, repeated or of the wrong case; `pair` and `map`
begin with what an earlier call left in them. A path of three steps has been
reallocated on each way down (capacities 1, 2, 4) and is written in place for every
sibling after the first, and the recursive type `node` holds errors at two depths of it, so that a
kept path that shared its array would be overwritten. Eleven elements
make an index of two digits, and the last of them is at `MaxIndex`, so that a larger index is
refused. Options are tried in all sequences of up to two of eight
settings, on three values that differ in what they refuse. Schemas hold every keyword
alone, every combinator with every pair of six branches (a valid one, one that fails,
one with a bad pattern, one that is no object), and each of them one level further
down. In `fields` three calls are two that may both miss and a third that finds the
table of either; the types embed one struct twice, at two depths, and one without
fields. `Conversion` depends on how a number compares to the ends of its range; with
words of 4 bits five binary digits go beyond both ends, and `IntegersExact` is proved for
all widths and bases.

Fairness. `Parse` and `Next` are sequential functions: once called they run, so
`Parser` and `StreamReader` have weak fairness of their whole next-state relation,
and nothing else. For `StreamReader` this includes the calling loop: its caller
calls `Next` until it returns false, as every caller in the repository does.
`Encoder` and `Decoder` are sequential functions too. `FacadeSpec` asks fairness of
`Stepwise`, the steps of everything but a validation; that one is a single step of the
model, whose end would say nothing of the code. `FieldCache` and `BufferPool` have no
liveness property: a call may be preempted for ever, and nobody waits for it.
`TokenStream` has no fairness and no liveness property; its termination is the
safety fact that no token is empty (`TokensTileTheInput`).

`CHECK_DEADLOCK` is off everywhere: a parser that has returned, a stream whose
caller has stopped, an encoder that has returned and a token stream whose calls are
bounded stop rightly.

### Disagreements found

Each of the first five is a run that TLC ends with a counterexample.

- `stream_slashes`: a line comment right after an element is not seen as a comment
  by `readValue`; in `[1//,1` + newline + `]` the 1 inside the comment is delivered as a
  second element of an array that has one.
- `stream_tail`: after the root value a lone `/` is taken for a clean end.
- `encoder_prefix`: a slice is recognised by type and address only, so that a slice
  holding a shorter slice of the same array is refused as a cycle.
- `encoder_references`: an interface that holds a pointer to itself is followed for
  ever, since neither cycle detection nor depth sees it.
- `encoder_zero`: the zero `parser.Value` is written as nothing, also after a name.

Three more were met while modelling and have no run:

- columns count runes in strings, but bytes in comments (`lexer.go` 28, 30), where
  `PositionAt` counts runes: the 1 of `/*é*/1` is said to be in column 7 and is the sixth
  character. The test `TestUTF8ErrorColumnCountsRunes` is about a string;
- `PositionAt` believes a byte that announces a rune though none follows
  (`position.go` 27-31): after `/*`, the byte 0xC3 and `a*/` it counts a column less than the
  scanner, and it takes a newline behind such a byte for the rest of a rune
  (`PositionsMatchOffsets` holds up to the first comment with a byte that announces others);
- `bytes.TrimSpace` in `readValue` (`stream.go` 130) removes characters that are no
  JSON white space, so that `1` followed by U+000B ends cleanly.

No document of the repository promises otherwise, but a caller may be surprised, and
the models do as the code does:

- of two struct fields one of which is named by the lower-case form of the other's
  name, the later takes the key of the earlier, which is then reported missing although
  its key is there (`strict.go` 63, struct `clash` of `facade`);
- a key that occurs twice is assigned twice to a struct's field (arrays, maps and
  structs in it are merged), while `Lookup`, `Any` and `PathGet` take the last;
- `WithOptions` after the strict options of `DecodeStrict` undoes them;
- a text that is no number gives `EOverflow` for unsigned and floating point
  destinations, `ETypeMismatch` for signed ones (`decode.go`);
- a destination's own method is called for null, except through a pointer, which null
  clears first;
- the flag `quoted` of a field is set by `collectFields` and never read: what
  `Marshal` writes for `,string` is read back by coercion only; and the
  decoder finds the fields of embedded structs that the encoder writes as members of
  their own object;
- `maxItems: 2.0` counts as 0, since `Int64` of a text with a fraction is 0; a property
  named `pattern` anywhere in a schema must be a regular expression, since
  `checkPatterns` does not know which objects are schemas; `equal` is not symmetric
  when objects repeat keys.

The passing runs stay clear of all these: `scanner` claims nothing of
positions behind a comment with a byte that announces others; those of `stream` have no U+000B, no comment glued to a scalar and none
inside an element (only the properties that are about bytes, whatever
`Parse` makes of them, are checked on such inputs too); the encoder's other heaps have
one address per slice, no cycle of pointers and interfaces alone, and no parser.Value
without a kind. `AgreesWithParse` allows the one level of nesting more that a stream
accepts.

## 4. Proofs

`ParserProofs` proves for every set of tokens, every `MaxDepth` and both settings
of `RejectDuplicateKeys` that the parser's type invariant, `SpansMatch`,
`SpansNest`, `DepthBounded` and `UniqueKeys` hold. The assumptions are
`ParserAssumption` only. The inductive invariant `IInv` adds what the call stack
knows: frames open at tokens that are opening brackets of their kind, in
increasing order; every node constructed since a frame was opened lies inside it
and is deeper; in every state where a value has just been recognised it ends at
the token before the current one. Without these `SpansNest` is not inductive:
that a closing bracket encloses the nodes after its frame's start is a fact about
the history of the whole stack. The step lemmas follow the three shapes of a step:
one that only moves control (`Staying`), one that reads (`Reading`) and one that
constructs a node.

`ParserTreeProofs` proves what the parser is for, in both directions, without a
recursive grammar: a document is a text that has a parse tree, and a parse tree is a
set of nodes with spans in which every container is `Derived` from the nodes directly
in it.
`ParsesTheDocument` says that the nodes built so far are such a tree and that an
accepted document is spanned by its root (`IsParseTree`, soundness). Its invariant
`Tree` says what is known of a container before it is closed: the values directly in it
so far, each with its comma, key and colon, and at which token the next one must begin,
which is where `pc` stands.
`RefusesForLimits` says the reverse (`RefusesOnlyForLimits`, completeness): for any set
`Corpus` of texts with trees, and any beginning of one of them, no error is returned
but `EMaxDepth` at a value that is too deep and `EDuplicateKey` at a key that is there
twice. `CorpusAssumption` says only that the trees are trees; TLC evaluates it for all
documents of the grammar within the bound. The invariant `OnCourse` says that while the tokens read begin a
document, the calls in progress follow its tree: there are containers of the tree, each
directly in the one before and the first its root, that begin where the frames begin and
whose children so far are among the nodes built (`Linked`), and `pc` is at what the
innermost one has next (`Expects`). Without it a step that refuses says nothing, since
whether a comma is one too many depends on which container of the document the innermost
frame is. What the theorem leaves to TLC is that the code of a refusal of a text that
begins no document is the right one, and that a document has one tree only
(`VerdictNamesTheCause`: the grammar is a recursive definition).

`StreamReaderProofs` proves for every input, with and without comments and for
whatever `Parse` accepts (`StreamAssumption`: not the empty text) the type
invariant, `StartedIsArray`, `CleanEnd`, `ValueIsCurrent`, `ElementsAreSlices` and
that `StreamReader` implements `ElementStream`. Its `IInv` has three parts
besides. `Modes` says which combinations of the flags, the error, `pc` and the
place `readNonSpace` returns to occur; without it the prover meets a reader that is
done and reads on. `Buffers` says what the loops in progress have read: the bytes
collected by `readValue` are the input's from `from` to `offset`, and a single value
waiting for the end of the input is still such a slice. `Elements` says that
everything delivered lies behind the place the next element can begin; this is what
makes the slices ordered and disjoint. The refinement is proved step by step: each
step gives an element, ends, or changes nothing `ElementStream` speaks of.
`ElementStream` as instantiated states no fairness, so the safety refinement is
all of it.

`EncoderProofs` proves for every heap, finite or not, every `MaxDepth` and all
options the type invariant, `SeenIsTheStack`, `BuffersAreRestored` and
`DepthBounded`, from `EncoderAssumption` (references have one item, and what a
`parser.Value` holds are `parser.Value`s). The invariant adds that what is left of
a container are indices of its items (`LeftOver`), without which the next value is
none, and that a value met inside a `parser.Value` is one (`TreesWithin`), without
which `DepthBounded` is not inductive, because `tree` does not look at the depth.

It also proves `EncodesTheValue` (`ValueEncoded`), from `WritingAssumption` besides. The
property speaks of the end only, and what an inner `value` call has written is mixed
with what the outer ones had before. The invariant `Progress` therefore carries the chain
of calls that wait (`Stands`): an occurrence for each, directly inside the one before, the
outermost with the texts of the root, and for each the buffers as they were when it began.
Of each call it says (`Waiting`) that the buffers at which the next one began are its own
with the opening token, the texts of the first items in an allowed order, and what leads
the next item in; and what is left are the items of that order that follow (`Rest`). A
reference stands where what it refers to does (`StandsAlike`), for it has the same texts
and no frame. `value` returns by adding a text to the last buffer, after which
the call that waited is between two items (`ItemWritten`) or, for a quoted field, has that
text in a buffer of its own until `Unquote` (`OwnBuffer`). That the order of the Go maps
and the sorting are among the arrangements `Writing` allows is `OrdersArrange`.

The other half of `EncodesTheValue`, that an error means there is no text, and
`ErrorsNameTheCause` (`CausesNamed`) rest on a second invariant, `Tracing`. For `at` and
for each call in progress it says (`Located`) that its cell can be met from the root and
from every container outside it, that it is behind pointers and interfaces from an item of
the innermost one, and that if the root has a text so has this cell where it is
(`Has`: a text needs one of every item, `ItemsHaveTexts`, which rests on the arrangements
leaving no item out, `Arranged`). So what is too deep or refused leaves the root without a
text. A container met again within itself would need texts deeper and deeper (`Leads`
says so for every depth and not the current one alone), and there is a deepest
(`CycleTraced`). All three of the encoder's errors are thus exact for every heap, finite or
not; only that it returns (`Terminates`) is left to TLC.

`BufferPoolProofs` proves for any number of calls and buffers that a buffer has
one owner and that calls return what they wrote. `OneOwner` needs to know at which
places a call has a buffer (`Held`); `OutputIsOwn` needs that a buffer being
written holds its owner's bytes only (`ContentIsOwn`), which is preserved because
of `OneOwner`.

`FieldCacheProofs` proves for any number of calls and any struct types that a call
returns a table (`TypeOK`), that what `typeCache` offers is finished and of the type
asked for (`Published`), and that no shared table is ever written (`Frozen`), from
`CacheAssumption`. `TypeOK /\ Published` is inductive; `Frozen` follows because a step
writes only the table of a call that is collecting (`OwnTable`), and a published table's
call has done so. From `ListedAssumption` besides, that the lists of `FieldList` are what
they say, it proves that each call returns all fields of its type (`CompleteCorrect`).
The invariant `Right` says what a call has collected when the calls of `collectFields` in
progress have come so far: the table is what stood in it when the innermost call began
(`base`), followed by what the fields before the current one come to, seen from the root
(`Sofar`); and every outer call stands right behind the embedded struct that the next one
collects (`Enters`). It is preserved when a call returns because a list seen from an
embedded struct and then from the root is seen by the joined index (`WithinWithin`). That
the keys lead to the last field of their name (`IsTable`) is kept by each `Entered`.

`DecoderProofs` proves for all values, types and options, and whatever the conversions
give, `TypeOK`, `PathIsTheStack` and `ErrorsKeepTheirPaths`, from `ValueAssumption` and
`DecoderAssumption`. It begins with lemmas on what the path holds after each of its
operations and that all slices in other arrays are left alone (`Apart`,
`Leaves`). The invariant has three parts. `Control`: which `pc` goes with which
innermost call, and that `where` is where that call's items are. `Calling`: each call in
progress stands where the one before it has got to, a pointer's at the same place,
without which `Store`, which restores `where` from its frame, could not be seen to
restore the path too. `Paths`: the content of the path is `where`, and no error's slice
is in the array that is appended to; this last is what makes errors keep their paths,
and is why every `add` must clone. A step is one of a few shapes: a call that
returns or blames, one that begins (`CallBegins`), the path there and back
(`ThereAndBack`), an item begun and stored.

On top of it stand `FaultsReported` and `ValueAssigned`, that every call of `Decode` makes
the assignment that `Assigning` describes and reports its faults, from
`AssignmentsAssumption` besides. The invariant `Progress` says for the call's own
assignment where the decoder is in making it. `Stands`: the calls in progress make
assignments of which each is directly inside the one before, at the item its frame has got
to, and the first is the call's own; what they have reported is the union of the faults
before those items. `Waiting` and `Between`: a frame's container is the one
that the items before the current one make (`Filled`), and a struct's `seen` the names of
their fields. A property of the end alone would not be inductive, since what an item
leaves in a field depends on what an earlier item of the same name has left there. The
lemmas `FilledFirst`, `FilledNext`, `FilledSkips`, `SofarFirst`, `SofarNext` and
`SofarLast` say how both grow by an item, and there is one lemma for each action. That a
key's field is the one the code's table gives (`FoundIsFieldFor`: the last field of the
name, in lower case if need be) is the one induction in it: `TableLists`, over the rows of
the table, with `SetInduction`, which says induction of a set of numbers instead of
an operator and follows from the well-foundedness of `<`.

`ScannerProofs` proves for every input, however long, with and without comments, that the
tokens tile it (`TokensTile`), that number tokens are the longest numbers of RFC 8259
and nothing else is refused as a number (`NumbersCorrect`), and that strings hold what their
items stand for and are refused only if no quote ends one (`StringsCorrect`), from
`LexerAssumption` and `TokenStreamAssumption`. It has three layers.

1. That a loop has a result at all: a recursive function is a `CHOOSE`, and that there is a
   function to choose is `Recursion`, for any recursion with a number that each round makes
   smaller (`Recurs`), and `LoopsEnd`, for loops. `SkipSpaceIsALoop`, `ScanStringIsALoop`
   and `EscapeStringIsALoop` apply them, and `FoldsEnd` does for folds; from there on a
   loop is an equation.
2. One lemma for each scanning function, which says what it returns in the words of
   `Scanning`. `SkipGap`: `skipSpace` stops after a gap where no blank begins, and there
   is one such place only (`GapIsOne`). `StringScan`: a token whose data the items before
   the quote mean, or an error and no quote after items only. Its heart is that one round
   takes one item, and an error means that no item begins there (`RoundOfString`), and that
   at most one item begins at a place (`ItemEnds`). `NumberScan`: the parts of a number end where
   the next symbol can no longer be theirs, so that no longer number begins there (`ExpBound`); and
   if a part fails, each shorter number is one that the rest would continue
   (`IntFails`, `FracFails`, `ExpFails`). `NextOne` puts them together for `Next`.
3. The invariant `Inv` of `TokenStream`: for some `n` the first `n` tokens are tokens of the input, one after
   the other with gaps between them, and all others are EOF; until the stream has ended the scanner
   stands behind the last of them, and after that only a gap is left, or a gap and
   something that is no token (`Reading`). Without the last clause the three
   properties say nothing of an error, and it is there that they could be wrong.

The lemmas of the second layer take the text as a parameter, so that they speak of other
texts than the input too. On them rests `EscapedScansBack`: whatever the bytes of a string,
the scanner reads what `EscapeString` writes as one token that holds the string, repaired,
and then the end. The argument has two halves. What the loop has written from one of its
states on spells the rest of the string (`EscapedSpells`: each character by one item of
`Scanning`, a safe one by itself, `SafePart`, any other by its escape, `SpellsEscape`), which
rests on two texts, each with a meaning, having it one after the other (`MeansJoin`,
`MeansElsewhere`). And a text between quotes that spells something is read so
(`QuotedReads`): no quote in it ends the string early (`QuotesAlone`), and a text has one
meaning only (`MeansIsOne`), so that what `StringScan` says of the token's data determines it.

`IntegersExact` is about `Conversion`, for words of any width and any base from two to ten
(`ConversionAssumption`). A round of the fast loops gives the exact number if it is within
the limit and otherwise falls back, for good (`RoundIsExact`); both loops are folds, and the
fast one has the sum of the exact one exactly as long as that is within the limit
(`LoopIsExact`), so that nothing that overflowed is ever returned. The least number of a
signed word is the one whose absolute value is no signed word: `SmallWords` shows that the
conversions around the negation restore it. That a number token is an integer to them or
not by its symbols is `IntegersParse`.

`PositionsCorrect` is that the line and the column the scanner counts as it goes, in `advance`
and `advanceText`, are those that `PositionAt` counts again from the start of the text. Both
are compared with a third thing, the walk over the whole input that counts symbol by symbol
(`Walks`; `WalkExists` and `WalkOffsets`): `PositionAt` finds its value at every place, and
behind the first byte of a symbol what the code makes of a rune cut in two (`Lies`,
`PositionAtWalks`), and each scanning function, started on the walk, stays on it
(`Placed`: `AdvanceRight`, `AdvanceText`, `ScanTells`, `NextTells`). `skipSpace` leaves it
at a byte in a comment that announces others, for it counts each byte as a column, and only
there (`Smooth`); so the invariant, `Located` next to `Inv`, speaks of what comes before the
first such comment. Up to there no stray byte that announces others has been passed
(`Even`: a string refuses one, and no other token has any), so that `PositionAt`, whose loop
is an equation of its own (`PositionAtIsALoop`), has gone from symbol to symbol. Bytes and columns are sums over the symbols, and what is needed of sums
(`SumGrows`) is proved by counting the elements of a set.

`CompactKeeps` compares two scans: of the text, which `Inv` says everything about, and of
what `Compact` returns for it. `Compact` is a fold (`FoldOfCompact`) that stands outside
of strings before and after each token (`TokenCopied`: inside a string, between its items,
with no escape begun, `ItemInside`), so that each symbol of a token is copied, white space
between tokens is not (`GapDropped`), and what has been written stays (`WrittenStays`). The
tokens therefore stand in the result one right behind the other (`CopiedMoves`), and each
is read from there as what it was (`SameToken`): a number ends where it did since
punctuation or the end follows it, a string since a text has one meaning only. The second scan is
a fold over the tokens (`FoldOfRereads`), which `Rereads` states in `Scanning`.

The theorems about `Decoder` are of its own specification; `JSONX` runs the same actions
behind a resolved request, which is model-checked.

The last section of `DecoderProofs` is about the options those requests resolve:
`LastWordCounts`, that whatever options a caller lists, of every flag and of the depth the
last option that speaks of it counts, and `StrictUnlessTold`, what that makes of
`DecodeStrict`, which puts its own options before its caller's. They are what
`OptionsAreObeyed` checks of `Decode` for lists of up to two options. `resolve()` is a fold
over the list; what it has after a set of places (`By`) is given outright, and
that one more option takes it there (`AppliedLast`) makes it the fold (`AllApplied`).
`RequestsAssumption` in `JSONX` evaluates that the run's requests are of the kind the
theorems speak of.

Out of the prover's reach and only model-checked: liveness (`Terminates`),
equality with the grammar and with the whole parse (both are recursive
definitions over data), the schema (recursive operators), and what the facade's other
functions give. That every call of
`Decode` has an assignment in the sense of `Assigning` is a recursion over the value,
which TLC evaluates for the calls of the run (`EveryCallConcerned`), and so is that every
value has the texts of `Writing`; the theorems speak of whatever assignments and texts
there are.

## 5. Not modelled

- The white space around a custom marshaler's root value, which `Raw()` keeps
  (`parser.go` 33), and the depth of its output: the encoder's model takes that output
  as one token. A composition of `Encoder` with `Parser` over one text would be
  needed.
- `Value`'s mutators and `Raw()` of values that were not parsed; nothing calls them.
- `BytePool`, `ParseFloat` and the helpers of `internal/utf8.go` besides `RepairUTF8`:
  calls of the standard library, or not used.
- Texts of errors and snippets: formatting.
- `Tokenize`, `NewStreamReader`, `Marshal` and `Format` of the facade hand resolved
  options to components that have modules of their own.
- `jsonctl` and `webui`: argument parsing, printing and stateless HTTP handlers around
  the facade.
- External: the reading of tags by `reflect`, `strconv`, `regexp`, `net/mail`, `net/url`,
  `time`, `encoding/base64`, `sync.Pool` and `sync.Map` (by how the code uses them).

What could follow: the round trip of `Encoder` and `Parser` with custom marshalers and
both depth limits; a proof of `JSONX` that the decoder's invariants hold behind the
facade.
