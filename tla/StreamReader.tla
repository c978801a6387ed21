---------------------------- MODULE StreamReader ----------------------------
(***************************************************************************)
(* parser.StreamReader (parser/stream.go): the elements of a root array, or *)
(* one root value, read byte by byte from an io.Reader.                     *)
(*                                                                          *)
(* A step reads at most one byte.  pc says which loop the call of Next() is *)
(* in: "skip", "slash", "line" and "block" are readNonSpace(), "value" is   *)
(* readValue(), "idle" is outside Next().  readNonSpace() is called from    *)
(* five places; ret says from which, that is, what its result means.        *)
(*                                                                          *)
(* The input is a sequence of the symbols of Lexer; offset counts them.     *)
(* An element is kept with the place of its text in the input.              *)
(***************************************************************************)
EXTENDS Integers, Sequences

CONSTANTS
  Inputs,          (* what the reader may hold                              *)
  AllowComments,   (* Options.AllowComments                                 *)
  Parse(_)         (* whether parser.Parse accepts a text                   *)

ASSUME StreamAssumption ==
  /\ \A d \in Inputs : d \in Seq(STRING)
  /\ AllowComments \in BOOLEAN
  /\ ~ Parse(<<>>)

VARIABLES
  input,      (* the bytes of the io.Reader ...                             *)
  tail,       (* ... and the error it returns after them                    *)
  offset,     (* s.offset                                                   *)
  started, array, first, done,
  current,    (* s.current: its text, empty for nil                         *)
  err,        (* s.err, "" for nil                                          *)
  pc, ret,    (* see above                                                  *)
  previous,   (* of readNonSpace(): the last byte of the block comment      *)
  from,       (* where the text in out begins                               *)
  out, depth, inString, escaped,     (* the locals of readValue()           *)
  result,     (* what the last call of Next() returned                      *)
  delivered   (* the elements of the calls that returned TRUE               *)

root   == <<started, array, first>>
local  == <<from, out, depth, inString, escaped>>
caller == <<result, delivered>>
vars   == <<input, tail, offset, root, done, current, err, pc, ret, previous, local, caller>>

Errors == {"EOF", "failure", "unexpectedEOF", "expected comma", "trailing comma",
           "ETrailingData", "parse error"}

AtEnd == offset = Len(input)
Byte  == input[offset + 1]
Take  == offset' = offset + 1

IsSpace(b) == b \in {" ", "LF"}

UnexpectedEOF(e) == IF e = "EOF" THEN "unexpectedEOF" ELSE e

-----------------------------------------------------------------------------
Mut_Finish(e) ==
  /\ done' = TRUE /\ err' = e
  /\ result' = FALSE
  /\ pc' = "idle"
  /\ UNCHANGED <<current, root, ret, local, delivered>>

(* finish(): Next() returns FALSE, now and from now on. *)
Finish(e) ==
  /\ current' = <<>> /\ done' = TRUE /\ err' = e
  /\ result' = FALSE
  /\ pc' = "idle"
  /\ UNCHANGED <<root, ret, local, delivered>>

(* readNonSpace() is called; r is what to do with its result. *)
SkipTo(r) == pc' = "skip" /\ ret' = r

(* readValue() is called with its first byte, which stands at k. *)
ReadValue(b, k) ==
  /\ pc' = "value" /\ UNCHANGED ret
  /\ from' = k /\ out' = <<b>>
  /\ depth' = IF b \in {"{", "["} THEN 1 ELSE 0
  /\ inString' = (b = "\"") /\ escaped' = FALSE

(* Go on inside Next(): nothing is decided yet. *)
Continue == UNCHANGED <<done, current, err, caller>>

-----------------------------------------------------------------------------
(* Next(), on entry.  That !s.array never holds after the start is the      *)
(* invariant StartedIsArray; its branch is not an action here.              *)
NextEnded ==
  /\ pc = "idle" /\ (err # "" \/ done)
  /\ result' = FALSE
  /\ UNCHANGED <<input, tail, offset, root, done, current, err, pc, ret, previous, local, delivered>>

NextStarts ==
  /\ pc = "idle" /\ err = "" /\ ~ done
  /\ ~ started
  /\ SkipTo("first")
  /\ Continue
  /\ UNCHANGED <<input, tail, offset, root, previous, local>>

Mut_NextItem ==
  /\ pc = "idle"
  /\ started
  /\ SkipTo("item")
  /\ Continue
  /\ UNCHANGED <<input, tail, offset, root, previous, local>>

NextItem ==
  /\ pc = "idle" /\ err = "" /\ ~ done
  /\ started
  /\ SkipTo("item")
  /\ Continue
  /\ UNCHANGED <<input, tail, offset, root, previous, local>>

(* readNonSpace() returned b, which stands at k.                            *)
(* The root value begins: an array whose elements are to be read, or the    *)
(* one value (parseSingle). *)
Root(b, k) ==
  /\ ret = "first"
  /\ started' = TRUE /\ UNCHANGED first
  /\ IF b = "["
       THEN array' = TRUE /\ SkipTo("item") /\ UNCHANGED local
       ELSE ReadValue(b, k) /\ UNCHANGED array
  /\ Continue

(* endArray(): only white space may follow. *)
EndArray(b) ==
  /\ ret = "item" /\ b = "]"
  /\ first' = FALSE /\ UNCHANGED <<started, array>>
  /\ SkipTo("end")
  /\ Continue /\ UNCHANGED local

FirstElement(b, k) ==
  /\ ret = "item" /\ first /\ b # "]"
  /\ first' = FALSE /\ UNCHANGED <<started, array>>
  /\ ReadValue(b, k)
  /\ Continue

Comma(b) ==
  /\ ret = "item" /\ ~ first /\ b = ","
  /\ SkipTo("next")
  /\ Continue /\ UNCHANGED <<root, local>>

NoComma(b) == ret = "item" /\ ~ first /\ b \notin {"]", ","} /\ Finish("expected comma")

TrailingComma(b) == ret = "next" /\ b = "]" /\ Finish("trailing comma")

Element(b, k) ==
  /\ ret = "next" /\ b # "]"
  /\ ReadValue(b, k)
  /\ Continue /\ UNCHANGED root

Mut_TrailingData(b) == ret \in {"end", "tail"} /\ Finish("EOF")

(* expectEOF() found a byte, after an array or after a single value. *)
TrailingData(b) == ret \in {"end", "tail"} /\ Finish("ETrailingData")

Return(b, k) ==
  \/ Root(b, k) \/ EndArray(b) \/ FirstElement(b, k) \/ Comma(b) \/ NoComma(b)
  \/ TrailingComma(b) \/ Element(b, k) \/ TrailingData(b)

(* readNonSpace() returned the error e.                                     *)
(* expectEOF() after a single value: Next() returns TRUE and is done. *)
SingleDone(e) ==
  /\ ret = "tail" /\ e = "EOF"
  /\ done' = TRUE /\ err' = "EOF"
  /\ result' = TRUE
  /\ delivered' = Append(delivered, [from |-> from, text |-> current])
  /\ pc' = "idle"
  /\ UNCHANGED <<root, current, ret, local>>

ReturnError(e) ==
  \/ SingleDone(e)
  \/ ret \in {"first", "end"} /\ Finish(e)
  \/ ret = "tail" /\ e # "EOF" /\ Finish(e)
  \/ ret \in {"item", "next"} /\ Finish(UnexpectedEOF(e))

-----------------------------------------------------------------------------
(* readNonSpace(): white space and, if allowed, comments. *)
Blank(p) == pc' = p /\ UNCHANGED ret /\ Continue /\ UNCHANGED <<root, local>>

SkipSpace ==
  /\ pc = "skip" /\ ~ AtEnd /\ IsSpace(Byte)
  /\ Take /\ Blank("skip") /\ UNCHANGED <<input, tail, previous>>

Slash ==
  /\ pc = "skip" /\ ~ AtEnd /\ Byte = "/" /\ AllowComments
  /\ Take /\ Blank("slash") /\ UNCHANGED <<input, tail, previous>>

SkipDone ==
  /\ pc = "skip" /\ ~ AtEnd
  /\ ~ IsSpace(Byte) /\ ~ (Byte = "/" /\ AllowComments)
  /\ Take /\ Return(Byte, offset + 1) /\ UNCHANGED <<input, tail, previous>>

(* After a '/': a comment begins, or the byte is put back. *)
OpenLine ==
  /\ pc = "slash" /\ ~ AtEnd /\ Byte = "/"
  /\ Take /\ Blank("line") /\ UNCHANGED <<input, tail, previous>>

OpenBlock ==
  /\ pc = "slash" /\ ~ AtEnd /\ Byte = "*"
  /\ Take /\ Blank("block") /\ previous' = "NUL" /\ UNCHANGED <<input, tail>>

LoneSlash ==
  /\ pc = "slash" /\ ~ AtEnd /\ Byte \notin {"/", "*"}
  /\ Return("/", offset) /\ UNCHANGED <<input, tail, offset, previous>>

LineByte ==
  /\ pc = "line" /\ ~ AtEnd
  /\ Take /\ Blank(IF Byte = "LF" THEN "skip" ELSE "line") /\ UNCHANGED <<input, tail, previous>>

BlockByte ==
  /\ pc = "block" /\ ~ AtEnd
  /\ Take /\ previous' = Byte
  /\ Blank(IF previous = "*" /\ Byte = "/" THEN "skip" ELSE "block")
  /\ UNCHANGED <<input, tail>>

Mut_SkipError ==
  /\ pc \in {"skip", "slash"} /\ AtEnd
  /\ ReturnError(tail) /\ UNCHANGED <<input, tail, offset, previous>>

SkipError ==
  /\ pc \in {"skip", "slash", "line"} /\ AtEnd
  /\ ReturnError(tail) /\ UNCHANGED <<input, tail, offset, previous>>

BlockError ==
  /\ pc = "block" /\ AtEnd
  /\ ReturnError(UnexpectedEOF(tail)) /\ UNCHANGED <<input, tail, offset, previous>>

-----------------------------------------------------------------------------
(* bytes.TrimSpace() also trims what is white space in Unicode only. *)
UnicodeSpace(b) == IsSpace(b) \/ b = "VT"

Kept(text) == {k \in 1..Len(text) : ~ UnicodeSpace(text[k])}

(* parseElement(): readValue() returned text, which begins at k.  Of a root *)
(* array it is the element; a single value must be followed by nothing. *)
Parsed(k, text) ==
  IF ~ Parse(text)
    THEN Finish("parse error")
    ELSE /\ current' = text
         /\ from' = k
         /\ UNCHANGED <<root, done, err, out, depth, inString, escaped>>
         /\ IF array
              THEN /\ result' = TRUE
                   /\ delivered' = Append(delivered, [from |-> k, text |-> text])
                   /\ pc' = "idle" /\ UNCHANGED ret
              ELSE SkipTo("tail") /\ UNCHANGED caller

ParsedTrimmed ==
  \/ Kept(out) = {} /\ Parsed(from, <<>>)
  \/ \E lo, hi \in Kept(out) :
       /\ \A k \in Kept(out) : lo <= k /\ k <= hi
       /\ Parsed(from + lo - 1, SubSeq(out, lo, hi))

Keep(b) == out' = Append(out, b) /\ UNCHANGED from

Reading == pc = "value" /\ ~ AtEnd /\ UNCHANGED <<input, tail, previous>>

More == pc' = "value" /\ UNCHANGED ret /\ Continue /\ UNCHANGED root

Mut_StringByte ==
  /\ Reading /\ inString /\ ~ (~ escaped /\ Byte = "\"")
  /\ Take /\ out' = (IF escaped \/ Byte = "\\" THEN Append(out, Byte) ELSE out) /\ UNCHANGED from
  /\ escaped' = (~ escaped /\ Byte = "\\")
  /\ More /\ UNCHANGED <<depth, inString>>

(* Inside a string: the quote that ends it ends a string value too. *)
StringByte ==
  /\ Reading /\ inString /\ ~ (~ escaped /\ Byte = "\"")
  /\ Take /\ Keep(Byte)
  /\ escaped' = (~ escaped /\ Byte = "\\")
  /\ More /\ UNCHANGED <<depth, inString>>

Mut_StringEnd ==
  /\ Reading /\ inString /\ Byte = "\"" /\ depth # 0
  /\ Take /\ Keep(Byte)
  /\ inString' = FALSE
  /\ More /\ UNCHANGED <<depth, escaped>>

StringEnd ==
  /\ Reading /\ inString /\ ~ escaped /\ Byte = "\"" /\ depth # 0
  /\ Take /\ Keep(Byte)
  /\ inString' = FALSE
  /\ More /\ UNCHANGED <<depth, escaped>>

StringValue ==
  /\ Reading /\ inString /\ ~ escaped /\ Byte = "\"" /\ depth = 0
  /\ Take /\ Parsed(from, Append(out, Byte))

StringStart ==
  /\ Reading /\ ~ inString /\ Byte = "\""
  /\ Take /\ Keep(Byte)
  /\ inString' = TRUE
  /\ More /\ UNCHANGED <<depth, escaped>>

Nest ==
  /\ Reading /\ ~ inString /\ Byte \in {"{", "["}
  /\ Take /\ Keep(Byte)
  /\ depth' = depth + 1
  /\ More /\ UNCHANGED <<inString, escaped>>

Unnest ==
  /\ Reading /\ ~ inString /\ Byte \in {"}", "]"} /\ depth > 1
  /\ Take /\ Keep(Byte)
  /\ depth' = depth - 1
  /\ More /\ UNCHANGED <<inString, escaped>>

ContainerValue ==
  /\ Reading /\ ~ inString /\ Byte \in {"}", "]"} /\ depth = 1
  /\ Take /\ Parsed(from, Append(out, Byte))

(* A bracket or comma that is not of the value ends it and is put back. *)
Delimited ==
  /\ Reading /\ ~ inString /\ Byte \in {"}", "]", ","} /\ depth = 0
  /\ UNCHANGED offset
  /\ ParsedTrimmed

Spaced ==
  /\ Reading /\ ~ inString /\ IsSpace(Byte) /\ depth = 0
  /\ Take
  /\ ParsedTrimmed

OtherByte ==
  /\ Reading /\ ~ inString
  /\ Byte \notin {"\"", "{", "[", "}", "]"}
  /\ depth # 0 \/ (Byte # "," /\ ~ IsSpace(Byte))
  /\ Take /\ Keep(Byte)
  /\ More /\ UNCHANGED <<depth, inString, escaped>>

(* The input ends: a scalar value ends with it, any other is cut off. *)
ValueEOF ==
  /\ pc = "value" /\ AtEnd
  /\ tail = "EOF" /\ depth = 0 /\ ~ inString
  /\ ParsedTrimmed
  /\ UNCHANGED <<input, tail, offset, previous>>

ValueError ==
  /\ pc = "value" /\ AtEnd
  /\ ~ (tail = "EOF" /\ depth = 0 /\ ~ inString)
  /\ Finish(UnexpectedEOF(tail))
  /\ UNCHANGED <<input, tail, offset, previous>>

-----------------------------------------------------------------------------
Init ==
  /\ input \in Inputs /\ tail \in {"EOF", "failure"}
  /\ offset = 0
  /\ started = FALSE /\ array = FALSE /\ first = TRUE /\ done = FALSE
  /\ current = <<>> /\ err = ""
  /\ pc = "idle" /\ ret = "first"
  /\ previous = "NUL"
  /\ from = 1 /\ out = <<>> /\ depth = 0 /\ inString = FALSE /\ escaped = FALSE
  /\ result = FALSE /\ delivered = <<>>

Entry    == NextEnded \/ NextStarts \/ NextItem
Skipping == \/ SkipSpace \/ Slash \/ SkipDone \/ OpenLine \/ OpenBlock \/ LoneSlash
            \/ LineByte \/ BlockByte \/ SkipError \/ BlockError
Value    == \/ StringByte \/ StringEnd \/ StringValue \/ StringStart
            \/ Nest \/ Unnest \/ ContainerValue \/ Delimited \/ Spaced \/ OtherByte
            \/ ValueEOF \/ ValueError

Next == Entry \/ Skipping \/ Value

(* Next() is a sequential function that returns, and its caller calls it    *)
(* until it returns FALSE.                                                  *)
Spec == Init /\ [][Next]_vars /\ WF_vars(Next)

-----------------------------------------------------------------------------
PCs  == {"idle", "skip", "slash", "line", "block", "value"}
Rets == {"first", "item", "next", "end", "tail"}

Previous   == {"NUL"} \cup STRING
ElementSet == [from : Nat, text : Seq(STRING)]

(* Type invariant of the reader's variables. *)
TypeOK ==
  /\ input \in Seq(STRING) /\ tail \in {"EOF", "failure"}
  /\ offset \in 0..Len(input)
  /\ started \in BOOLEAN /\ array \in BOOLEAN /\ first \in BOOLEAN /\ done \in BOOLEAN
  /\ current \in Seq(STRING) /\ err \in {""} \cup Errors
  /\ pc \in PCs /\ ret \in Rets
  /\ previous \in Previous
  /\ from \in Nat /\ out \in Seq(STRING) /\ depth \in Nat
  /\ inString \in BOOLEAN /\ escaped \in BOOLEAN
  /\ result \in BOOLEAN /\ delivered \in Seq(ElementSet)

(* Between calls, a reader that has started and is not done reads an array: *)
(* Next() never comes to its "if !s.array" (stream.go 39-42).               *)
StartedIsArray == pc = "idle" /\ started /\ ~ done => array

(* io.EOF from Err(), the end a caller takes for success, is reported only  *)
(* when every byte has been read and the reader itself ended without an     *)
(* error: a failing io.Reader never passes for the end of the document.     *)
CleanEnd == err = "EOF" => tail = "EOF" /\ offset = Len(input) /\ done

(* Elements are slices of the input, in order, with at least a byte (their  *)
(* comma) between two of them: the one-byte UnreadByte() and the trimming   *)
(* neither lose, repeat nor move a byte.                                    *)
ElementsAreSlices ==
  /\ \A i \in 1..Len(delivered) :
       LET e == delivered[i] IN
       /\ e.from >= 1 /\ Len(e.text) >= 1 /\ e.from + Len(e.text) - 1 <= offset
       /\ e.text = SubSeq(input, e.from, e.from + Len(e.text) - 1)
  /\ \A i, j \in 1..Len(delivered) :
       i < j => delivered[i].from + Len(delivered[i].text) < delivered[j].from

(* Value() is the element of the call that just returned TRUE, and nil once *)
(* Next() has returned FALSE on an array.                                   *)
ValueIsCurrent ==
  pc = "idle" =>
    /\ result => delivered # <<>> /\ current = delivered[Len(delivered)].text
    /\ done /\ array => current = <<>>

(* The reader seen by its caller. *)
Verdict == IF ~ done THEN "open" ELSE IF err = "EOF" THEN "clean" ELSE "failed"

Abstract == INSTANCE ElementStream WITH elements <- delivered, verdict <- Verdict

(* StreamReader implements ElementStream: in particular it delivers nothing *)
(* after its verdict, and never changes it.                                 *)
ImplementsElementStream == Abstract!Spec

(* A caller that calls Next() until it returns FALSE is not kept for ever.  *)
Terminates == <>(done /\ pc = "idle" /\ ~ result)

=============================================================================
