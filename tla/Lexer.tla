------------------------------- MODULE Lexer --------------------------------
(***************************************************************************)
(* The scanner of lexer/lexer.go: what one call of Lexer.Next() returns and *)
(* where it leaves the position, as operators on the input data.            *)
(*                                                                          *)
(* The input is a sequence of symbols.  Most symbols are one byte; " "      *)
(* stands for space, tab and carriage return, and the others stand for the  *)
(* runs of bytes that the scanner always treats alike:                      *)
(*   "true" "false" "null"  the literals        "trux"  no literal, from 't' *)
(*   "LF"    a newline                           "CTL"   a byte below 0x20   *)
(*   "BS"    a backspace                         "VT"    U+000B, a control   *)
(*   "RUNE"  a two-byte rune   "LS"  U+2028      "REPL"  U+FFFD, a real one  *)
(*   "LEAD2" "LEAD3" "LEAD4"  a byte that announces a rune of so many bytes  *)
(*           but begins none     "BYTE"  any other byte that is not UTF-8    *)
(*   "0041" "001F" "000B" "003C" "FFFD" "2028"  four hex digits, of an A, of *)
(*           the characters CTL, VT, "<" and REPL, and of LS (all but the    *)
(*           first in strings only)                                          *)
(*   "D83D" "DE80"  four hex digits, of the high and the low surrogate of a  *)
(*                  rocket (U+1F680)                                         *)
(***************************************************************************)
EXTENDS Integers, Sequences, FiniteSets, FiniteSetsExt

CONSTANT AllowComments     (* lexer.Options.AllowComments *)

ASSUME LexerAssumption == AllowComments \in BOOLEAN

Punctuation == {"{", "}", "[", "]", ":", ","}
Literals    == {"true", "false", "null"}
Digits      == {"0", "1"}
White       == {" ", "LF"}
Controls    == {"LF", "CTL", "VT", "BS"}
Runes       == {"RUNE", "LS", "REPL"}
Leads       == {"LEAD2", "LEAD3", "LEAD4"}
Invalid     == Leads \cup {"BYTE"}

(* The characters of the four hex digits that are no surrogates. *)
Stands == [q \in {"0041", "001F", "000B", "003C", "FFFD", "2028"} |->
             CASE q = "0041" -> "A" [] q = "001F" -> "CTL" [] q = "000B" -> "VT"
               [] q = "003C" -> "<" [] q = "FFFD" -> "REPL" [] q = "2028" -> "LS"]
Quads  == DOMAIN Stands \cup {"D83D", "DE80"}

Quote == "\""

(* Inputs and what strings hold are sequences of them; a rocket is only held. *)
Symbols == Punctuation \cup Literals \cup Digits \cup White \cup Controls \cup Runes \cup Quads \cup Invalid \cup
           {"trux", Quote, "\\", "/", "*", "-", "+", ".", "e", "u", "b", "n", "A", "<", "rocket"}

(* Bytes in a symbol. *)
Width(c) == CASE c \in {"true", "null", "trux"} \cup Quads -> 4
              [] c = "false" -> 5
              [] c = "RUNE" -> 2
              [] c \in {"LS", "REPL"} -> 3
              [] OTHER -> 1

(* A scanner stands at symbol i, at pos. *)
StartPosition == [line |-> 1, column |-> 1, offset |-> 0]

Symbol(data, i) == IF i <= Len(data) THEN data[i] ELSE "end"

At(data, s)    == s.i <= Len(data)
Here(data, s)  == Symbol(data, s.i)
After(data, s) == Symbol(data, s.i + 1)

Bytes(data, i, j) == MapThenSumSet(LAMBDA k : Width(data[k]), i..j)

(* advance(), for each byte of the symbols from s up to the one at j. *)
AdvanceTo(data, s, j) ==
  LET newlines == {k \in s.i..(j - 1) : data[k] = "LF"}
  IN [i   |-> j,
      pos |-> [line   |-> s.pos.line + Cardinality(newlines),
               column |-> IF newlines = {}
                            THEN s.pos.column + Bytes(data, s.i, j - 1)
                            ELSE 1 + Bytes(data, Max(newlines) + 1, j - 1),
               offset |-> s.pos.offset + Bytes(data, s.i, j - 1)]]

Advance(data, s) == AdvanceTo(data, s, s.i + 1)

Mut_Columns(c) == Width(c)

(* advanceRune(): the bytes of a rune are one column. *)
Columns(c) == IF c \in Runes THEN 1 ELSE Width(c)

(* advance() and advanceRune(), for the symbols of a string from s up to    *)
(* the one at j; there is no newline in it. *)
AdvanceInText(data, s, j) ==
  [i   |-> j,
   pos |-> [s.pos EXCEPT !.offset = @ + Bytes(data, s.i, j - 1),
                         !.column = @ + MapThenSumSet(LAMBDA k : Columns(data[k]), s.i..(j - 1))]]

(* The two outcomes of a scan: a token that ends before s, or an error at p. *)
Token(kind, data, begin, s) ==
  [kind |-> kind, data |-> data, from |-> begin.i, to |-> s.i - 1, pos |-> begin.pos, end |-> s]
Error(code, p, s) ==
  [kind |-> "error", code |-> code, pos |-> p, end |-> s]

-----------------------------------------------------------------------------
(* Where a line comment that starts at i ends: at its newline. *)
LineEnd(data, i) == Min({j \in i..Len(data) : data[j] = "LF"} \cup {Len(data) + 1})

(* Where the text of a block comment ends: at its "*/", or at the last byte, *)
(* with which it cannot be closed any more.                                 *)
BlockEnd(data, i) ==
  LET closes(j) == data[j] = "*" /\ data[j + 1] = "/"
  IN Min({j \in i..(Len(data) - 1) : closes(j)} \cup {IF i > Len(data) THEN i ELSE Len(data)})

Mut_SkipSpace(data, start) ==
  LET skip[i \in Nat] ==
        LET c == Symbol(data, i)
            comment == IF AllowComments /\ c = "/" THEN Symbol(data, i + 1) ELSE "none"
            close   == BlockEnd(data, i + 1)
        IN CASE c \in White -> skip[i + 1]
             [] comment = "/" -> skip[LineEnd(data, i)]
             [] comment = "*" -> IF close < Len(data) THEN skip[close + 2]
                                 ELSE [error |-> TRUE, at |-> i, end |-> close]
             [] OTHER -> [error |-> FALSE, at |-> i]
  IN skip[start]

(* skipSpace(): where it stops, or the error of an unclosed block comment. *)
SkipSpace(data, start) ==
  LET skip[i \in Nat] ==
        LET c == Symbol(data, i)
            comment == IF AllowComments /\ c = "/" THEN Symbol(data, i + 1) ELSE "none"
            close   == BlockEnd(data, i + 2)
        IN CASE c \in White -> skip[i + 1]
             [] comment = "/" -> skip[LineEnd(data, i)]
             [] comment = "*" -> IF close < Len(data) THEN skip[close + 2]
                                 ELSE [error |-> TRUE, at |-> i, end |-> close]
             [] OTHER -> [error |-> FALSE, at |-> i]
  IN skip[start]

-----------------------------------------------------------------------------
(* scanNumber(): the integer, the fraction and the exponent, each of which  *)
(* may fail. *)
DigitsEnd(data, s) ==
  AdvanceTo(data, s, Min({j \in s.i..Len(data) : data[j] \notin Digits} \cup {Len(data) + 1}))

Good(s) == [ok |-> TRUE, end |-> s]
Bad(s)  == [ok |-> FALSE, end |-> s]       \* numberError(), with s reached

Unsigned(data, t) ==
  CASE Here(data, t) = "0" -> [ok |-> After(data, t) \notin Digits, end |-> Advance(data, t)]
    [] Here(data, t) \in Digits \ {"0"} -> Good(DigitsEnd(data, t))
    [] OTHER -> Bad(t)

Integer(data, s) == Unsigned(data, IF Here(data, s) = "-" THEN Advance(data, s) ELSE s)

Mut_Fraction(data, r) ==
  IF ~ r.ok \/ Here(data, r.end) # "." THEN r ELSE Good(DigitsEnd(data, Advance(data, r.end)))

(* The fraction and the exponent go on from the result r of what precedes. *)
Fraction(data, r) ==
  IF ~ r.ok \/ Here(data, r.end) # "." THEN r
  ELSE IF After(data, r.end) \notin Digits THEN Bad(Advance(data, r.end))
  ELSE Good(DigitsEnd(data, Advance(data, r.end)))

Power(data, t) == IF Here(data, t) \in Digits THEN Good(DigitsEnd(data, t)) ELSE Bad(t)

Sign(data, t) == IF Here(data, t) \in {"+", "-"} THEN Advance(data, t) ELSE t

Exponent(data, r) ==
  IF ~ r.ok \/ Here(data, r.end) # "e" THEN r
  ELSE Power(data, Sign(data, Advance(data, r.end)))

Number(data, s, r) ==
  IF r.ok THEN Token("number", SubSeq(data, s.i, r.end.i - 1), s, r.end)
          ELSE Error("EInvalidNumber", s.pos, r.end)

ScanNumber(data, s) == Number(data, s, Exponent(data, Fraction(data, Integer(data, s))))

-----------------------------------------------------------------------------
(* scanUnicode(): the character of the escape whose four hex digits are at  *)
(* s, and where the scan goes on. *)
Short(data, s) == Here(data, s) \notin Quads    \* too few bytes, or not hex

Rune(r, s)    == [kind |-> "rune", rune |-> r, end |-> s]
BadEscape(at) == Error("EInvalidEscape", at.pos, at)

\* The second half of a surrogate pair, whose digits are at u.
Pair(data, high, u) ==
  IF Short(data, u) THEN BadEscape(u)
  ELSE IF <<high, Here(data, u)>> # <<"D83D", "DE80">> THEN BadEscape(Advance(data, u))
  ELSE Rune("rocket", Advance(data, u))

\* After the first four digits, at t.
Surrogate(data, high, t) ==
  IF Here(data, t) = "\\" /\ After(data, t) = "u"
    THEN Pair(data, high, AdvanceTo(data, t, t.i + 2))
    ELSE BadEscape(t)

ScanUnicode(data, s) ==
  IF Short(data, s) THEN BadEscape(s)
  ELSE IF Here(data, s) \in DOMAIN Stands THEN Rune(Stands[Here(data, s)], Advance(data, s))
  ELSE Surrogate(data, Here(data, s), Advance(data, s))

Simple == [c \in {Quote, "\\", "/", "b", "n"} |->
             IF c = "b" THEN "BS" ELSE IF c = "n" THEN "LF" ELSE c]

(* advance(), for the first byte of a symbol only. *)
OneByte(data, s) ==
  IF data[s.i] = "LF" THEN Advance(data, s) ELSE [s EXCEPT !.pos.offset = @ + 1, !.pos.column = @ + 1]

(* The loop of scanString(): it stands at symbol i, decoded holds what the  *)
(* string is so far if there was an escape (hasEscape).                     *)
StringStates == [i : Nat \ {0}, decoded : Seq(Symbols), hasEscape : BOOLEAN]

More(i, decoded, hasEscape) ==
  [kind |-> "more", at |-> [i |-> i, decoded |-> decoded, hasEscape |-> hasEscape]]

\* The result r of scanUnicode().
Unicode(r, decoded) ==
  IF r.kind = "error" THEN r ELSE More(r.end.i, Append(decoded, r.rune), TRUE)

\* An escape whose letter is at e.
Escape(data, open, e, decoded) ==
  IF ~ At(data, e) THEN Error("EUnclosedString", open.pos, e)
  ELSE IF data[e.i] \in DOMAIN Simple THEN More(e.i + 1, Append(decoded, Simple[data[e.i]]), TRUE)
  ELSE IF data[e.i] = "u" THEN Unicode(ScanUnicode(data, Advance(data, e)), decoded)
  ELSE Error("EInvalidEscape", OneByte(data, e).pos, OneByte(data, e))

Mut_StringRound(data, open, x) ==
  LET s       == AdvanceInText(data, open, x.i)
      c       == Here(data, s)
      content == IF x.hasEscape THEN x.decoded ELSE SubSeq(data, open.i + 1, x.i - 1)
  IN CASE c = "end"      -> Error("EUnclosedString", open.pos, s)
       [] c = Quote       -> Token("string", content, open, Advance(data, s))
       [] c \in Controls -> Error("EIllegalChar", s.pos, s)
       [] c = "\\"       -> Escape(data, open, Advance(data, s), content)
       [] c \in Invalid  -> Error("EInvalidUTF8", s.pos, s)
       [] c \in Runes    -> More(x.i + 1, x.decoded, x.hasEscape)
       [] OTHER -> More(x.i + 1, IF x.hasEscape THEN Append(x.decoded, c) ELSE x.decoded, x.hasEscape)

(* One round of the loop, in the string that open begins: the token, an     *)
(* error, or where it goes on. *)
StringRound(data, open, x) ==
  LET s       == AdvanceInText(data, open, x.i)
      c       == Here(data, s)
      content == IF x.hasEscape THEN x.decoded ELSE SubSeq(data, open.i + 1, x.i - 1)
  IN CASE c = "end"      -> Error("EUnclosedString", open.pos, s)
       [] c = Quote       -> Token("string", content, open, Advance(data, s))
       [] c \in Controls -> Error("EIllegalChar", s.pos, s)
       [] c = "\\"       -> Escape(data, open, Advance(data, s), content)
       [] c \in Invalid  -> Error("EInvalidUTF8", s.pos, s)
       [] OTHER -> More(x.i + 1, IF x.hasEscape THEN Append(x.decoded, c) ELSE x.decoded, x.hasEscape)

ScanString(data, open) ==
  LET loop[x \in StringStates] ==
        LET r == StringRound(data, open, x) IN IF r.kind = "more" THEN loop[r.at] ELSE r
  IN loop[[i |-> open.i + 1, decoded |-> <<>>, hasEscape |-> FALSE]]

-----------------------------------------------------------------------------
(* Next(): white space, then the token its first byte announces. *)
Scan(data, s) ==
  LET c == Here(data, s) IN
  CASE c = "end"             -> [Token("EOF", <<>>, s, s) EXCEPT !.pos = s.pos]
    [] c \in Punctuation     -> Token(c, <<>>, s, Advance(data, s))
    [] c = Quote              -> ScanString(data, s)
    [] c \in Literals        -> Token(c, <<c>>, s, Advance(data, s))
    [] c \in Digits \cup {"-"} -> ScanNumber(data, s)
    [] c = "0041"            -> Error("EInvalidNumber", s.pos, OneByte(data, s))  \* 0, then a digit
    [] OTHER                 -> Error("EIllegalChar", s.pos, s)

AfterSpace(data, s, skip) ==
  IF skip.error
    THEN Error("EIllegalChar", AdvanceTo(data, s, skip.at).pos, AdvanceTo(data, s, skip.end))
    ELSE Scan(data, AdvanceTo(data, s, skip.at))

Next(data, s) == AfterSpace(data, s, SkipSpace(data, s.i))

-----------------------------------------------------------------------------
(* lexer.PositionAt(): the position of a byte offset, recomputed from the   *)
(* data alone.  It goes as far as each byte announces, whatever follows.    *)
Positions == [line : Nat, column : Nat, offset : Nat]

(* runeLen() of the first byte of c, of no first byte if c is "rest".       *)
RuneLen(c) == CASE c \in Runes -> Width(c)
                [] c = "LEAD2" -> 2
                [] c = "LEAD3" -> 3
                [] c = "LEAD4" -> 4
                [] OTHER -> 1

(* One round of its loop: at p is c, what is announced may not pass end.    *)
Stride(p, c, end) ==
  IF c = "LF" THEN [line |-> p.line + 1, column |-> 1, offset |-> p.offset + 1]
  ELSE [p EXCEPT !.column = @ + 1,
                 !.offset = @ + IF p.offset + RuneLen(c) > end THEN 1 ELSE RuneLen(c)]

(* What is at an offset, if begin is where each symbol of data begins.      *)
ByteAt(data, begin, offset) ==
  IF \E k \in DOMAIN begin : begin[k] = offset
    THEN data[CHOOSE k \in DOMAIN begin : begin[k] = offset] ELSE "rest"

PositionAt(data, offset) ==
  LET begin == [k \in 1..Len(data) |-> Bytes(data, 1, k - 1)]
      size  == Bytes(data, 1, Len(data))
      end   == IF offset > size THEN size ELSE offset
      walk[p \in Positions] ==
        IF p.offset >= end THEN p ELSE walk[Stride(p, ByteAt(data, begin, p.offset), end)]
  IN walk[StartPosition]

=============================================================================
