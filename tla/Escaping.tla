----------------------------- MODULE Escaping ------------------------------
(***************************************************************************)
(* How the encoder writes a Go string (encode/escape.go), what it takes a   *)
(* string for that is not UTF-8 (internal/utf8.go), and Compact             *)
(* (encode/indent.go), on the symbols of Lexer.  "<" stands for the         *)
(* characters that HTML gives a meaning: < > &.                             *)
(***************************************************************************)
EXTENDS Lexer, SequencesExt

QuadOf(c) == CHOOSE q \in DOMAIN Stands : Stands[q] = c

(* RepairUTF8() *)
Repaired(s) == [k \in DOMAIN s |-> IF s[k] \in Invalid THEN "REPL" ELSE s[k]]

Mut_Safe(c, escapeHTML) == c \notin Controls \cup Invalid \cup {"\\", Quote, "LS"}

(* What needs no escape. *)
Safe(c, escapeHTML) ==
  c \notin Controls \cup Invalid \cup {"\\", Quote, "LS"} /\ (escapeHTML => c # "<")

Escapes(c) ==
  CASE c \in {"\\", Quote} -> <<"\\", c>>
    [] c = "LF"           -> <<"\\", "n">>
    [] c = "BS"           -> <<"\\", "b">>
    [] OTHER              -> <<"\\", "u", QuadOf(Repaired(<<c>>)[1])>>

(* The loop of appendEscapedString() stands at i, what is safe was written  *)
(* up to start. *)
EscapeStates(s) == [i : 1..(Len(s) + 1), start : 1..(Len(s) + 1)]
Standing(i, start) == [i |-> i, start |-> start]

(* appendEscapedString(): what is safe is written in one piece when         *)
(* something else comes, or the end. *)
EscapeString(s, escapeHTML) ==
  LET escaped[x \in EscapeStates(s)] ==
        IF x.i > Len(s) THEN SubSeq(s, x.start, Len(s))
        ELSE IF Safe(s[x.i], escapeHTML) THEN escaped[Standing(x.i + 1, x.start)]
        ELSE SubSeq(s, x.start, x.i - 1) \o Escapes(s[x.i]) \o escaped[Standing(x.i + 1, x.i + 1)]
  IN <<Quote>> \o escaped[Standing(1, 1)] \o <<Quote>>

-----------------------------------------------------------------------------
Mut_InString(r, c) ==
  IF ~ r.inString THEN [r EXCEPT !.inString = (c = Quote)] ELSE [r EXCEPT !.inString = (c # Quote)]

(* inString and escaped, after c *)
InString(r, c) ==
  IF ~ r.inString THEN [r EXCEPT !.inString = (c = Quote)]
  ELSE IF r.escaped THEN [r EXCEPT !.escaped = FALSE]
  ELSE [r EXCEPT !.escaped = (c = "\\"), !.inString = (c # Quote)]

Compact(src) ==
  LET step(r, c) ==
        [InString(r, c) EXCEPT !.out = IF r.inString \/ c \notin White THEN Append(@, c) ELSE @]
  IN FoldLeft(step, [out |-> <<>>, inString |-> FALSE, escaped |-> FALSE], src).out

=============================================================================
