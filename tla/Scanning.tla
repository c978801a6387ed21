------------------------------ MODULE Scanning ------------------------------
(***************************************************************************)
(* What the tokens of an input should be: places i..j of the input that are *)
(* blanks, numbers of RFC 8259 and what strings are made of, each said      *)
(* about the places alone, with no recursion.  Models no code.              *)
(***************************************************************************)
EXTENDS TokenStream, Escaping, Conversion

(* White space and, if they are allowed, comments.  A line comment goes up  *)
(* to a newline or the end of the input.                                    *)
LineComment(data, i, j) ==
  /\ i < j /\ data[i] = "/" /\ data[i + 1] = "/"
  /\ \A k \in i..j : data[k] # "LF"
  /\ j = Len(data) \/ data[j + 1] = "LF"

BlockComment(data, i, j) ==
  /\ i + 3 <= j /\ data[i] = "/" /\ data[i + 1] = "*"
  /\ data[j - 1] = "*" /\ data[j] = "/"
  /\ \A k \in (i + 2)..(j - 2) : ~ (data[k] = "*" /\ data[k + 1] = "/")

Blank(data, i, j) ==
  \/ i = j /\ data[i] \in White
  \/ AllowComments /\ (LineComment(data, i, j) \/ BlockComment(data, i, j))

(* What may stand between two tokens: nothing but blanks. *)
Gap(data, i, j) ==
  \E cuts \in SUBSET (i..(j + 1)) :
    /\ {i, j + 1} \subseteq cuts
    /\ \A c \in cuts \ {j + 1} : \E d \in cuts : Blank(data, c, d - 1)

-----------------------------------------------------------------------------
Scanned   == {k \in 1..Len(tokens) : tokens[k].kind # "EOF"}
Resume(k) == IF k = 1 THEN 1 ELSE tokens[k - 1].to + 1

(* The first symbol after the tokens so far and a gap: after an error, what *)
(* could not be scanned. *)
Rest     == Resume(Cardinality(Scanned) + 1)
First(k) == Gap(input, Rest, k - 1) /\ \A j \in k..Len(input) : ~ Blank(input, k, j)

(* No byte is lost or read twice: no token is empty (so the calls get to    *)
(* the end of the input), between two tokens there is only white space and  *)
(* comments, a stream that ended without an error has read the whole input, *)
(* one that ended with an error has met something that is not blank nor a   *)
(* token of one symbol, and what has ended never yields a token again       *)
(* (lexer.go 10-35, 97-104).                                                *)
TokensTileTheInput ==
  /\ \A k \in Scanned :
       LET t == tokens[k] IN
       /\ k > 1 => k - 1 \in Scanned
       /\ t.from <= t.to /\ t.to <= Len(input)
       /\ Gap(input, Resume(k), t.from - 1)
       /\ t.kind \in Punctuation \cup Literals => t.from = t.to /\ input[t.from] = t.kind
  /\ Ended /\ err.kind = "none" => Gap(input, Rest, Len(input))
  /\ err.kind = "error" =>
       \E k \in 1..Len(input) : First(k) /\ input[k] \notin Punctuation \cup Literals

-----------------------------------------------------------------------------
(* The numbers of RFC 8259: digits, an integer, a fraction, an exponent.    *)
Run(data, i, j) == i <= j /\ \A k \in i..j : data[k] \in Digits

IsInt(data, i, j)  == Run(data, i, j) /\ (data[i] = "0" => i = j)
IsFrac(data, i, j) == j = i - 1 \/ (i < j /\ data[i] = "." /\ Run(data, i + 1, j))
IsExp(data, i, j)  ==
  \/ j = i - 1
  \/ i < j /\ data[i] = "e"
     /\ (Run(data, i + 1, j) \/ (data[i + 1] \in {"+", "-"} /\ Run(data, i + 2, j)))

IsNumber(data, i, j) ==
  \E s \in {i, i + 1} : \E f, e \in i..(j + 1) :
    (s = i + 1 => data[i] = "-") /\ IsInt(data, s, f - 1) /\ IsFrac(data, f, e - 1) /\ IsExp(data, e, j)

(* Something that was to continue the number i..j comes after it: a second  *)
(* digit after a leading 0, a fraction or an exponent.                      *)
Continued(data, i, j) ==
  /\ j < Len(data)
  /\ \/ data[j + 1] \in Digits
     \/ data[j + 1] = "." /\ \A k \in i..j : data[k] \notin {".", "e"}
     \/ data[j + 1] = "e" /\ \A k \in i..j : data[k] # "e"

Longest(data, i, j) == IsNumber(data, i, j) /\ \A k \in (j + 1)..Len(data) : ~ IsNumber(data, i, k)

(* A number token is the longest RFC 8259 number that starts there, and     *)
(* EInvalidNumber is reported exactly where a '-' or digit starts no number *)
(* or its longest number is cut in the middle of something that was to      *)
(* continue it (lexer.go 72-87).                                            *)
NumbersAreRFC8259 ==
  /\ \A k \in Scanned :
       LET t == tokens[k] IN
       t.kind = "number" => /\ Longest(input, t.from, t.to) /\ ~ Continued(input, t.from, t.to)
                            /\ t.data = SubSeq(input, t.from, t.to)
  /\ err.kind = "error" => \A k \in 1..Len(input) : First(k) =>
       /\ err.code = "EInvalidNumber" <=> input[k] \in Digits \cup {"-", "0041"}
       /\ \A j \in k..Len(input) : Longest(input, k, j) => Continued(input, k, j)

-----------------------------------------------------------------------------
(* What a string may contain, with what it stands for. *)
Plain(c) == c \notin Controls \cup Invalid \cup {Quote, "\\"}
Letters  == {<<Quote, Quote>>, <<"\\", "\\">>, <<"/", "/">>, <<"b", "BS">>, <<"n", "LF">>}
Hex      == {<<"0041", "A">>, <<"001F", "CTL">>, <<"000B", "VT">>, <<"003C", "<">>, <<"FFFD", "REPL">>,
             <<"2028", "LS">>}

IsItem(data, i, j, c) ==
  \/ j = i /\ data[i] = c /\ Plain(c)
  \/ j = i + 1 /\ data[i] = "\\" /\ <<data[j], c>> \in Letters
  \/ j = i + 2 /\ data[i] = "\\" /\ data[i + 1] = "u" /\ <<data[j], c>> \in Hex
  \/ j = i + 5 /\ c = "rocket" /\ data[i] = "\\" /\ data[i + 1] = "u" /\ data[i + 2] = "D83D"
               /\ data[i + 3] = "\\" /\ data[i + 4] = "u" /\ data[j] = "DE80"

Means(data, i, j, held) ==
  \E begins \in [1..(Len(held) + 1) -> i..(j + 1)] :
    /\ begins[1] = i /\ begins[Len(held) + 1] = j + 1
    /\ \A k \in 1..Len(held) : IsItem(data, begins[k], begins[k + 1] - 1, held[k])

Characters(data) == {data[k] : k \in 1..Len(data)} \cup {p[2] : p \in Letters \cup Hex} \cup {"rocket"}

IsText(data, i, j) ==
  \E cuts \in SUBSET (i..(j + 1)) :
    /\ {i, j + 1} \subseteq cuts
    /\ \A k \in cuts \ {j + 1} : \E l \in cuts, c \in Characters(data) : IsItem(data, k, l - 1, c)

(* A string token's data is what the items between its quotes stand for,    *)
(* whichever came first, escapes or plain text; and a string is refused     *)
(* only if no quote ends it with nothing but such items in between          *)
(* (lexer.go 36-72).                                                        *)
StringsDecode ==
  /\ \A k \in Scanned :
       LET t == tokens[k] IN
       t.kind = "string" => /\ t.from < t.to /\ input[t.from] = Quote /\ input[t.to] = Quote
                            /\ Means(input, t.from + 1, t.to - 1, t.data)
  /\ err.kind = "error" => \A k \in 1..Len(input) : First(k) /\ input[k] = Quote =>
       \A m \in (k + 1)..Len(input) : input[m] = Quote => ~ IsText(input, k + 1, m - 1)

-----------------------------------------------------------------------------
(* Neither a rune nor a byte that announces one stands in the gaps before   *)
(* the first n tokens: the scanner counts each byte of a comment as a       *)
(* column (lexer.go 28), PositionAt() as many as are announced as one, even *)
(* if the bytes that follow are no rune and one of them a newline           *)
(* (position.go 27-31).                                                     *)
ByteByByte(i, j) == \A r \in i..j : RuneLen(input[r]) = 1
Clear(n)         == \A k \in 1..n : ByteByByte(Resume(k), tokens[k].from - 1)

BytesBefore(i) == Bytes(input, 1, i - 1)

(* The line, the column and the offset that the scanner has counted up, for *)
(* each token, for an error and for what follows it, are those that a walk  *)
(* over the whole text finds, as long as no comment holds a byte that       *)
(* announces others; a token's are those of its first byte (lexer.go 91-96, *)
(* position.go 7-36). *)
PositionsMatchOffsets ==
  LET n    == Cardinality(Scanned)
      last == tokens[n + 1].pos
  IN
  /\ \A k \in Scanned : Clear(k) => tokens[k].pos = PositionAt(input, BytesBefore(tokens[k].from))
  /\ Ended /\ err.kind = "none" /\ Clear(n) /\ ByteByByte(Rest, Len(input)) =>
       last = PositionAt(input, BytesBefore(Len(input) + 1))
  /\ err.kind = "error" /\ Clear(n) => \A k \in 1..Len(input) : First(k) /\ ByteByByte(Rest, k - 1) =>
       /\ err.pos = PositionAt(input, err.pos.offset)
       /\ input[k] # "/" \/ ByteByByte(k, Len(input)) => last = PositionAt(input, last.offset)

-----------------------------------------------------------------------------
(* What EscapeString() writes for a string of any bytes is one JSON string, *)
(* which the scanner reads as that string, repaired if it is not UTF-8, and *)
(* with which the text ends (escape.go 8-66, utf8.go 10); no < is left in   *)
(* it if HTML is escaped, and never a line separator. *)
EscapedStringsScanBack ==
  tokens = <<>> =>
    \A escapeHTML \in BOOLEAN :
      LET text == EscapeString(input, escapeHTML)
          t    == Next(text, Start)
      IN /\ t.kind = "string" /\ t.data = Repaired(input)
         /\ Next(text, t.end).kind = "EOF"
         /\ \A k \in 1..Len(text) : text[k] # "LS" /\ (escapeHTML => text[k] # "<")

-----------------------------------------------------------------------------
(* No comment stands between the tokens, and punctuation between any two    *)
(* values: a text as the encoder writes it. *)
NoSlash(i, j) == \A r \in i..j : input[r] # "/"
NoComments    == (\A k \in Scanned : NoSlash(Resume(k), tokens[k].from - 1)) /\ NoSlash(Rest, Len(input))
ValuesApart   ==
  \A k \in Scanned : tokens[k].kind \in Punctuation \/ tokens[k + 1].kind \in Punctuation \cup {"EOF"}

(* From text the scanner reads the tokens ts, each where the one before it  *)
(* ended, and the text ends with the last one.                              *)
RereadBegin == [ok |-> TRUE, at |-> Start]

(* r when the scanner has read u where t should stand. *)
HasRead(r, t, u) ==
  IF r.ok /\ u.kind = t.kind /\ u.data = t.data /\ u.from = r.at.i
    THEN [ok |-> TRUE, at |-> u.end] ELSE [ok |-> FALSE, at |-> r.at]

Reread(text, r, t) == HasRead(r, t, Next(text, r.at))
AtTheEnd(r, text)  == r.ok /\ r.at.i = Len(text) + 1

Rereads(text, ts) ==
  LET read(r, t) == Reread(text, r, t) IN AtTheEnd(FoldLeft(read, RereadBegin, ts), text)

(* Compact() leaves every token of a text as it is, quotes and blanks in    *)
(* its strings included, and nothing between them: the scanner reads the    *)
(* same tokens from what it returns, one right behind the other (indent.go  *)
(* 15-41). *)
CompactKeepsTokens ==
  Ended /\ err.kind = "none" /\ NoComments /\ ValuesApart =>
    Rereads(Compact(input), SubSeq(tokens, 1, Cardinality(Scanned)))

-----------------------------------------------------------------------------
(* The fast loops give what exact arithmetic gives for any text, up to the  *)
(* ends of the range of a word and beyond (number.go 8-48), and an integer  *)
(* token is a number for them (number.go 54).  A sign alone is no number to *)
(* strconv, but 0 to ParseIntFast(). *)
IntegersAreExact ==
  /\ tokens = <<>> =>
       /\ ParseUintFast(input) = ParseUint(input)
       /\ ParseIntFast(input) = IF input = <<"-">> THEN Is(0) ELSE ParseInt(input)
  /\ \A k \in Scanned : tokens[k].kind = "number" =>
       (IsInteger(tokens[k].data) <=> ParseIntFast(tokens[k].data) # Not("syntax"))

=============================================================================
