--------------------------- MODULE MCTokenStream ----------------------------
(***************************************************************************)
(* Model checking of TokenStream, and so of the scanner, on all the inputs  *)
(* that a few alphabets make; and of what is written for the scanner or     *)
(* made of its tokens, on the same inputs: strings, compacted texts and     *)
(* integers.                                                                *)
(***************************************************************************)
EXTENDS Scanning

(* Inputs of up to n units, sequences of symbols, from an alphabet; inputs  *)
(* of up to n symbols. *)
InputsUpTo(S, n) == UNION {[1..k -> S] : k \in 0..n}
InputsOf(alphabet, n) == {FlattenSeq(units) : units \in InputsUpTo(alphabet, n)}

(* Alphabets: one for each of the scanner's parts. *)
Numerals == {"-", "0", "1", ".", "e", "+"}
Texts == {<<"\"">>, <<" ">>, <<"\\", "\"">>, <<"RUNE">>, <<"LEAD3">>, <<"\\">>, <<"\\", "u">>, <<"\\", "n">>,
          <<"\\", "u", "0041">>, <<"\\", "u", "D83D">>, <<"\\", "u", "DE80">>}
Strings == {"\"", "\\", "1", "<", "LF", "BS", "VT", "BYTE", "LEAD2", "LS", "REPL"}
Blanks == {"/", "*", " ", "LF", "1", "true", "["}
Comments == {"/", "*", "LF", "1", "RUNE"}
Undecoded == {<<"/", "*">>, <<"*", "/">>, <<"LF">>, <<"1">>, <<"RUNE">>, <<"BYTE">>, <<"LEAD2">>, <<"LEAD3">>,
              <<"LEAD4">>}

MaxDigits == 6     \* bound: digits in a row
MCInputs == InputsUpTo(Numerals, 5) \cup InputsUpTo(Numerals \cup {","}, 4) \cup InputsOf(Texts, 4)
            \cup InputsUpTo(Strings, 4) \cup InputsUpTo(Blanks, 5) \cup InputsUpTo(Comments, MaxDigits)
            \cup InputsOf(Undecoded, 4)

=============================================================================
