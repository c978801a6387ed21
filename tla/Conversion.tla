---------------------------- MODULE Conversion -----------------------------
(***************************************************************************)
(* The integers of parser/number.go: ParseIntFast() and ParseUintFast() of  *)
(* a text, a sequence of characters, in machine words of any width and with *)
(* the digits of any number system (the code's: 64 bits and ten digits).    *)
(***************************************************************************)
EXTENDS Integers, Sequences, SequencesExt

CONSTANTS
  Half,      (* words of 64 bits: 2^63                                      *)
  Base

ASSUME ConversionAssumption == Half \in Nat /\ Base \in 2..10 /\ Half > Base

MaxUint == 2 * Half - 1
MaxInt  == Half - 1
Word(n) == n % (2 * Half)                                         \* uint64()
Signed(n) == IF Word(n) > MaxInt THEN Word(n) - 2 * Half ELSE Word(n)   \* int64()

Figures == <<"0", "1", "2", "3", "4", "5", "6", "7", "8", "9">>
Figure(c) == SelectInSeq(Figures, LAMBDA d : d = c) - 1
IsFigure(c) == Figure(c) \in 0..(Base - 1)

Is(n)  == [error |-> "none", value |-> n]
Not(e) == [error |-> e]

(* strconv.ParseUint(), strconv.ParseInt(): exact, between min and max.     *)
Exactly(sign, text, min, max) ==
  LET add(n, c) == n * Base + Figure(c)
      n == sign * FoldLeft(add, 0, text)
  IN IF text = <<>> \/ \E k \in 1..Len(text) : ~ IsFigure(text[k]) THEN Not("syntax")
     ELSE IF n \in min..max THEN Is(n) ELSE Not("range")

ParseUint(text) == Exactly(1, text, 0, MaxUint)
ParseInt(text) ==
  LET first == IF text = <<>> THEN "end" ELSE text[1]
  IN Exactly(IF first = "-" THEN -1 ELSE 1, IF first \in {"+", "-"} THEN Tail(text) ELSE text,
             -MaxInt - 1, MaxInt)

-----------------------------------------------------------------------------
Fallback == -1

Mut_Round(n, c, limit) ==
  IF n = Fallback \/ ~ IsFigure(c) \/ n > limit \div Base THEN Fallback
  ELSE Word(n * Base + Figure(c))

(* One round of the loops. *)
Round(n, c, limit) ==
  IF n = Fallback \/ ~ IsFigure(c) \/ n > Word(limit - Figure(c)) \div Base THEN Fallback
  ELSE Word(n * Base + Figure(c))

Loop(text, limit) == LET round(n, c) == Round(n, c, limit) IN FoldLeft(round, 0, text)

ParseUintFast(text) ==
  LET n == Loop(text, MaxUint)
  IN IF text = <<>> THEN Not("syntax") ELSE IF n = Fallback THEN ParseUint(text) ELSE Is(n)

ParseIntFast(text) ==
  LET negative == text # <<>> /\ text[1] = "-"
      n == IF negative THEN Loop(Tail(text), MaxInt + 1) ELSE Loop(text, MaxInt)
  IN CASE text = <<>>  -> Not("syntax")
       [] n = Fallback -> ParseInt(text)
       [] OTHER -> Is(IF negative THEN Signed(-Signed(n)) ELSE Signed(n))

IsInteger(text) == \A k \in 1..Len(text) : text[k] \notin {".", "e"}

=============================================================================
