-------------------------------- MODULE Path --------------------------------
(***************************************************************************)
(* errors.Path (errors/path.go): the memory of paths, and their texts.      *)
(*                                                                          *)
(* The steps of a Path are a slice, which shares its array with the slices  *)
(* it was made from.  The memory m of paths is all arrays, each as long as  *)
(* its capacity, and the one path that is appended to: its array at, and    *)
(* its length len.  Texts and keys are sequences of characters.             *)
(***************************************************************************)
EXTENDS Integers, Sequences, SequencesExt

CONSTANT MaxIndex     (* the largest index that strconv.Atoi can represent *)

ASSUME PathAssumption == MaxIndex \in Nat

KeyStep(k)   == [key |-> k, index |-> 0, isKey |-> TRUE]
IndexStep(i) == [key |-> <<>>, index |-> i, isKey |-> FALSE]
ZeroStep     == IndexStep(0)

RootPath == [arrays |-> << <<>> >>, at |-> 1, len |-> 0]

(* append() doubles the capacity of a full slice. *)
Grown(n) == IF n = 0 THEN 1 ELSE 2 * n

Room(m) == Len(m.arrays[m.at])

(* AppendKey(), AppendIndex(): in place while there is room. *)
Pushed(m, s) ==
  IF m.len < Room(m)
    THEN [m EXCEPT !.arrays[m.at][m.len + 1] = s, !.len = @ + 1]
    ELSE [arrays |-> Append(m.arrays, [i \in 1..Grown(m.len) |->
                       IF i <= m.len THEN m.arrays[m.at][i]
                       ELSE IF i = m.len + 1 THEN s ELSE ZeroStep]),
          at |-> Len(m.arrays) + 1, len |-> m.len + 1]

(* Pop() *)
Popped(m) == IF m.len > 0 THEN [m EXCEPT !.len = @ - 1] ELSE m

Mut_Copy(m)    == [at |-> m.at, len |-> m.len]
(* Clone(): an array of its own, and the slice that an error keeps of it.   *)
Cloned(m) == [m EXCEPT !.arrays = Append(@, SubSeq(@[m.at], 1, m.len))]
Copy(m)   == [at |-> Len(m.arrays) + 1, len |-> m.len]

Content(m, slice) == SubSeq(m.arrays[slice.at], 1, slice.len)

(* add(), errors.OnPath(), Error.WithPath(): an error, its path a copy of   *)
(* m, the path of now.  place and source are what it is about: the steps    *)
(* that lead to the value.  No code keeps them.                             *)
OnPath(code, m, place, v) ==
  [code |-> code, at |-> Copy(m).at, len |-> Copy(m).len, place |-> place, source |-> v]

-----------------------------------------------------------------------------
(* String() *)
Digits     == <<"0", "1", "2", "3", "4", "5", "6", "7", "8", "9">>
Marks      == {".", "[", "]", "'", "\\", "$", " ", "-"}    \* no letters
IsDigit(c) == c \in Range(Digits)
IsPlain(c) == c \notin Marks                              \* letter, digit or "_"

SimpleKey(k) == k # <<>> /\ ~ IsDigit(k[1]) /\ \A i \in 1..Len(k) : IsPlain(k[i])

Decimal[n \in Nat] ==
  IF n < 10 THEN <<Digits[n + 1]>> ELSE Append(Decimal[n \div 10], Digits[(n % 10) + 1])

Mut_Quoted(k) == k

Quoted(k) == FlattenSeq([i \in 1..Len(k) |-> IF k[i] \in {"\\", "'"} THEN <<"\\", k[i]>> ELSE <<k[i]>>])

StepText(s) ==
  CASE ~ s.isKey       -> <<"[">> \o Decimal[s.index] \o <<"]">>
    [] SimpleKey(s.key) -> <<".">> \o s.key
    [] OTHER           -> <<"[", "'">> \o Quoted(s.key) \o <<"'", "]">>

Text(steps) == <<"$">> \o FlattenSeq([i \in 1..Len(steps) |-> StepText(steps[i])])

-----------------------------------------------------------------------------
(* ParsePath(): the steps, or that the text is no path. *)
Bad       == [ok |-> FALSE]
Good(s)   == [ok |-> TRUE, steps |-> s]
Then(s, rest) == IF rest.ok THEN Good(<<s>> \o rest.steps) ELSE Bad

CharAt(text, i) == IF i <= Len(text) THEN text[i] ELSE "end"

(* The first place from i on with one of the characters, or the end. *)
Until(text, i, chars) ==
  LET next[j \in Nat] == IF j <= Len(text) /\ text[j] \notin chars THEN next[j + 1] ELSE j
  IN next[i]

Number(digits) ==
  LET value(n, c) == 10 * n + SelectInSeq(Digits, LAMBDA d : d = c) - 1
  IN FoldLeft(value, 0, digits)

(* The key that begins at i, and where its closing quote is. *)
QuotedKey(text, i) ==
  LET from[j \in Nat] ==
        LET more(c, k) == IF from[k].ok THEN [from[k] EXCEPT !.key = <<c>> \o @] ELSE Bad
        IN CASE CharAt(text, j) = "end" -> Bad
             [] CharAt(text, j) = "'"   -> [ok |-> TRUE, key |-> <<>>, end |-> j]
             [] CharAt(text, j) = "\\"  ->
                  IF CharAt(text, j + 1) \in {"\\", "'"} THEN more(text[j + 1], j + 2) ELSE Bad
             [] OTHER -> more(text[j], j + 1)
  IN from[i]

ParsePath(text) ==
  LET steps[i \in Nat] ==
        LET plain  == Until(text, i + 1, {".", "["})
            quoted == QuotedKey(text, i + 2)
            digits == Until(text, i + 1, Range(text) \ Range(Digits))
            index  == Number(SubSeq(text, i + 1, digits - 1))
        IN CASE CharAt(text, i) = "end" -> Good(<<>>)
             [] CharAt(text, i) = "." /\ plain > i + 1 ->
                  Then(KeyStep(SubSeq(text, i + 1, plain - 1)), steps[plain])
             [] CharAt(text, i) = "[" /\ CharAt(text, i + 1) = "'" ->
                  IF quoted.ok /\ CharAt(text, quoted.end + 1) = "]"
                    THEN Then(KeyStep(quoted.key), steps[quoted.end + 2]) ELSE Bad
             [] CharAt(text, i) = "[" /\ digits > i + 1 /\ CharAt(text, digits) = "]" /\ index <= MaxIndex ->
                  Then(IndexStep(index), steps[digits + 1])
             [] OTHER -> Bad
  IN IF CharAt(text, 1) = "$" THEN steps[2] ELSE Bad

=============================================================================
