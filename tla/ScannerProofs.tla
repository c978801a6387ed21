--------------------------- MODULE ScannerProofs ----------------------------
(***************************************************************************)
(* Proofs about the scanner, for inputs of any length, and about the        *)
(* conversion of its numbers, for words of any width.  A scan is a loop, a  *)
(* recursive function: what it returns is found by looking for the last     *)
(* place from which it would return anything else.                          *)
(***************************************************************************)
EXTENDS Scanning, Conversion, SequenceTheorems, FiniteSetTheorems, WellFoundedInduction, TLAPS

(* A set of numbers that is not empty has a least one. *)
LEMMA Smallest ==
  ASSUME NEW S, S \subseteq Nat, S # {}
  PROVE  \E x \in S : \A y \in S : x <= y
<1>1. PICK x \in S : \A y \in S : ~ (<<y, x>> \in OpToRel(<, Nat))
  BY ONLY S \subseteq Nat, S # {}, NatLessThanWellFounded, WFMin
<1>2. \A y \in S : ~ (y < x)
  BY <1>1 DEF OpToRel
<1>3. QED
  BY <1>2

(* A recursion over S that gets closer to its end in each round has a       *)
(* result: there is the function that its definition speaks of.             *)
Ends(S, ends, next, size) ==
  \A x \in S : /\ size[x] \in Nat
               /\ x \notin ends => next[x] \in S /\ size[next[x]] < size[x]

Recurs(S, V, ends, next, result, comb) ==
  \E f \in [S -> V] : \A x \in S : f[x] = IF x \in ends THEN result[x] ELSE comb[x][f[next[x]]]

LEMMA Recursion ==
  ASSUME NEW S, NEW V, NEW ends, NEW next, NEW size, Ends(S, ends, next, size),
         NEW result \in [S -> V], NEW comb \in [S -> [V -> V]]
  PROVE  Recurs(S, V, ends, next, result, comb)
<1> USE DEF Ends, Recurs
<1> DEFINE Solves(f, n) == \A x \in S : size[x] < n =>
                             f[x] = IF x \in ends THEN result[x] ELSE comb[x][f[next[x]]]
           F == [n \in Nat |-> CHOOSE f : Solves(f, n)]
           g == [x \in S |-> F[size[x] + 1][x]]
<1>1. ASSUME NEW n \in Nat PROVE \E f : Solves(f, n)
  <2> DEFINE N == {k \in Nat : ~ \E f : Solves(f, k)}
  <2>1. ASSUME N # {} PROVE FALSE
    <3>1. PICK k \in N : \A l \in N : k <= l
      <4> HIDE DEF Solves
      <4>1. N \subseteq Nat
        OBVIOUS
      <4> QED BY ONLY <2>1, <4>1, Smallest
    <3>2. k # 0
      BY <3>1
    <3>3. k - 1 \in Nat /\ k - 1 \notin N
      <4>1. N \subseteq Nat
        OBVIOUS
      <4> HIDE DEF N
      <4> QED BY ONLY <3>1, <3>2, <4>1
    <3>4. PICK f : Solves(f, k - 1)
      BY <3>3
    <3> DEFINE h == [x \in S |-> IF x \in ends THEN result[x] ELSE comb[x][f[next[x]]]]
    <3>5. ASSUME NEW x \in S, size[x] < k
          PROVE  h[x] = IF x \in ends THEN result[x] ELSE comb[x][h[next[x]]]
      <4>3. h[x] = IF x \in ends THEN result[x] ELSE comb[x][f[next[x]]]
        BY Zenon
      <4> HIDE DEF h
      <4>1. CASE x \in ends
        BY <4>1, <4>3
      <4>2. CASE x \notin ends
        <5>1. next[x] \in S /\ size[next[x]] < k - 1
          BY <3>5, <4>2, <3>1
        <5>2. h[x] = comb[x][f[next[x]]]
          BY <4>2, <4>3
        <5>3. f[next[x]] = h[next[x]]
          BY <5>1, <3>4 DEF h
        <5> QED BY <4>2, <5>2, <5>3
      <4> QED BY <4>1, <4>2
    <3>6. Solves(h, k)
      BY <3>5
    <3> QED BY <3>1, <3>6
  <2> QED BY <2>1
<1>2. ASSUME NEW n \in Nat, NEW f, NEW h, Solves(f, n), Solves(h, n), NEW y \in S, size[y] < n
      PROVE  f[y] = h[y]
  <2> DEFINE N == {k \in Nat : \E x \in S : size[x] = k /\ size[x] < n /\ f[x] # h[x]}
  <2>1. ASSUME N # {} PROVE FALSE
    <3>1. PICK k \in N : \A l \in N : k <= l
      <4> HIDE DEF Solves
      <4>1. N \subseteq Nat
        OBVIOUS
      <4> QED BY ONLY <2>1, <4>1, Smallest
    <3>2. PICK x \in S : size[x] = k /\ size[x] < n /\ f[x] # h[x]
      BY <3>1
    <3>3. x \notin ends
      BY <1>2, <3>2
    <3>4. /\ next[x] \in S /\ size[next[x]] < k
          /\ f[next[x]] # h[next[x]]
      BY <1>2, <3>2, <3>3
    <3>5. size[next[x]] \in N
      BY <3>2, <3>4
    <3> QED BY <3>1, <3>4, <3>5
  <2>2. size[y] \notin N
    BY <2>1
  <2> QED BY <1>2, <2>2
<1>3. ASSUME NEW n \in Nat PROVE Solves(F[n], n)
  <2>1. F[n] = CHOOSE f : Solves(f, n)
    BY DEF F
  <2>2. \E f : Solves(f, n)
    BY <1>1
  <2> HIDE DEF Solves
  <2> QED BY <2>1, <2>2
<1>4. ASSUME NEW x \in S
      PROVE  g[x] = IF x \in ends THEN result[x] ELSE comb[x][g[next[x]]]
  <2>1. size[x] \in Nat /\ Solves(F[size[x] + 1], size[x] + 1)
    <3>1. size[x] \in Nat /\ size[x] + 1 \in Nat
      OBVIOUS
    <3> HIDE DEF Solves, F
    <3> QED BY <1>3, <3>1
  <2>2. g[x] = F[size[x] + 1][x]
    OBVIOUS
  <2> HIDE DEF F, g
  <2>3. g[x] = IF x \in ends THEN result[x] ELSE comb[x][F[size[x] + 1][next[x]]]
    BY <2>1, <2>2
  <2>4. ASSUME x \notin ends PROVE F[size[x] + 1][next[x]] = g[next[x]]
    <3> DEFINE y == next[x]
    <3>1. y \in S /\ size[y] \in Nat /\ size[y] < size[x]
      BY <2>4
    <3> HIDE DEF y
    <3>2. g[y] = F[size[y] + 1][y]
      BY <3>1 DEF g
    <3>3. Solves(F[size[y] + 1], size[y] + 1)
      BY <3>1, <1>3
    <3>4. Solves(F[size[x] + 1], size[y] + 1)
      BY <2>1, <3>1
    <3>5. size[y] + 1 \in Nat /\ size[y] < size[y] + 1
      BY <3>1
    <3>6. F[size[x] + 1][y] = F[size[y] + 1][y]
      <4> HIDE DEF Solves
      <4> QED BY <1>2, <3>1, <3>3, <3>4, <3>5
    <3> QED BY <3>2, <3>6 DEF y
  <2> QED BY <2>3, <2>4
<1>5. ASSUME NEW x \in S PROVE g[x] \in V
  <2> DEFINE N == {k \in Nat : \E y \in S : size[y] = k /\ g[y] \notin V}
  <2> HIDE DEF g
  <2>1. ASSUME N # {} PROVE FALSE
    <3>1. PICK k \in N : \A l \in N : k <= l
      <4>1. N \subseteq Nat
        OBVIOUS
      <4> QED BY ONLY <2>1, <4>1, Smallest
    <3>2. PICK y \in S : size[y] = k /\ g[y] \notin V
      BY <3>1
    <3>3. y \notin ends
      BY <1>4, <3>2
    <3>4. next[y] \in S /\ size[next[y]] \in Nat /\ size[next[y]] < k
      BY <3>2, <3>3
    <3>5. g[next[y]] \in V
      BY <3>1, <3>4
    <3>6. comb[y][g[next[y]]] \in V
      BY <3>5
    <3> QED BY <1>4, <3>2, <3>3, <3>6
  <2>2. size[x] \notin N
    BY <2>1
  <2> QED BY <2>2
<1>6. g \in [S -> V]
  BY <1>5
<1> QED BY <1>4, <1>6


(* A loop is a recursion that only goes on. *)
HasResults(S, ends, next, result) ==
  \E f : \A x \in S : f[x] = IF x \in ends THEN result[x] ELSE f[next[x]]

LEMMA LoopsEnd ==
  ASSUME NEW S, NEW ends, NEW next, NEW size, Ends(S, ends, next, size)
  PROVE  \A result : HasResults(S, ends, next, result)
<1> SUFFICES ASSUME NEW result PROVE HasResults(S, ends, next, result)
  OBVIOUS
<1> DEFINE V    == {result[x] : x \in S}
           r    == [x \in S |-> result[x]]
           comb == [x \in S |-> [v \in V |-> v]]
<1>1. r \in [S -> V] /\ comb \in [S -> [V -> V]]
  OBVIOUS
<1>2. PICK f \in [S -> V] : \A x \in S : f[x] = IF x \in ends THEN r[x] ELSE comb[x][f[next[x]]]
  <2> HIDE DEF V, r, comb
  <2>1. Ends(S, ends, next, size)
    OBVIOUS
  <2>2. Recurs(S, V, ends, next, r, comb)
    BY ONLY <1>1, <2>1, Recursion
  <2> QED BY <2>2 DEF Recurs
<1>3. ASSUME NEW x \in S PROVE f[x] = IF x \in ends THEN result[x] ELSE f[next[x]]
  <2>1. x \notin ends => next[x] \in S
    BY DEF Ends
  <2> QED BY <1>2, <2>1
<1> QED BY <1>3 DEF HasResults

-----------------------------------------------------------------------------
(* Symbols that are not others. *)
LEMMA Quotes ==
  Quote \notin Controls \cup Invalid \cup {"\\", "end", "u", "/", "b", "n"}
BY Zenon DEF Quote, Controls, Invalid, Leads

LEMMA Whites ==
  "/" \notin White /\ "end" \notin White /\ "LF" \in White
BY Zenon DEF White

-----------------------------------------------------------------------------
(* The places that LineEnd() and BlockEnd() find. *)
LEMMA MinIsLeast ==
  ASSUME NEW S, S \subseteq Nat, S # {}
  PROVE  Min(S) \in S /\ \A x \in S : Min(S) <= x
<1>1. \E x \in S : \A y \in S : x <= y
  BY Smallest
<1> QED BY <1>1 DEF Min

LEMMA LineEnds ==
  ASSUME NEW data \in Seq(Symbols), NEW i \in Nat, i <= Len(data)
  PROVE  /\ LineEnd(data, i) \in i..(Len(data) + 1)
         /\ \A k \in i..(LineEnd(data, i) - 1) : data[k] # "LF"
         /\ LineEnd(data, i) <= Len(data) => data[LineEnd(data, i)] = "LF"
<1> DEFINE S == {j \in i..Len(data) : data[j] = "LF"} \cup {Len(data) + 1}
           m == LineEnd(data, i)
<1>1. S \subseteq Nat /\ S # {} /\ m = Min(S)
  BY DEF LineEnd
<1> HIDE DEF m
<1>2. m \in S /\ \A x \in S : m <= x
  <2> HIDE DEF S
  <2> QED BY <1>1, MinIsLeast
<1>3. \A k \in i..(m - 1) : data[k] # "LF"
  BY <1>2
<1> QED BY <1>2, <1>3 DEF m

LEMMA BlockEnds ==
  ASSUME NEW data \in Seq(Symbols), NEW i \in Nat, i <= Len(data) + 1
  PROVE  LET m == BlockEnd(data, i) IN
         /\ m \in i..(Len(data) + 1)
         /\ \A k \in i..(m - 1) : ~ (data[k] = "*" /\ data[k + 1] = "/")
         /\ m < Len(data) => data[m] = "*" /\ data[m + 1] = "/"
<1> DEFINE last == IF i > Len(data) THEN i ELSE Len(data)
           S == {j \in i..(Len(data) - 1) : data[j] = "*" /\ data[j + 1] = "/"} \cup {last}
           m == BlockEnd(data, i)
<1>1. S \subseteq Nat /\ S # {} /\ m = Min(S)
  BY DEF BlockEnd
<1> HIDE DEF m
<1>2. m \in S /\ \A x \in S : m <= x
  <2> HIDE DEF S
  <2> QED BY <1>1, MinIsLeast
<1>3. \A k \in i..(m - 1) : ~ (data[k] = "*" /\ data[k + 1] = "/")
  BY <1>2
<1> QED BY <1>2, <1>3 DEF m

-----------------------------------------------------------------------------
(* What skipSpace() does in one round at i, with its results from there on, *)
(* f. *)
SkipRound(data, i, f) ==
  LET c == Symbol(data, i)
      comment == IF AllowComments /\ c = "/" THEN Symbol(data, i + 1) ELSE "none"
      close   == BlockEnd(data, i + 2)
  IN CASE c \in White -> f[i + 1]
       [] comment = "/" -> f[LineEnd(data, i)]
       [] comment = "*" -> IF close < Len(data) THEN f[close + 2]
                           ELSE [error |-> TRUE, at |-> i, end |-> close]
       [] OTHER -> [error |-> FALSE, at |-> i]

LEMMA SkipSpaceIsALoop ==
  ASSUME NEW data \in Seq(Symbols)
  PROVE  \E f : /\ \A i \in Nat : SkipSpace(data, i) = f[i]
                /\ \A i \in Nat : f[i] = SkipRound(data, i, f)
<1> DEFINE Blank1(i) == Symbol(data, i) \in White
           Cm(i)    == IF AllowComments /\ Symbol(data, i) = "/" THEN Symbol(data, i + 1) ELSE "none"
           B(i)     == BlockEnd(data, i + 2)
           ends     == {i \in Nat : ~ Blank1(i) /\ Cm(i) # "/" /\ ~ (Cm(i) = "*" /\ B(i) < Len(data))}
           result   == [i \in Nat |-> IF Cm(i) = "*" THEN [error |-> TRUE, at |-> i, end |-> B(i)]
                                      ELSE [error |-> FALSE, at |-> i]]
           next     == [i \in Nat |-> IF Blank1(i) THEN i + 1
                                      ELSE IF Cm(i) = "/" THEN LineEnd(data, i) ELSE B(i) + 2]
           size     == [i \in Nat |-> IF i <= Len(data) THEN Len(data) + 1 - i ELSE 0]
           Body(f)  == [i \in Nat |-> SkipRound(data, i, f)]
           skip     == CHOOSE f : f = Body(f)
<1>1. \A i \in Nat : SkipSpace(data, i) = skip[i]
  BY DEF SkipSpace, SkipRound
<1>2. ASSUME NEW i \in Nat, i \notin ends PROVE next[i] \in Nat /\ size[next[i]] < size[i]
  <2>1. i <= Len(data)
    BY <1>2, Whites DEF Symbol
  <2>2. CASE Blank1(i)
    <3>1. next[i] = i + 1
      BY <2>2
    <3> HIDE DEF next
    <3> QED BY <2>1, <3>1
  <2>3. CASE ~ Blank1(i) /\ Cm(i) = "/"
    <3>1. next[i] = LineEnd(data, i)
      BY <2>3
    <3>2. LineEnd(data, i) # i
      BY <2>3, <2>1, LineEnds DEF Symbol
    <3>3. LineEnd(data, i) \in i..(Len(data) + 1)
      BY <2>1, LineEnds
    <3> HIDE DEF next
    <3> QED BY <2>1, <3>1, <3>2, <3>3
  <2>4. CASE ~ Blank1(i) /\ Cm(i) # "/"
    <3>1. next[i] = B(i) + 2 /\ Cm(i) = "*"
      BY <2>4, <1>2
    <3>2. i + 1 <= Len(data)
      BY <3>1 DEF Symbol
    <3>3. B(i) \in (i + 2)..(Len(data) + 1)
      BY <3>2, BlockEnds
    <3> HIDE DEF B, next
    <3> QED BY <2>1, <3>1, <3>3
  <2> QED BY <2>2, <2>3, <2>4
<1>3. \A i \in Nat : size[i] \in Nat
  OBVIOUS
<1>4. PICK f : \A i \in Nat : f[i] = IF i \in ends THEN result[i] ELSE f[next[i]]
  <2> HIDE DEF ends, next, result, size
  <2> DEFINE S == Nat
  <2>1. Ends(S, ends, next, size)
    BY <1>2, <1>3 DEF Ends
  <2>2. HasResults(S, ends, next, result)
    <3> HIDE DEF S
    <3> QED BY <2>1, LoopsEnd
  <2> QED BY <2>2 DEF HasResults
<1>5. ASSUME NEW g, NEW i \in Nat
      PROVE  SkipRound(data, i, g) = IF i \in ends THEN result[i] ELSE g[next[i]]
  <2>1. CASE Blank1(i)
    BY <2>1, Whites DEF SkipRound
  <2>2. CASE ~ Blank1(i) /\ Cm(i) = "/"
    BY <2>2 DEF SkipRound
  <2>3. CASE ~ Blank1(i) /\ Cm(i) = "*"
    BY <2>3 DEF SkipRound
  <2>4. CASE ~ Blank1(i) /\ Cm(i) \notin {"/", "*"}
    BY <2>4 DEF SkipRound
  <2> QED BY <2>1, <2>2, <2>3, <2>4
<1> DEFINE h == [i \in Nat |-> f[i]]
<1>6. h = Body(h)
  <2>1. \A i \in Nat : h[i] = SkipRound(data, i, h)
    <3>1. \A i \in Nat : h[i] = f[i] /\ (i \notin ends => next[i] \in Nat)
      BY <1>2
    <3> HIDE DEF ends, next, result, h
    <3> QED BY <1>4, <1>5, <3>1
  <2> QED BY <2>1
<1>7. skip = Body(skip)
  <2> HIDE DEF Body
  <2> QED BY <1>6
<1>8. \A i \in Nat : skip[i] = SkipRound(data, i, skip)
  <2> HIDE DEF skip
  <2> QED BY <1>7
<1> QED BY <1>1, <1>8

-----------------------------------------------------------------------------
(* The items of a string. *)
LEMMA Pairs ==
  ASSUME NEW a, NEW c
  PROVE  /\ <<a, c>> \in Letters <=> \/ a = Quote /\ c = Quote
                                     \/ a = "\\" /\ c = "\\"
                                     \/ a = "/" /\ c = "/"
                                     \/ a = "b" /\ c = "BS"
                                     \/ a = "n" /\ c = "LF"
         /\ <<a, c>> \in Hex <=> \/ a = "0041" /\ c = "A"
                                 \/ a = "001F" /\ c = "CTL"
                                 \/ a = "000B" /\ c = "VT"
                                 \/ a = "003C" /\ c = "<"
                                 \/ a = "FFFD" /\ c = "REPL"
                                 \/ a = "2028" /\ c = "LS"
BY DEF Letters, Hex

LEMMA HexDigits ==
  /\ DOMAIN Stands = {"0041", "001F", "000B", "003C", "FFFD", "2028"}
  /\ \A q \in DOMAIN Stands : <<q, Stands[q]>> \in Hex /\ Stands[q] \in Symbols
<1>1. DOMAIN Stands = {"0041", "001F", "000B", "003C", "FFFD", "2028"}
  BY DEF Stands
<1>2. /\ Stands["0041"] = "A" /\ Stands["001F"] = "CTL" /\ Stands["000B"] = "VT"
      /\ Stands["003C"] = "<" /\ Stands["FFFD"] = "REPL" /\ Stands["2028"] = "LS"
  BY DEF Stands
<1>3. ASSUME NEW q \in DOMAIN Stands PROVE Stands[q] \in Symbols
  <2>1. Stands[q] \in {"A", "CTL", "VT", "<", "REPL", "LS"}
    BY <1>1, <1>2
  <2> QED BY <2>1 DEF Symbols, Controls, Runes
<1>4. ASSUME NEW q \in DOMAIN Stands PROVE <<q, Stands[q]>> \in Hex
  <2> DEFINE c == Stands[q]
  <2>1. \/ q = "0041" /\ c = "A"
        \/ q = "001F" /\ c = "CTL"
        \/ q = "000B" /\ c = "VT"
        \/ q = "003C" /\ c = "<"
        \/ q = "FFFD" /\ c = "REPL"
        \/ q = "2028" /\ c = "LS"
    BY <1>1, <1>2
  <2> HIDE DEF c
  <2> QED BY <2>1, Pairs DEF c
<1> QED BY <1>1, <1>3, <1>4

LEMMA SimpleEscapes ==
  /\ DOMAIN Simple = {Quote, "\\", "/", "b", "n"}
  /\ \A c \in DOMAIN Simple : <<c, Simple[c]>> \in Letters /\ Simple[c] \in Symbols
<1>1. /\ Simple[Quote] = Quote /\ Simple["\\"] = "\\" /\ Simple["/"] = "/" /\ Simple["b"] = "BS"
      /\ Simple["n"] = "LF" /\ DOMAIN Simple = {Quote, "\\", "/", "b", "n"}
  BY Quotes DEF Simple
<1>2. ASSUME NEW c \in DOMAIN Simple PROVE Simple[c] \in Symbols
  <2>1. Simple[c] \in {Quote, "\\", "/", "BS", "LF"}
    BY <1>1
  <2> QED BY <2>1 DEF Symbols, Controls
<1>3. ASSUME NEW a \in DOMAIN Simple PROVE <<a, Simple[a]>> \in Letters
  <2> DEFINE c == Simple[a]
  <2>1. \/ a = Quote /\ c = Quote
        \/ a = "\\" /\ c = "\\"
        \/ a = "/" /\ c = "/"
        \/ a = "b" /\ c = "BS"
        \/ a = "n" /\ c = "LF"
    BY <1>1, <1>3
  <2> HIDE DEF c
  <2> QED BY <2>1, Pairs DEF c
<1> QED BY <1>1, <1>2, <1>3

(* The four forms of an item. *)
IsEscape(data, i)  == data[i] = "\\" /\ data[i + 1] \in DOMAIN Simple
IsUnicode(data, i) == data[i] = "\\" /\ data[i + 1] = "u" /\ data[i + 2] \in DOMAIN Stands
IsRocket(data, i)  == /\ data[i] = "\\" /\ data[i + 1] = "u" /\ data[i + 2] = "D83D"
                /\ data[i + 3] = "\\" /\ data[i + 4] = "u" /\ data[i + 5] = "DE80"

NoItem(data, i) == \A j \in 1..Len(data) : \A c : ~ IsItem(data, i, j, c)

LEMMA ItemForms ==
  ASSUME NEW data, NEW i \in Nat, NEW j \in Nat, NEW c, IsItem(data, i, j, c)
  PROVE  \/ j = i /\ c = data[i] /\ Plain(c)
         \/ j = i + 1 /\ IsEscape(data, i)
         \/ j = i + 2 /\ IsUnicode(data, i)
         \/ j = i + 5 /\ IsRocket(data, i)
<1>1. <<data[j], c>> \in Letters => data[j] \in DOMAIN Simple
  BY Pairs, SimpleEscapes
<1>2. <<data[j], c>> \in Hex => data[j] \in DOMAIN Stands
  BY Pairs, HexDigits
<1> QED BY <1>1, <1>2 DEF IsItem, IsEscape, IsUnicode, IsRocket

(* An item ends where it does. *)
LEMMA ItemEnds ==
  ASSUME NEW data, NEW i \in Nat, NEW j \in Nat, NEW k \in Nat, NEW c, NEW d, IsItem(data, i, j, c), IsItem(data, i, k, d)
  PROVE  j = k
<1>1. /\ ~ ("\\" \notin Controls \cup Invalid \cup {Quote, "\\"})
      /\ "u" \notin DOMAIN Simple /\ "D83D" \notin DOMAIN Stands
  BY SimpleEscapes, HexDigits, Quotes
<1>2. /\ IsEscape(data, i) => ~ IsUnicode(data, i) /\ ~ IsRocket(data, i) /\ ~ Plain(data[i])
      /\ IsUnicode(data, i) => ~ IsEscape(data, i) /\ ~ IsRocket(data, i) /\ ~ Plain(data[i])
      /\ IsRocket(data, i) => ~ IsEscape(data, i) /\ ~ IsUnicode(data, i) /\ ~ Plain(data[i])
  BY <1>1 DEF IsEscape, IsUnicode, IsRocket, Plain
<1>3. /\ \/ j = i /\ Plain(data[i])
         \/ j = i + 1 /\ IsEscape(data, i)
         \/ j = i + 2 /\ IsUnicode(data, i)
         \/ j = i + 5 /\ IsRocket(data, i)
      /\ \/ k = i /\ Plain(data[i])
         \/ k = i + 1 /\ IsEscape(data, i)
         \/ k = i + 2 /\ IsUnicode(data, i)
         \/ k = i + 5 /\ IsRocket(data, i)
  BY ItemForms
<1> QED BY <1>2, <1>3

LEMMA Advances ==
  ASSUME NEW data, NEW s
  PROVE  /\ Advance(data, s).i = s.i + 1
         /\ \A j : AdvanceTo(data, s, j).i = j
         /\ \A j : AdvanceInText(data, s, j).i = j
BY DEF Advance, AdvanceTo, AdvanceInText

(* scanUnicode() after the two symbols at i: the item, or an error if there *)
(* is none. *)
LEMMA UnicodeItem ==
  ASSUME NEW data \in Seq(Symbols), NEW i \in Nat \ {0}, i + 1 <= Len(data),
         data[i] = "\\", data[i + 1] = "u", NEW s, s.i = i + 2
  PROVE  LET r == ScanUnicode(data, s) IN
         \/ r.kind = "error" /\ r.code = "EInvalidEscape" /\ NoItem(data, i)
         \/ /\ r.kind = "rune" /\ r.rune \in Symbols /\ r.end.i \in (i + 1)..(Len(data) + 1)
            /\ IsItem(data, i, r.end.i - 1, r.rune)
<1> DEFINE r == ScanUnicode(data, s)
<1> USE DEF Error, Rune, BadEscape, NoItem
<1> HIDE DEF r
<1>0. ASSUME NEW j \in 1..Len(data), NEW d, IsItem(data, i, j, d)
      PROVE  /\ i + 2 <= Len(data)
             /\ \/ IsUnicode(data, i)
                \/ i + 5 <= Len(data) /\ IsRocket(data, i)
  <2>1. ~ Plain(data[i]) /\ ~ IsEscape(data, i)
    BY SimpleEscapes, Quotes DEF IsEscape, Plain
  <2>2. \/ j = i + 2 /\ IsUnicode(data, i)
        \/ j = i + 5 /\ IsRocket(data, i)
    BY <1>0, <2>1, ItemForms
  <2> QED BY <2>2
<1>1. CASE Short(data, s)
  <2>1. r.kind = "error" /\ r.code = "EInvalidEscape"
    BY <1>1 DEF ScanUnicode, BadEscape, r
  <2>2. i + 2 <= Len(data) => data[i + 2] \notin Quads
    BY <1>1 DEF Short, Here, Symbol
  <2>3. NoItem(data, i)
    BY <1>0, <2>2 DEF IsUnicode, IsRocket, Quads, NoItem
  <2> QED BY <2>1, <2>3 DEF r
<1> DEFINE c == data[i + 2]
<1>2. ASSUME ~ Short(data, s) PROVE i + 2 <= Len(data) /\ c \in Quads /\ Here(data, s) = c
  <2>1. "end" \notin Quads
    BY HexDigits DEF Quads
  <2> QED BY <1>2, <2>1 DEF Short, Here, Symbol
<1>3. CASE ~ Short(data, s) /\ c \in DOMAIN Stands
  <2>1. r = Rune(Stands[c], Advance(data, s))
    BY <1>2, <1>3 DEF ScanUnicode, r
  <2>2. r.kind = "rune" /\ r.rune = Stands[c] /\ r.end.i = i + 3
    BY <2>1, Advances
  <2>3. IsItem(data, i, i + 2, Stands[c])
    BY <1>3, HexDigits DEF IsItem
  <2>4. Stands[c] \in Symbols
    BY <1>3, HexDigits
  <2> QED BY <1>2, <1>3, <2>2, <2>3, <2>4 DEF r
<1>4. CASE ~ Short(data, s) /\ c \notin DOMAIN Stands
  <2> DEFINE t == Advance(data, s)
             u == AdvanceTo(data, t, t.i + 2)
  <2>1. t.i = i + 3 /\ u.i = i + 5 /\ Advance(data, u).i = i + 6
    <3>1. t.i = i + 3
      BY Advances
    <3> HIDE DEF t
    <3>2. u.i = i + 5
      <4>1. u.i = t.i + 2
        BY DEF AdvanceTo
      <4> QED BY <3>1, <4>1
    <3> HIDE DEF u
    <3> QED BY <3>1, <3>2, Advances
  <2>2. \A j \in 1..Len(data) : \A d : IsItem(data, i, j, d) => i + 5 <= Len(data) /\ IsRocket(data, i)
    BY <1>0, <1>4 DEF IsUnicode
  <2> HIDE DEF t, u
  <2>3. r = Surrogate(data, c, t)
    BY <1>2, <1>4 DEF ScanUnicode, t, r
  <2>4. CASE ~ (Here(data, t) = "\\" /\ After(data, t) = "u")
    <3>1. r.kind = "error" /\ r.code = "EInvalidEscape"
      BY <2>3, <2>4 DEF Surrogate, BadEscape
    <3>2. ~ (i + 5 <= Len(data) /\ IsRocket(data, i))
      BY <2>1, <2>4 DEF Here, After, Symbol, IsRocket
    <3> QED BY <2>2, <3>1, <3>2 DEF r
  <2>5. CASE Here(data, t) = "\\" /\ After(data, t) = "u"
    <3>1. r = Pair(data, c, u) /\ data[i + 3] = "\\" /\ data[i + 4] = "u" /\ i + 4 <= Len(data)
      BY <2>1, <2>3, <2>5 DEF Surrogate, Here, After, Symbol, u
    <3>2. CASE ~ Short(data, u) /\ c = "D83D" /\ Here(data, u) = "DE80"
      <4>1. r = Rune("rocket", Advance(data, u))
        BY <3>1, <3>2 DEF Pair
      <4>2. r.kind = "rune" /\ r.rune = "rocket" /\ r.end.i = i + 6
        BY <4>1, <2>1, Advances
      <4>3. i + 5 <= Len(data) /\ data[i + 5] = "DE80"
        BY <3>2, <2>1 DEF Here, Symbol
      <4>4. IsItem(data, i, i + 5, "rocket")
        BY <3>1, <3>2, <4>3 DEF IsItem
      <4>5. r.end.i - 1 = i + 5
        BY <4>2
      <4>6. "rocket" \in Symbols
        BY DEF Symbols
      <4> QED BY <4>2, <4>3, <4>4, <4>5, <4>6 DEF r
    <3>3. CASE ~ (~ Short(data, u) /\ c = "D83D" /\ Here(data, u) = "DE80")
      <4>1. ASSUME Short(data, u) PROVE r.kind = "error" /\ r.code = "EInvalidEscape"
        BY <3>1, <4>1 DEF Pair
      <4>2. ASSUME ~ Short(data, u) PROVE r.kind = "error" /\ r.code = "EInvalidEscape"
        <5> DEFINE d == Here(data, u)
        <5>1. ~ (c = "D83D" /\ d = "DE80")
          BY <3>3, <4>2
        <5>2. <<c, d>> # <<"D83D", "DE80">>
          <6> HIDE DEF c, d
          <6> QED BY <5>1
        <5> QED BY <3>1, <4>2, <5>2 DEF Pair
      <4>3. r.kind = "error" /\ r.code = "EInvalidEscape"
        BY <4>1, <4>2
      <4>4. ~ (i + 5 <= Len(data) /\ IsRocket(data, i))
        BY <2>1, <3>3 DEF Short, Quads, Here, Symbol, IsRocket
      <4> QED BY <2>2, <4>3, <4>4 DEF r
    <3> QED BY <3>2, <3>3
  <2> QED BY <2>4, <2>5
<1> QED BY <1>1, <1>3, <1>4

-----------------------------------------------------------------------------
(* The loop of scanString().  An escape at i is an item that goes to what   *)
(* the string is so far, or an error if there is none. *)
TakesEscape(data, i, decoded, r) ==
  \/ r.kind = "error" /\ r.code # "EInvalidNumber" /\ NoItem(data, i)
  \/ /\ r.kind = "more" /\ r.at \in StringStates /\ r.at.hasEscape
     /\ r.at.i \in (i + 1)..(Len(data) + 1)
     /\ \E c \in Symbols : IsItem(data, i, r.at.i - 1, c) /\ r.at.decoded = Append(decoded, c)

LEMMA EscapeItem ==
  ASSUME NEW data \in Seq(Symbols), NEW i \in Nat \ {0}, i <= Len(data), data[i] = "\\",
         NEW open, NEW e, e.i = i + 1, NEW decoded \in Seq(Symbols)
  PROVE  TakesEscape(data, i, decoded, Escape(data, open, e, decoded))
<1> DEFINE r == Escape(data, open, e, decoded)
           c == data[i + 1]
<1> SUFFICES TakesEscape(data, i, decoded, r)
  OBVIOUS
<1> HIDE DEF r
<1>0. ASSUME NEW j \in 1..Len(data), NEW d, IsItem(data, i, j, d)
      PROVE  i + 1 <= Len(data) /\ c \in DOMAIN Simple \cup {"u"}
  <2>1. ~ Plain(data[i])
    BY DEF Plain
  <2> QED BY <1>0, <2>1, ItemForms DEF IsEscape, IsUnicode, IsRocket
<1>1. ASSUME NEW d \in Symbols, NEW k \in (i + 1)..(Len(data) + 1), r = More(k, Append(decoded, d), TRUE)
      PROVE  /\ r.kind = "more" /\ r.at \in StringStates /\ r.at.hasEscape
             /\ r.at.i = k /\ r.at.decoded = Append(decoded, d)
  <2>1. Append(decoded, d) \in Seq(Symbols)
    BY AppendProperties
  <2>2. k \in Nat \ {0}
    OBVIOUS
  <2> QED BY <1>1, <2>1, <2>2 DEF More, StringStates
<1>2. CASE ~ At(data, e)
  <2>1. r.kind = "error" /\ r.code # "EInvalidNumber"
    BY <1>2 DEF r, Escape, Error
  <2>2. NoItem(data, i)
    BY <1>0, <1>2 DEF At, NoItem
  <2> QED BY <2>1, <2>2 DEF TakesEscape
<1>3. CASE At(data, e) /\ c \in DOMAIN Simple
  <2>1. r = More(i + 2, Append(decoded, Simple[c]), TRUE) /\ i + 1 <= Len(data)
    <3>1. r = More(e.i + 1, Append(decoded, Simple[c]), TRUE)
      BY <1>3 DEF r, Escape
    <3> QED BY <1>3, <3>1 DEF At
  <2>2. IsItem(data, i, i + 1, Simple[c]) /\ Simple[c] \in Symbols
    BY <1>3, SimpleEscapes DEF IsItem
  <2>3. i + 2 \in (i + 1)..(Len(data) + 1)
    BY <2>1
  <2>4. r.kind = "more" /\ r.at \in StringStates /\ r.at.hasEscape
        /\ r.at.i = i + 2 /\ r.at.decoded = Append(decoded, Simple[c])
    BY <1>1, <2>1, <2>2, <2>3
  <2> QED BY <2>2, <2>3, <2>4 DEF TakesEscape
<1>4. CASE At(data, e) /\ c \notin DOMAIN Simple /\ c = "u"
  <2> DEFINE s == Advance(data, e)
             v == ScanUnicode(data, s)
  <2>1. r = Unicode(v, decoded) /\ i + 1 <= Len(data)
    BY <1>4 DEF r, Escape, At
  <2>2. s.i = i + 2
    BY Advances
  <2> HIDE DEF s
  <2>3. \/ v.kind = "error" /\ v.code = "EInvalidEscape" /\ NoItem(data, i)
        \/ /\ v.kind = "rune" /\ v.rune \in Symbols /\ v.end.i \in (i + 1)..(Len(data) + 1)
           /\ IsItem(data, i, v.end.i - 1, v.rune)
    BY <1>4, <2>1, <2>2, UnicodeItem
  <2> HIDE DEF v
  <2>4. CASE v.kind = "error"
    BY <2>1, <2>3, <2>4 DEF Unicode, TakesEscape
  <2>5. CASE v.kind # "error"
    <3>1. r = More(v.end.i, Append(decoded, v.rune), TRUE)
      BY <2>1, <2>5 DEF Unicode
    <3> QED BY <1>1, <2>3, <2>5, <3>1 DEF TakesEscape
  <2> QED BY <2>4, <2>5
<1>5. CASE At(data, e) /\ c \notin DOMAIN Simple /\ c # "u"
  <2>1. r.kind = "error" /\ r.code # "EInvalidNumber"
    BY <1>5 DEF r, Escape, Error
  <2>2. NoItem(data, i)
    BY <1>0, <1>5 DEF NoItem
  <2> QED BY <2>1, <2>2 DEF TakesEscape
<1> QED BY <1>2, <1>3, <1>4, <1>5

(* What the string that begins at o is so far, when the loop is at x. *)
Content(data, o, x) == IF x.hasEscape THEN x.decoded ELSE SubSeq(data, o + 1, x.i - 1)

(* The three outcomes of a round. *)
Goes(data, o, x, r) ==
  /\ r.kind = "more" /\ r.at \in StringStates /\ r.at.i \in (x.i + 1)..(Len(data) + 1)
  /\ \E c \in Symbols :
       /\ IsItem(data, x.i, r.at.i - 1, c)
       /\ o < x.i => Content(data, o, r.at) = Append(Content(data, o, x), c)
Closes(data, o, x, r) ==
  /\ r.kind = "string" /\ x.i <= Len(data) /\ data[x.i] = Quote
  /\ r.from = o /\ r.to = x.i /\ r.data = Content(data, o, x) /\ r.end.i = x.i + 1
Refuses(data, x, r) ==
  /\ r.kind = "error" /\ r.code # "EInvalidNumber" /\ NoItem(data, x.i)
  /\ x.i <= Len(data) => data[x.i] # Quote

LEMMA RoundOfString ==
  ASSUME NEW data \in Seq(Symbols), NEW open, open.i \in Nat \ {0}, NEW x \in StringStates
  PROVE  LET r == StringRound(data, open, x) IN
         Goes(data, open.i, x, r) \/ Closes(data, open.i, x, r) \/ Refuses(data, x, r)
<1> DEFINE o == open.i
           i == x.i
           s == AdvanceInText(data, open, i)
           c == Here(data, s)
           content == Content(data, o, x)
           r == StringRound(data, open, x)
<1>1. /\ i \in Nat /\ i >= 1 /\ o \in Nat /\ o >= 1 /\ Len(data) \in Nat
      /\ x.decoded \in Seq(Symbols) /\ s.i = i
  <2>1. s.i = i
    BY DEF AdvanceInText
  <2>2. Len(data) \in Nat
    BY LenProperties
  <2> HIDE DEF s
  <2> QED BY <2>1, <2>2 DEF StringStates
<1>2. c = IF i <= Len(data) THEN data[i] ELSE "end"
  BY <1>1 DEF Here, Symbol
<1>3. i <= Len(data) => content \in Seq(Symbols)
  <2>1. i <= Len(data) => SubSeq(data, o + 1, i - 1) \in Seq(Symbols)
    BY <1>1, ElementOfSeq, SubSeqProperties
  <2> QED BY <1>1, <2>1 DEF Content
<1>4. r = CASE c = "end"      -> Error("EUnclosedString", open.pos, s)
            [] c = Quote       -> Token("string", content, open, Advance(data, s))
            [] c \in Controls -> Error("EIllegalChar", s.pos, s)
            [] c = "\\"       -> Escape(data, open, Advance(data, s), content)
            [] c \in Invalid  -> Error("EInvalidUTF8", s.pos, s)
            [] OTHER -> More(i + 1, IF x.hasEscape THEN Append(x.decoded, c) ELSE x.decoded, x.hasEscape)
  BY DEF StringRound, Content
<1> HIDE DEF s, c, r, content, i, o
<1>5. "end" \notin Symbols
  BY HexDigits, Quotes, Whites DEF Symbols, Punctuation, Literals, Digits, Controls, Runes, Quads, Invalid, Leads
<1>6. i <= Len(data) => c \in Symbols /\ c # "end"
  BY <1>1, <1>2, <1>5, ElementOfSeq
<1>7. CASE i > Len(data) \/ c \in Controls \cup Invalid
  <2>1. /\ "end" \notin Controls /\ Quote \notin Controls \cup Invalid
        /\ "\\" \notin Controls \cup Invalid /\ (\A d \in Invalid : d \notin Controls \cup {"end"})
    BY Quotes DEF Controls, Invalid, Leads
  <2>2. r.kind = "error" /\ r.code # "EInvalidNumber"
    <3>1. \/ c = "end"
          \/ c \in Controls
          \/ c \in Invalid
      BY <1>1, <1>2, <1>7
    <3>2. r \in {Error("EUnclosedString", open.pos, s), Error("EIllegalChar", s.pos, s),
                 Error("EInvalidUTF8", s.pos, s)}
      <4>1. CASE c = "end"
        BY <1>4, <4>1, <2>1, Quotes
      <4>2. CASE c \in Controls
        BY <1>4, <2>1, <4>2
      <4>3. CASE c \in Invalid
        BY <1>4, <2>1, <4>3
      <4> QED BY <3>1, <4>1, <4>2, <4>3
    <3> QED BY <3>2 DEF Error
  <2>3. NoItem(data, i)
    <3> SUFFICES ASSUME NEW j \in 1..Len(data), NEW d, IsItem(data, i, j, d) PROVE FALSE
      BY DEF NoItem
    <3>1. i <= j
      BY <1>1, ItemForms
    <3>2. i <= Len(data) /\ c = data[i]
      BY <1>1, <1>2, <3>1
    <3>3. c \in Controls \cup Invalid
      BY <1>1, <1>7, <3>2
    <3>4. ~ Plain(c) /\ c # "\\"
      BY <2>1, <3>3 DEF Plain
    <3> QED BY <1>1, <3>2, <3>4, ItemForms DEF IsEscape, IsUnicode, IsRocket
  <2>4. i <= Len(data) => data[i] # Quote
    BY <1>1, <1>2, <1>7, <2>1
  <2> QED BY <2>2, <2>3, <2>4 DEF Refuses, r, i
<1>8. CASE i <= Len(data) /\ c = Quote
  <2>1. r = Token("string", content, open, Advance(data, s))
    BY <1>4, <1>8, Quotes
  <2>2. Advance(data, s).i = i + 1
    BY <1>1, Advances
  <2>3. r.kind = "string" /\ r.from = o /\ r.to = i /\ r.data = content /\ r.end.i = i + 1
    <3> DEFINE e == Advance(data, s)
    <3>1. e.i - 1 = i /\ open.i = o
      BY <1>1, <2>2 DEF o
    <3> HIDE DEF e
    <3>2. r.kind = "string" /\ r.from = open.i /\ r.to = e.i - 1 /\ r.data = content /\ r.end = e
      BY <2>1 DEF Token, e
    <3> QED BY <2>2, <3>1, <3>2 DEF e
  <2> QED BY <1>2, <1>8, <2>3 DEF Closes, r, content, i, o
<1>9. CASE i <= Len(data) /\ c = "\\"
  <2>1. r = Escape(data, open, Advance(data, s), content)
    BY <1>4, <1>6, <1>9 DEF Controls, Invalid, Leads
  <2>2. Advance(data, s).i = i + 1 /\ data[i] = "\\"
    BY <1>1, <1>2, <1>9, Advances
  <2>3. \/ r.kind = "error" /\ r.code # "EInvalidNumber" /\ NoItem(data, i)
        \/ /\ r.kind = "more" /\ r.at \in StringStates /\ r.at.hasEscape
           /\ r.at.i \in (i + 1)..(Len(data) + 1)
           /\ \E d \in Symbols : IsItem(data, i, r.at.i - 1, d) /\ r.at.decoded = Append(content, d)
    <3>1. i \in Nat \ {0}
      BY <1>1
    <3> DEFINE e == Advance(data, s)
    <3>2. e.i = i + 1
      BY <2>2
    <3> HIDE DEF e
    <3>3. r = Escape(data, open, e, content)
      BY <2>1 DEF e
    <3> DEFINE w == Escape(data, open, e, content)
    <3>4. TakesEscape(data, i, content, w)
      <4>1. i <= Len(data) /\ data[i] = "\\" /\ content \in Seq(Symbols)
        BY <1>3, <1>9, <2>2
      <4> QED BY <3>1, <3>2, <4>1, EscapeItem
    <3> HIDE DEF w
    <3> QED BY <3>3, <3>4 DEF w, TakesEscape
  <2>4. CASE r.kind = "error"
    BY <2>2, <2>3, <2>4, Quotes DEF Refuses, r, i
  <2>5. CASE r.kind # "error"
    <3>1. Content(data, o, r.at) = r.at.decoded
      BY <2>3, <2>5 DEF Content, o
    <3> QED BY <2>3, <2>5, <3>1 DEF Goes, r, content, i, o
  <2> QED BY <2>4, <2>5
<1>10. CASE i <= Len(data) /\ c \notin Controls \cup Invalid \cup {Quote, "\\"}
  <2> DEFINE decoded == IF x.hasEscape THEN Append(x.decoded, c) ELSE x.decoded
  <2>1. r = More(i + 1, decoded, x.hasEscape)
    BY <1>4, <1>6, <1>10
  <2>2. decoded \in Seq(Symbols)
    BY <1>1, <1>6, <1>10, AppendProperties
  <2> HIDE DEF decoded
  <2>3. r.kind = "more" /\ r.at.i = i + 1 /\ r.at.decoded = decoded /\ r.at.hasEscape = x.hasEscape
    BY <2>1 DEF More
  <2>4. r.at \in StringStates
    <3>1. i + 1 \in Nat \ {0}
      BY ONLY <1>1
    <3> QED BY <1>1, <2>1, <2>2, <3>1 DEF More, StringStates
  <2>5. IsItem(data, i, i, c)
    BY <1>2, <1>10 DEF IsItem, Plain
  <2>6. ASSUME o < i PROVE Content(data, o, r.at) = Append(content, c)
    <3>1. CASE x.hasEscape
      BY <2>3, <3>1 DEF Content, content, i, o, decoded
    <3>2. CASE ~ x.hasEscape
      <4>1. SubSeq(data, o + 1, i) = Append(SubSeq(data, o + 1, i - 1), data[i])
        <5>1. o + 1 \in 1..Len(data) /\ i \in (o + 1)..Len(data)
          BY <1>1, <1>10, <2>6
        <5>2. SubSeq(data, o + 1, i) = SubSeq(data, o + 1, i - 1) \o <<data[i]>>
          BY <5>1, SubSeqRecursiveSecond
        <5>3. SubSeq(data, o + 1, i - 1) \in Seq(Symbols) /\ data[i] \in Symbols
          BY <1>2, <1>3, <1>6, <1>10, <3>2 DEF Content, content, i, o
        <5> QED BY <5>2, <5>3, AppendIsConcat
      <4>2. r.at.i - 1 = i
        BY <1>1, <2>3
      <4> QED BY <1>2, <1>10, <2>3, <3>2, <4>1, <4>2 DEF Content, content, i, o
    <3> QED BY <3>1, <3>2
  <2>7. r.at.i - 1 = i /\ r.at.i \in (i + 1)..(Len(data) + 1)
    BY <1>1, <1>10, <2>3
  <2> QED BY <1>6, <1>10, <2>3, <2>4, <2>5, <2>6, <2>7 DEF Goes, r, content, i, o
<1> QED BY <1>1, <1>7, <1>8, <1>9, <1>10 DEF r, o

Entry(o) == [i |-> o + 1, decoded |-> <<>>, hasEscape |-> FALSE]

LEMMA ScanStringIsALoop ==
  ASSUME NEW data \in Seq(Symbols), NEW open, open.i \in Nat \ {0}
  PROVE  \E f : /\ ScanString(data, open) = f[Entry(open.i)]
                /\ \A x \in StringStates :
                     f[x] = LET r == StringRound(data, open, x) IN IF r.kind = "more" THEN f[r.at] ELSE r
<1> DEFINE R(x)    == StringRound(data, open, x)
           ends    == {x \in StringStates : R(x).kind # "more"}
           result  == [x \in StringStates |-> R(x)]
           next    == [x \in StringStates |-> R(x).at]
           size    == [x \in StringStates |-> IF x.i <= Len(data) THEN Len(data) + 1 - x.i ELSE 0]
           Body(f) == [x \in StringStates |-> IF R(x).kind = "more" THEN f[R(x).at] ELSE R(x)]
           loop    == CHOOSE f : f = Body(f)
<1>1. ScanString(data, open) = loop[Entry(open.i)]
  BY DEF ScanString, Entry
<1> HIDE DEF R
<1>2. ASSUME NEW x \in StringStates
      PROVE  /\ size[x] \in Nat
             /\ x \notin ends => next[x] \in StringStates /\ size[next[x]] < size[x]
  <2>1. x.i \in Nat /\ Len(data) \in Nat
    BY LenProperties DEF StringStates
  <2>2. size[x] = IF x.i <= Len(data) THEN Len(data) + 1 - x.i ELSE 0
    OBVIOUS
  <2>3. size[x] \in Nat
    <3> HIDE DEF size
    <3> QED BY <2>1, <2>2
  <2>4. ASSUME x \notin ends PROVE next[x] \in StringStates /\ size[next[x]] < size[x]
    <3>1. R(x).kind = "more" /\ next[x] = R(x).at
      BY <2>4
    <3>2. Goes(data, open.i, x, R(x))
      BY <3>1, RoundOfString DEF R, Closes, Refuses
    <3> DEFINE y == R(x).at
    <3>3. y \in StringStates /\ y.i \in (x.i + 1)..(Len(data) + 1) /\ next[x] = y
      BY <3>1, <3>2 DEF Goes
    <3> HIDE DEF y
    <3>4. size[y] = IF y.i <= Len(data) THEN Len(data) + 1 - y.i ELSE 0
      BY <3>3
    <3> HIDE DEF size, next
    <3> QED BY <2>1, <2>2, <3>3, <3>4
  <2> QED BY <2>3, <2>4
<1>3. PICK f : \A x \in StringStates : f[x] = IF x \in ends THEN result[x] ELSE f[next[x]]
  <2> HIDE DEF ends, next, result, size
  <2> DEFINE S == StringStates
  <2>1. Ends(S, ends, next, size)
    BY <1>2 DEF Ends
  <2>2. HasResults(S, ends, next, result)
    <3> HIDE DEF S
    <3> QED BY <2>1, LoopsEnd
  <2> QED BY <2>2 DEF HasResults
<1> DEFINE h == [x \in StringStates |-> f[x]]
<1>4. h = Body(h)
  <2>1. ASSUME NEW x \in StringStates PROVE h[x] = IF R(x).kind = "more" THEN h[R(x).at] ELSE R(x)
    <3>1. h[x] = f[x] /\ f[x] = IF x \in ends THEN result[x] ELSE f[next[x]]
      BY <1>3
    <3>2. CASE x \in ends
      BY <3>1, <3>2
    <3>3. CASE x \notin ends
      <4>1. next[x] = R(x).at /\ R(x).kind = "more"
        BY <3>3
      <4>2. next[x] \in StringStates
        BY <1>2, <3>3
      <4> HIDE DEF next, ends
      <4> QED BY <3>1, <3>3, <4>1, <4>2
    <3> QED BY <3>2, <3>3
  <2> QED BY <2>1
<1>5. loop = Body(loop)
  <2> HIDE DEF Body
  <2> QED BY <1>4
<1>6. \A x \in StringStates : loop[x] = IF R(x).kind = "more" THEN loop[R(x).at] ELSE R(x)
  <2> HIDE DEF loop
  <2> QED BY <1>5
<1> QED BY <1>1, <1>6 DEF R

(* What a string means up to an item, and with it. *)
LEMMA MeansNothing ==
  ASSUME NEW data, NEW i \in Nat
  PROVE  Means(data, i, i - 1, <<>>)
<1> DEFINE begins == [k \in 1..1 |-> i]
<1>1. Len(<<>>) + 1 = 1 /\ i - 1 + 1 = i
  OBVIOUS
<1>2. begins \in [1..1 -> i..i] /\ begins[1] = i
  OBVIOUS
<1>3. \A k \in 1..0 : IsItem(data, begins[k], begins[k + 1] - 1, <<>>[k])
  OBVIOUS
<1> QED BY <1>1, <1>2, <1>3 DEF Means

LEMMA MeansMore ==
  ASSUME NEW data, NEW i \in Nat, NEW j \in Nat, NEW l \in Nat, NEW held \in Seq(Symbols), NEW c \in Symbols,
         i <= j, j < l, Means(data, i, j - 1, held), IsItem(data, j, l - 1, c)
  PROVE  Means(data, i, l - 1, Append(held, c))
<1> DEFINE n == Len(held)
           more == Append(held, c)
<1>1. /\ n \in Nat /\ Len(more) = n + 1 /\ more[n + 1] = c
      /\ \A k \in 1..n : more[k] = held[k]
  BY AppendProperties, LenProperties
<1>2. PICK begins \in [1..(n + 1) -> i..j] :
             /\ begins[1] = i /\ begins[n + 1] = j
             /\ \A k \in 1..n : IsItem(data, begins[k], begins[k + 1] - 1, held[k])
  <2>1. j - 1 + 1 = j
    OBVIOUS
  <2> QED BY <2>1 DEF Means
<1> HIDE DEF n, more
<1> DEFINE b == [k \in 1..(n + 2) |-> IF k = n + 2 THEN l ELSE begins[k]]
<1>3. b \in [1..(n + 2) -> i..l] /\ b[1] = i /\ b[n + 2] = l
  BY <1>1, <1>2
<1>4. ASSUME NEW k \in 1..(n + 1) PROVE IsItem(data, b[k], b[k + 1] - 1, more[k])
  <2>1. CASE k = n + 1
    <3>1. b[k] = j /\ b[k + 1] = l /\ more[k] = c
      BY <1>1, <1>2, <2>1
    <3> QED BY <3>1
  <2>2. CASE k \in 1..n
    <3>1. b[k] = begins[k] /\ b[k + 1] = begins[k + 1] /\ more[k] = held[k]
      BY <1>1, <1>2, <2>2
    <3> QED BY <1>2, <2>2, <3>1
  <2> QED BY <1>1, <2>1, <2>2
<1>5. Len(more) + 1 = n + 2 /\ l - 1 + 1 = l /\ 1..Len(more) = 1..(n + 1)
  BY <1>1
<1> HIDE DEF b
<1> QED BY <1>3, <1>4, <1>5 DEF Means, more

(* Where an item is, a text goes on after it. *)
LEMMA TextAfter ==
  ASSUME NEW data \in Seq(Symbols), NEW i \in Nat, NEW e \in Nat, NEW m \in i..Len(data), NEW c,
         IsItem(data, i, e - 1, c), i < e, data[m] = Quote, IsText(data, i, m - 1)
  PROVE  e <= m /\ IsText(data, e, m - 1)
<1>1. m - 1 + 1 = m /\ m \in Nat
  BY LenProperties
<1>2. PICK cuts \in SUBSET (i..m) :
        /\ {i, m} \subseteq cuts
        /\ \A k \in cuts \ {m} : \E l \in cuts, d \in Characters(data) : IsItem(data, k, l - 1, d)
  BY <1>1 DEF IsText
<1>3. i # m
  <2>1. ~ Plain(Quote) /\ Quote # "\\"
    BY Quotes DEF Plain
  <2>2. e - 1 \in Nat
    OBVIOUS
  <2> QED BY <2>1, <2>2, ItemForms DEF IsEscape, IsUnicode, IsRocket
<1>4. PICK l \in cuts, d \in Characters(data) : IsItem(data, i, l - 1, d)
  BY <1>2, <1>3
<1>5. l \in Nat /\ i < l /\ l <= m
  <2>1. l \in i..m
    BY <1>2, <1>4
  <2>2. l # i
    BY <1>1, <1>4, <2>1 DEF IsItem
  <2> QED BY <1>1, <2>1, <2>2
<1>6. l = e
  <2>1. l - 1 \in Nat /\ e - 1 \in Nat
    BY <1>5
  <2>2. l - 1 = e - 1
    BY <1>4, <2>1, ItemEnds
  <2> QED BY <1>5, <2>2
<1> DEFINE rest == cuts \cap (e..m)
<1>7. rest \in SUBSET (e..m) /\ {e, m} \subseteq rest
  BY <1>1, <1>2, <1>4, <1>5, <1>6
<1>8. ASSUME NEW k \in rest \ {m} PROVE \E n \in rest, x \in Characters(data) : IsItem(data, k, n - 1, x)
  <2>1. PICK n \in cuts, x \in Characters(data) : IsItem(data, k, n - 1, x)
    BY <1>2, <1>8
  <2>2. n \in i..m /\ k \in e..m
    BY <1>2, <2>1
  <2>3. n > k
    BY <1>1, <2>1, <2>2 DEF IsItem
  <2>4. n \in rest
    BY <1>1, <2>1, <2>2, <2>3
  <2> QED BY <2>1, <2>4
<1>9. e <= m
  BY <1>5, <1>6
<1> HIDE DEF rest
<1>10. \E set \in SUBSET (e..m) :
         /\ {e, m} \subseteq set
         /\ \A k \in set \ {m} : \E n \in set, x \in Characters(data) : IsItem(data, k, n - 1, x)
  BY <1>7, <1>8
<1> QED BY <1>1, <1>9, <1>10 DEF IsText

(* What scanString() returns: a token for a text that a quote ends, or an   *)
(* error if there is none. *)
Scans(data, o, x, r) ==
  \/ /\ r.kind = "string" /\ r.from = o /\ r.to \in x.i..Len(data) /\ r.end.i = r.to + 1
     /\ data[r.to] = Quote /\ Means(data, o + 1, r.to - 1, r.data) /\ r.data \in Seq(Symbols)
  \/ /\ r.kind = "error" /\ r.code # "EInvalidNumber"
     /\ \A m \in x.i..Len(data) : data[m] = Quote => ~ IsText(data, x.i, m - 1)

LEMMA StringScan ==
  ASSUME NEW data \in Seq(Symbols), NEW open, open.i \in 1..Len(data)
  PROVE  Scans(data, open.i, Entry(open.i), ScanString(data, open))
<1> DEFINE o == open.i
<1>1. PICK f : /\ ScanString(data, open) = f[Entry(o)]
               /\ \A x \in StringStates :
                    f[x] = LET r == StringRound(data, open, x) IN IF r.kind = "more" THEN f[r.at] ELSE r
  BY ScanStringIsALoop, LenProperties
<1>2. o \in Nat \ {0} /\ Len(data) \in Nat /\ o <= Len(data)
  BY LenProperties
<1> HIDE DEF o
<1> DEFINE Reached(x) == /\ x \in StringStates /\ o < x.i /\ x.i <= Len(data) + 1
                         /\ Content(data, o, x) \in Seq(Symbols) /\ Means(data, o + 1, x.i - 1, Content(data, o, x))
           Fails == {n \in Nat : \E x : Reached(x) /\ n = Len(data) + 1 - x.i /\ ~ Scans(data, o, x, f[x])}
<1>3. Reached(Entry(o))
  <2>1. Entry(o) \in StringStates
    <3>1. o + 1 \in Nat \ {0} /\ <<>> \in Seq(Symbols)
      BY <1>2
    <3> QED BY <3>1 DEF Entry, StringStates
  <2>2. Entry(o).i = o + 1 /\ ~ Entry(o).hasEscape
    BY DEF Entry
  <2> DEFINE b == o + 1
  <2>3. b \in Nat /\ b - 1 < b /\ b \in Int /\ b - 1 \in Int /\ Entry(o).i = b
    BY <1>2, <2>2
  <2>4. Content(data, o, Entry(o)) = SubSeq(data, b, Entry(o).i - 1)
    BY <2>2 DEF Content
  <2> HIDE DEF b
  <2>6. Content(data, o, Entry(o)) = <<>>
    BY <2>3, <2>4, SubSeqEmpty
  <2>7. Means(data, b, Entry(o).i - 1, <<>>)
    BY <2>3, MeansNothing
  <2>5. <<>> \in Seq(Symbols)
    OBVIOUS
  <2> QED BY <1>2, <2>1, <2>2, <2>5, <2>6, <2>7 DEF b
<1>4. ASSUME NEW x, Reached(x), \A y : Reached(y) /\ x.i < y.i => Scans(data, o, y, f[y])
      PROVE  Scans(data, o, x, f[x])
  <2> DEFINE r == StringRound(data, open, x)
  <2>1. /\ f[x] = IF r.kind = "more" THEN f[r.at] ELSE r
        /\ Goes(data, o, x, r) \/ Closes(data, o, x, r) \/ Refuses(data, x, r)
    BY <1>1, <1>2, <1>4, RoundOfString DEF o
  <2> HIDE DEF r
  <2>2. x.i \in Nat
    BY <1>4 DEF StringStates
  <2>3. CASE Refuses(data, x, r)
    <3>1. f[x] = r
      BY <2>1, <2>3 DEF Refuses
    <3>2. ASSUME NEW m \in x.i..Len(data), data[m] = Quote, IsText(data, x.i, m - 1) PROVE FALSE
      <4> DEFINE i == x.i
      <4> HIDE DEF i
      <4>1. i \in Nat /\ m \in i..Len(data) /\ i # m /\ m - 1 + 1 = m /\ IsText(data, i, m - 1) /\ NoItem(data, i)
        BY <1>2, <2>2, <2>3, <3>2 DEF Refuses, i
      <4>2. PICK cuts \in SUBSET (i..m) :
              /\ {i, m} \subseteq cuts
              /\ \A k \in cuts \ {m} : \E l \in cuts, d \in Characters(data) : IsItem(data, k, l - 1, d)
        BY ONLY <4>1 DEF IsText
      <4>3. PICK l \in cuts, d \in Characters(data) : IsItem(data, i, l - 1, d)
        BY <4>1, <4>2
      <4>4. l \in i..m /\ l # i
        BY <4>1, <4>2, <4>3 DEF IsItem
      <4>5. i >= 1
        BY <1>4, <1>2, <4>1 DEF i
      <4>6. l - 1 \in 1..Len(data)
        BY <1>2, <4>1, <4>4, <4>5
      <4> QED BY <4>1, <4>3, <4>6 DEF NoItem
    <3> QED BY <2>3, <3>1, <3>2 DEF Refuses, Scans
  <2>4. CASE Closes(data, o, x, r)
    <3>1. f[x] = r
      BY <2>1, <2>4 DEF Closes
    <3>2. r.to \in x.i..Len(data) /\ r.to = x.i /\ r.data = Content(data, o, x)
      BY <1>2, <2>2, <2>4 DEF Closes
    <3> QED BY <1>4, <2>4, <3>1, <3>2 DEF Closes, Scans
  <2>5. CASE Goes(data, o, x, r)
    <3> DEFINE y == r.at
               i == x.i
               e == y.i
    <3>1. f[x] = f[y] /\ y \in StringStates /\ e \in (i + 1)..(Len(data) + 1)
      BY <2>1, <2>5 DEF Goes
    <3>2. PICK c \in Symbols : IsItem(data, i, e - 1, c) /\ Content(data, o, y) = Append(Content(data, o, x), c)
      <4>1. o < x.i
        BY <1>4
      <4>2. PICK c \in Symbols :
              /\ IsItem(data, x.i, r.at.i - 1, c)
              /\ o < x.i => Content(data, o, r.at) = Append(Content(data, o, x), c)
        BY <2>5 DEF Goes
      <4> QED BY <4>1, <4>2
    <3> HIDE DEF y
    <3>3. i \in Nat /\ o \in Nat /\ e \in Nat /\ o + 1 \in Nat /\ i < e /\ e <= Len(data) + 1 /\ o < e /\ o < i
      BY <1>2, <1>4, <2>2, <3>1
    <3> HIDE DEF i, e
    <3>4. Means(data, o + 1, i - 1, Content(data, o, x)) /\ Content(data, o, x) \in Seq(Symbols)
      BY <1>4 DEF i
    <3>5. Means(data, o + 1, e - 1, Content(data, o, y))
      BY <3>2, <3>3, <3>4, MeansMore
    <3>6. Content(data, o, y) \in Seq(Symbols)
      BY <3>2, <3>4, AppendProperties
    <3>7. Scans(data, o, y, f[y])
      BY <1>4, <3>1, <3>3, <3>5, <3>6 DEF i, e
    <3> DEFINE v == f[x]
    <3>8. v = f[y]
      BY <3>1
    <3> HIDE DEF v
    <3>9. CASE v.kind = "string"
      <4>1. e..Len(data) \subseteq i..Len(data)
        BY <1>2, <3>3
      <4> QED BY <3>7, <3>8, <3>9, <4>1 DEF Scans, i, e, v
    <3>10. CASE v.kind = "error"
      <4>1. ASSUME NEW m \in i..Len(data), data[m] = Quote, IsText(data, i, m - 1) PROVE FALSE
        <5>1. e <= m /\ IsText(data, e, m - 1)
          BY <3>2, <3>3, <4>1, TextAfter
        <5>2. m \in e..Len(data)
          BY <1>2, <3>3, <5>1
        <5> QED BY <3>7, <3>8, <3>10, <4>1, <5>1, <5>2 DEF Scans, e
      <4> QED BY <3>7, <3>8, <3>10, <4>1 DEF Scans, i, v
    <3> QED BY <3>7, <3>8, <3>9, <3>10 DEF Scans, v
  <2> QED BY <2>1, <2>3, <2>4, <2>5
<1>5. Fails = {}
  <2> SUFFICES ASSUME Fails # {} PROVE FALSE
    OBVIOUS
  <2>1. PICK n \in Fails : \A k \in Fails : n <= k
    <3>1. Fails \subseteq Nat
      OBVIOUS
    <3> HIDE DEF Fails
    <3> QED BY <3>1, Smallest
  <2>2. PICK x : Reached(x) /\ n = Len(data) + 1 - x.i /\ ~ Scans(data, o, x, f[x])
    OBVIOUS
  <2>3. ASSUME NEW y, Reached(y), x.i < y.i, ~ Scans(data, o, y, f[y]) PROVE FALSE
    <3> DEFINE k == Len(data) + 1 - y.i
    <3>1. x.i \in Nat /\ y.i \in Nat
      BY <2>2, <2>3 DEF StringStates
    <3>5. n = Len(data) + 1 - x.i /\ y.i <= Len(data) + 1 /\ x.i < y.i
      BY <2>2, <2>3
    <3>2. k \in Nat /\ k < n
      BY ONLY <1>2, <3>1, <3>5
    <3>3. k \in Fails
      BY <2>3, <3>2
    <3> HIDE DEF Fails, k
    <3>4. n <= k
      BY <2>1, <3>3
    <3> QED BY <3>1, <3>2, <3>4, <1>2, <2>2
  <2> HIDE DEF Reached
  <2> QED BY <1>4, <2>2, <2>3
<1>6. ASSUME ~ Scans(data, o, Entry(o), f[Entry(o)]) PROVE FALSE
  <2>1. Entry(o).i = o + 1
    BY DEF Entry
  <2>2. Len(data) + 1 - Entry(o).i \in Nat
    BY <1>2, <2>1
  <2> HIDE DEF Reached
  <2> QED BY <1>3, <1>5, <1>6, <2>2
<1> QED BY <1>1, <1>6 DEF o

-----------------------------------------------------------------------------
(* Gaps. *)
NoBlank(data, k) == \A j \in k..Len(data) : ~ Blank(data, k, j)

LEMMA BlankForms ==
  ASSUME NEW data, NEW i \in Nat, NEW j \in Nat, Blank(data, i, j)
  PROVE  \/ /\ j = i /\ data[i] \in White
         \/ /\ AllowComments /\ i < j /\ data[i] = "/" /\ data[i + 1] = "/"
            /\ \A k \in i..j : data[k] # "LF"
            /\ j # Len(data) => data[j + 1] = "LF"
         \/ /\ AllowComments /\ i + 3 <= j /\ data[i] = "/" /\ data[i + 1] = "*"
            /\ data[j - 1] = "*" /\ data[j] = "/"
            /\ \A k \in (i + 2)..(j - 2) : ~ (data[k] = "*" /\ data[k + 1] = "/")
BY DEF Blank, LineComment, BlockComment

LEMMA BlankBegins ==
  ASSUME NEW data, NEW i \in Int, NEW j \in Int, Blank(data, i, j)
  PROVE  /\ i <= j
         /\ data[i] \in White => j = i
         /\ data[i] \in White \cup {"/"}
<1>1. ASSUME i = j /\ data[i] \in White PROVE i <= j /\ data[i] \in White \cup {"/"}
  BY <1>1
<1>2. ASSUME LineComment(data, i, j) PROVE i <= j /\ data[i] = "/"
  BY <1>2 DEF LineComment
<1>3. ASSUME BlockComment(data, i, j) PROVE i <= j /\ data[i] = "/"
  BY <1>3 DEF BlockComment
<1> QED BY <1>1, <1>2, <1>3, Whites DEF Blank

LEMMA BlankEnds ==
  ASSUME NEW data, NEW i \in Nat, NEW j \in Nat, NEW k \in Nat, Blank(data, i, j), Blank(data, i, k), k <= Len(data),
         Len(data) \in Nat
  PROVE  ~ (j < k)
<1> SUFFICES ASSUME j < k PROVE FALSE
  OBVIOUS
<1>1. j + 1 \in i..k /\ j # Len(data)
  <2>1. i <= j
    BY BlankBegins
  <2> QED BY <2>1
<1>2. CASE i + 3 <= j /\ data[i + 1] = "*" /\ data[j - 1] = "*" /\ data[j] = "/"
  <2>1. j - 1 \in (i + 2)..(k - 2) /\ j - 1 + 1 = j
    BY <1>2
  <2>2. \A l \in (i + 2)..(k - 2) : ~ (data[l] = "*" /\ data[l + 1] = "/")
    BY <1>2, BlankForms
  <2> QED BY <1>2, <2>1, <2>2
<1>3. CASE data[i] = "/" /\ data[i + 1] = "/"
  <2>1. /\ \A l \in i..k : data[l] # "LF"
        /\ data[j + 1] = "LF"
    BY <1>1, <1>3, BlankForms, Whites
  <2> QED BY <1>1, <2>1
<1>4. CASE data[i] \in White
  BY <1>4, BlankBegins
<1> QED BY <1>2, <1>3, <1>4, BlankForms

LEMMA GapNone ==
  ASSUME NEW data, NEW i \in Nat
  PROVE  Gap(data, i, i - 1)
<1>1. i - 1 + 1 = i /\ {i} \in SUBSET (i..i)
  OBVIOUS
<1> QED BY <1>1 DEF Gap

LEMMA GapMore ==
  ASSUME NEW data, NEW i \in Nat, NEW e \in Nat, NEW j \in Nat, i < e, e <= j, Blank(data, i, e - 1), Gap(data, e, j - 1)
  PROVE  Gap(data, i, j - 1)
<1>1. j - 1 + 1 = j
  OBVIOUS
<1>2. PICK cuts \in SUBSET (e..j) : /\ {e, j} \subseteq cuts
                                   /\ \A c \in cuts \ {j} : \E d \in cuts : Blank(data, c, d - 1)
  BY <1>1 DEF Gap
<1> DEFINE all == cuts \cup {i}
<1>3. all \in SUBSET (i..j) /\ {i, j} \subseteq all
  BY <1>2
<1>4. \A c \in all \ {j} : \E d \in all : Blank(data, c, d - 1)
  BY <1>2
<1> HIDE DEF all
<1> QED BY <1>1, <1>3, <1>4 DEF Gap

(* A gap is empty, or it begins with a blank and goes on as a gap. *)
LEMMA GapBegins ==
  ASSUME NEW data, NEW i \in Nat, NEW j \in Nat, Gap(data, i, j - 1)
  PROVE  /\ i <= j
         /\ i # j => \E d \in (i + 1)..j : Blank(data, i, d - 1) /\ Gap(data, d, j - 1)
<1>1. j - 1 + 1 = j
  OBVIOUS
<1>2. PICK cuts \in SUBSET (i..j) : /\ {i, j} \subseteq cuts
                                   /\ \A c \in cuts \ {j} : \E d \in cuts : Blank(data, c, d - 1)
  BY <1>1 DEF Gap
<1>3. \A c, d \in i..j : Blank(data, c, d - 1) => c < d
  <2> SUFFICES ASSUME NEW c \in i..j, NEW d \in i..j, Blank(data, c, d - 1) PROVE c < d
    OBVIOUS
  <2>1. c \in Int /\ d - 1 \in Int /\ d \in Int
    OBVIOUS
  <2>2. c <= d - 1
    BY <2>1, BlankBegins
  <2> QED BY <2>1, <2>2
<1>4. i <= j
  BY <1>2
<1>5. ASSUME i # j PROVE \E d \in (i + 1)..j : Blank(data, i, d - 1) /\ Gap(data, d, j - 1)
  <2>1. PICK d \in cuts : Blank(data, i, d - 1)
    BY <1>2, <1>5
  <2>2. d \in (i + 1)..j
    BY <1>2, <1>3, <1>4, <2>1
  <2> DEFINE rest == cuts \cap (d..j)
  <2>3. rest \in SUBSET (d..j) /\ {d, j} \subseteq rest
    BY <1>2, <2>1, <2>2
  <2>4. ASSUME NEW c \in rest \ {j} PROVE \E x \in rest : Blank(data, c, x - 1)
    <3>1. PICK x \in cuts : Blank(data, c, x - 1)
      BY <1>2
    <3>2. c \in i..j /\ x \in i..j /\ c \in d..j
      BY <1>2, <3>1
    <3>3. x \in d..j
      BY <1>3, <2>2, <3>1, <3>2
    <3> QED BY <3>1, <3>3
  <2> HIDE DEF rest
  <2>5. Gap(data, d, j - 1)
    BY <1>1, <2>3, <2>4 DEF Gap
  <2> QED BY <2>1, <2>2, <2>5
<1> QED BY <1>4, <1>5

(* What comes first after a gap is one symbol. *)
LEMMA GapIsOne ==
  ASSUME NEW data \in Seq(Symbols), NEW i \in Nat, NEW k \in 1..(Len(data) + 1), NEW l \in 1..(Len(data) + 1),
         Gap(data, i, k - 1), Gap(data, i, l - 1), NoBlank(data, k), NoBlank(data, l)
  PROVE  k = l
<1> DEFINE n == Len(data)
           Both(a) == Gap(data, a, k - 1) /\ Gap(data, a, l - 1)
           Apart == {m \in Nat : \E a \in Nat : a <= k /\ m = k - a /\ Both(a)}
<1>1. n \in Nat /\ k \in Nat /\ l \in Nat
  BY LenProperties
<1> SUFFICES ASSUME k # l PROVE FALSE
  OBVIOUS
<1>2. i <= k
  BY <1>1, GapBegins
<1>3. Apart # {}
  <2>1. k - i \in Nat /\ k - i \in Apart
    BY <1>1, <1>2
  <2> QED BY <2>1
<1>4. PICK m \in Apart : \A o \in Apart : m <= o
  <2>1. Apart \subseteq Nat
    OBVIOUS
  <2> HIDE DEF Apart
  <2> QED BY <1>3, <2>1, Smallest
<1>5. PICK a \in Nat : a <= k /\ m = k - a /\ Both(a)
  OBVIOUS
<1> HIDE DEF Apart
<1>6. a <= l
  BY <1>1, <1>5, GapBegins
<1>7. CASE a = k
  <2>1. PICK d \in (a + 1)..l : Blank(data, a, d - 1)
    BY <1>1, <1>5, <1>7, GapBegins
  <2>2. d - 1 \in k..n
    BY <1>1, <1>7, <2>1
  <2> QED BY <1>7, <2>1, <2>2 DEF NoBlank
<1>8. CASE a = l
  <2>1. PICK d \in (a + 1)..k : Blank(data, a, d - 1)
    BY <1>1, <1>5, <1>8, GapBegins
  <2>2. d - 1 \in l..n
    BY <1>1, <1>8, <2>1
  <2> QED BY <1>8, <2>1, <2>2 DEF NoBlank
<1>9. CASE a # k /\ a # l
  <2>1. PICK d \in (a + 1)..k : Blank(data, a, d - 1) /\ Gap(data, d, k - 1)
    BY <1>1, <1>5, <1>9, GapBegins
  <2>2. PICK e \in (a + 1)..l : Blank(data, a, e - 1) /\ Gap(data, e, l - 1)
    BY <1>1, <1>5, <1>9, GapBegins
  <2>3. d - 1 \in Nat /\ e - 1 \in Nat /\ d - 1 <= n /\ e - 1 <= n
    BY <1>1, <2>1, <2>2
  <2>4. d = e
    <3>1. ~ (d - 1 < e - 1) /\ ~ (e - 1 < d - 1)
      BY <1>1, <2>1, <2>2, <2>3, BlankEnds
    <3> QED BY <1>1, <2>3, <3>1
  <2>5. d \in Nat /\ d <= k /\ k - d \in Nat /\ k - d < m
    BY <1>1, <1>5, <2>1
  <2>6. k - d \in Apart
    BY <2>1, <2>2, <2>4, <2>5 DEF Apart
  <2>7. m <= k - d
    BY <1>4, <2>6
  <2> QED BY <1>1, <1>5, <2>5, <2>7
<1> QED BY <1>7, <1>8, <1>9

(* skipSpace() stops after a gap, at what is no blank. *)
Skipped(data, i, r) ==
  /\ r.at \in i..(Len(data) + 1) /\ Gap(data, i, r.at - 1) /\ NoBlank(data, r.at)
  /\ r.error \in BOOLEAN
  /\ r.error => r.at <= Len(data) /\ data[r.at] = "/" /\ r.end \in r.at..(Len(data) + 1)

LEMMA SkipGap ==
  ASSUME NEW data \in Seq(Symbols), NEW start \in 1..(Len(data) + 1)
  PROVE  Skipped(data, start, SkipSpace(data, start))
<1> DEFINE n == Len(data)
<1>1. n \in Nat /\ start \in Nat
  BY LenProperties
<1>2. PICK f : /\ \A i \in Nat : SkipSpace(data, i) = f[i]
               /\ \A i \in Nat : f[i] = SkipRound(data, i, f)
  BY SkipSpaceIsALoop
<1> HIDE DEF n
<1> DEFINE Fails == {m \in Nat : \E i \in 1..(n + 1) : m = n + 1 - i /\ ~ Skipped(data, i, f[i])}
<1>3. ASSUME NEW i \in 1..(n + 1), NEW e \in (i + 1)..(n + 1), Blank(data, i, e - 1), f[i] = f[e], Skipped(data, e, f[e])
      PROVE  Skipped(data, i, f[i])
  <2> DEFINE k == f[e].at
  <2>1. k \in e..(n + 1) /\ Gap(data, e, k - 1)
    BY <1>3 DEF Skipped, n
  <2>2. i \in Nat /\ e \in Nat /\ k \in Nat /\ i < e /\ e <= k /\ k \in i..(n + 1)
    BY <1>1, <2>1
  <2> HIDE DEF k
  <2>3. Gap(data, i, k - 1)
    BY <1>3, <2>1, <2>2, GapMore
  <2> QED BY <1>3, <2>2, <2>3 DEF Skipped, k, n
<1>4. ASSUME NEW i \in 1..(n + 1), \A e \in (i + 1)..(n + 1) : Skipped(data, e, f[e])
      PROVE  Skipped(data, i, f[i])
  <2> DEFINE c       == Symbol(data, i)
             comment == IF AllowComments /\ c = "/" THEN Symbol(data, i + 1) ELSE "none"
             close   == BlockEnd(data, i + 2)
             line    == LineEnd(data, i)
  <2>1. f[i] = SkipRound(data, i, f) /\ i \in Nat /\ i >= 1 /\ i <= n + 1
    BY <1>1, <1>2
  <2>2. f[i] = CASE c \in White -> f[i + 1]
                 [] comment = "/" -> f[line]
                 [] comment = "*" -> IF close < n THEN f[close + 2]
                                     ELSE [error |-> TRUE, at |-> i, end |-> close]
                 [] OTHER -> [error |-> FALSE, at |-> i]
    BY <2>1 DEF SkipRound, n
  <2>3. /\ c \in White => i <= n /\ data[i] = c
        /\ comment \in {"/", "*"} => /\ AllowComments /\ i + 1 <= n /\ data[i] = "/"
                                     /\ data[i + 1] = comment /\ c = "/"
    BY <1>1, <2>1, Whites DEF Symbol, n
  <2> HIDE DEF c, comment, close, line
  <2>4. CASE c \in White
    <3>1. f[i] = f[i + 1]
      BY <2>2, <2>3, <2>4, Whites
    <3>2. i + 1 \in (i + 1)..(n + 1) /\ Blank(data, i, i + 1 - 1)
      BY <1>1, <2>1, <2>3, <2>4 DEF Blank
    <3> QED BY <1>3, <1>4, <3>1, <3>2
  <2>5. CASE comment = "/"
    <3>1. f[i] = f[line]
      BY <2>2, <2>3, <2>5, Whites
    <3>2. /\ line \in i..(n + 1) /\ \A k \in i..(line - 1) : data[k] # "LF"
          /\ line <= n => data[line] = "LF"
      BY <1>1, <2>1, <2>3, <2>5, LineEnds DEF line, n
    <3>3. line # i /\ line # i + 1
      BY <1>1, <2>1, <2>3, <2>5, <3>2
    <3>4. line \in (i + 2)..(n + 1) /\ line - 1 + 1 = line
      BY <1>1, <2>1, <3>2, <3>3
    <3>5. LineComment(data, i, line - 1)
      BY <1>1, <2>1, <2>3, <2>5, <3>2, <3>4 DEF LineComment, n
    <3>6. line \in (i + 1)..(n + 1) /\ Blank(data, i, line - 1)
      BY <1>1, <2>1, <2>3, <2>5, <3>4, <3>5 DEF Blank
    <3> QED BY <1>3, <1>4, <3>1, <3>6
  <2>6. ASSUME comment = "*"
        PROVE  /\ close \in (i + 2)..(n + 1)
               /\ \A k \in (i + 2)..(close - 1) : ~ (data[k] = "*" /\ data[k + 1] = "/")
               /\ close < n => data[close] = "*" /\ data[close + 1] = "/"
    <3> DEFINE b == i + 2
    <3>1. b \in Nat /\ b <= Len(data) + 1
      BY <1>1, <2>1, <2>3, <2>6 DEF n
    <3>2. close = BlockEnd(data, b)
      BY DEF close
    <3> HIDE DEF b
    <3>3. /\ close \in b..(n + 1)
          /\ \A k \in b..(close - 1) : ~ (data[k] = "*" /\ data[k + 1] = "/")
          /\ close < n => data[close] = "*" /\ data[close + 1] = "/"
      BY <3>1, <3>2, BlockEnds DEF n
    <3> QED BY <3>3 DEF b
  <2>7. CASE comment = "*" /\ close < n
    <3>1. f[i] = f[close + 2]
      BY <2>2, <2>3, <2>7, Whites
    <3> DEFINE e == close + 2
    <3>2. e \in (i + 1)..(n + 1) /\ e - 1 = close + 1 /\ i + 3 <= e - 1 /\ e - 1 - 1 = close /\ e - 1 - 2 = close - 1
      <4>1. close \in (i + 2)..(n + 1) /\ close < n /\ n \in Nat /\ i \in Nat
        BY <1>1, <2>1, <2>6, <2>7
      <4> HIDE DEF close
      <4> QED BY ONLY <4>1
    <3> HIDE DEF e
    <3>3. BlockComment(data, i, e - 1)
      BY <2>3, <2>6, <2>7, <3>2 DEF BlockComment
    <3>4. Blank(data, i, e - 1)
      BY <2>3, <2>7, <3>3 DEF Blank
    <3> QED BY <1>3, <1>4, <3>1, <3>2, <3>4 DEF e
  <2>8. ASSUME NoBlank(data, i), f[i].at = i, f[i].error \in BOOLEAN,
               f[i].error => i <= n /\ data[i] = "/" /\ f[i].end \in i..(n + 1)
        PROVE  Skipped(data, i, f[i])
    <3>1. i \in i..(n + 1) /\ Gap(data, i, i - 1)
      BY <1>1, <2>1, GapNone
    <3> QED BY <2>8, <3>1 DEF Skipped, n
  <2>9. CASE comment = "*" /\ ~ (close < n)
    <3>1. f[i] = [error |-> TRUE, at |-> i, end |-> close]
      BY <2>2, <2>3, <2>9, Whites
    <3>2. ASSUME NEW j \in i..n, Blank(data, i, j) PROVE FALSE
      <4>1. /\ i + 3 <= j /\ data[j - 1] = "*" /\ data[j] = "/"
        BY <1>1, <2>1, <2>3, <2>9, <3>2, BlankForms, Whites
      <4>2. j - 1 \in (i + 2)..(close - 1) /\ j - 1 + 1 = j
        BY <1>1, <2>1, <2>6, <2>9, <4>1
      <4> QED BY <2>6, <2>9, <4>1, <4>2
    <3>3. NoBlank(data, i)
      BY <3>2 DEF NoBlank, n
    <3>4. f[i].at = i /\ f[i].error \in BOOLEAN
      BY <3>1
    <3>5. f[i].end \in i..(n + 1)
      <4>1. f[i].end = close
        BY ONLY <3>1
      <4>2. close \in i..(n + 1)
        BY <1>1, <2>1, <2>6, <2>9
      <4> QED BY ONLY <4>1, <4>2
    <3> QED BY <2>3, <2>8, <2>9, <3>3, <3>4, <3>5 DEF n
  <2>10. CASE c \notin White /\ comment \notin {"/", "*"}
    <3>1. f[i] = [error |-> FALSE, at |-> i]
      BY <2>2, <2>10
    <3>2. ASSUME NEW j \in i..n, Blank(data, i, j) PROVE FALSE
      <4>1. /\ AllowComments /\ data[i] = "/" /\ data[i + 1] \in {"/", "*"} /\ i + 1 <= n
        <5>1. c = data[i]
          BY <1>1, <2>1, <3>2 DEF c, n, Symbol
        <5> QED BY <1>1, <2>1, <2>10, <3>2, <5>1, BlankForms
      <4>2. comment = data[i + 1]
        BY <1>1, <2>1, <4>1 DEF comment, c, n, Symbol
      <4> QED BY <2>10, <4>1, <4>2
    <3>3. NoBlank(data, i)
      BY <3>2 DEF NoBlank, n
    <3> QED BY <2>8, <3>1, <3>3
  <2> QED BY <2>4, <2>5, <2>7, <2>9, <2>10
<1>5. Fails = {}
  <2> SUFFICES ASSUME Fails # {} PROVE FALSE
    OBVIOUS
  <2>1. PICK m \in Fails : \A k \in Fails : m <= k
    <3>1. Fails \subseteq Nat
      OBVIOUS
    <3> HIDE DEF Fails
    <3> QED BY <3>1, Smallest
  <2>2. PICK i \in 1..(n + 1) : m = n + 1 - i /\ ~ Skipped(data, i, f[i])
    OBVIOUS
  <2>3. ASSUME NEW e \in (i + 1)..(n + 1), ~ Skipped(data, e, f[e]) PROVE FALSE
    <3> DEFINE k == n + 1 - e
    <3>1. k \in Nat /\ k < m /\ e \in 1..(n + 1)
      BY <1>1, <2>2
    <3>2. k \in Fails
      BY <2>3, <3>1
    <3> HIDE DEF Fails, k
    <3>3. m <= k
      BY <2>1, <3>2
    <3> QED BY <1>1, <2>2, <3>1, <3>3 DEF k
  <2> QED BY <1>4, <2>2, <2>3
<1>6. Skipped(data, start, f[start])
  <2>1. n + 1 - start \in Nat /\ start \in 1..(n + 1)
    BY <1>1 DEF n
  <2> QED BY <1>5, <2>1
<1> QED BY <1>1, <1>2, <1>6

-----------------------------------------------------------------------------
(* The parts of a number, and where the scanner stops in each of them. *)
Stop(data, i, e) ==
  /\ e \in i..(Len(data) + 1)
  /\ \A k \in i..(e - 1) : data[k] \in Digits
  /\ e <= Len(data) => data[e] \notin Digits

IntEnd(data, a, f) == a < f /\ Stop(data, a, f) /\ (data[a] = "0" => f = a + 1)

FracEnd(data, f, e) ==
  \/ e = f /\ (f <= Len(data) => data[f] # ".")
  \/ f + 1 < e /\ f <= Len(data) /\ data[f] = "." /\ Stop(data, f + 1, e)

(* Where the digits of an exponent begin. *)
SignEnds(data, e, t) == t = IF e + 1 <= Len(data) /\ data[e + 1] \in {"+", "-"} THEN e + 2 ELSE e + 1

ExpEnd(data, e, x) ==
  \/ x = e /\ (e <= Len(data) => data[e] # "e")
  \/ /\ e <= Len(data) /\ data[e] = "e"
     /\ \E t \in {e + 1, e + 2} : SignEnds(data, e, t) /\ t < x /\ Stop(data, t, x)

LEMMA DigitsStop ==
  ASSUME NEW data \in Seq(Symbols), NEW s, s.i \in 1..(Len(data) + 1)
  PROVE  Stop(data, s.i, DigitsEnd(data, s).i)
<1> DEFINE i == s.i
           n == Len(data)
           S == {j \in i..n : data[j] \notin Digits} \cup {n + 1}
           m == Min(S)
<1>1. i \in Nat /\ n \in Nat /\ i <= n + 1
  BY LenProperties
<1>2. DigitsEnd(data, s).i = m
  BY DEF DigitsEnd, AdvanceTo
<1> HIDE DEF i, n, m
<1>3. S \subseteq Nat /\ S # {} /\ m = Min(S)
  BY <1>1 DEF m
<1>4. m \in S /\ \A x \in S : m <= x
  <2> HIDE DEF S
  <2> QED BY <1>3, MinIsLeast
<1>5. \A k \in i..(m - 1) : data[k] \in Digits
  BY <1>1, <1>4
<1>6. m \in i..(n + 1) /\ (m <= n => data[m] \notin Digits)
  BY <1>1, <1>4
<1> QED BY <1>2, <1>5, <1>6 DEF Stop, i, n

LEMMA IntegerScan ==
  ASSUME NEW data \in Seq(Symbols), NEW s, s.i \in 1..Len(data)
  PROVE  LET r == Integer(data, s)
             a == IF data[s.i] = "-" THEN s.i + 1 ELSE s.i
         IN \/ r.ok /\ IntEnd(data, a, r.end.i)
            \/ ~ r.ok /\ (a <= Len(data) => data[a] \notin Digits)
            \/ ~ r.ok /\ a < Len(data) /\ data[a] = "0" /\ data[a + 1] \in Digits
<1> DEFINE n == Len(data)
           k == s.i
           a == IF data[k] = "-" THEN k + 1 ELSE k
           t == IF Here(data, s) = "-" THEN Advance(data, s) ELSE s
           r == Integer(data, s)
<1>1. k \in Nat /\ n \in Nat /\ k >= 1 /\ k <= n
  BY LenProperties
<1>2. t.i = a
  <2>1. Here(data, s) = data[k]
    BY <1>1 DEF Here, Symbol
  <2>2. Advance(data, s).i = k + 1
    BY Advances
  <2> QED BY <2>1, <2>2
<1>3. r = Unsigned(data, t)
  BY DEF Integer
<1>4. a \in Nat /\ a >= 1 /\ a <= n + 1
  BY <1>1
<1> HIDE DEF n, k, a, t, r
<1>5. /\ Here(data, t) = IF a <= n THEN data[a] ELSE "end"
      /\ After(data, t) = IF a + 1 <= n THEN data[a + 1] ELSE "end"
      /\ Advance(data, t).i = a + 1
  BY <1>2, Advances DEF Here, After, Symbol, n
<1>6. /\ "end" \notin Digits /\ "0" \in Digits
  BY DEF Digits
<1>7. CASE Here(data, t) = "0"
  <2>1. r.ok = (After(data, t) \notin Digits) /\ r.end = Advance(data, t)
    BY <1>3, <1>7 DEF Unsigned
  <2>2. a <= n /\ data[a] = "0" /\ r.end.i = a + 1
    BY <1>5, <1>7, <2>1
  <2>3. CASE After(data, t) \notin Digits
    <3>1. r.ok
      BY <2>1, <2>3
    <3>2. a + 1 <= n => data[a + 1] \notin Digits
      BY <1>5, <2>3
    <3>3. \A q \in a..(a + 1 - 1) : data[q] \in Digits
      BY <1>4, <1>6, <2>2
    <3>4. a + 1 \in a..(n + 1)
      BY <1>1, <1>4, <2>2
    <3>5. IntEnd(data, a, a + 1)
      BY <1>4, <3>2, <3>3, <3>4 DEF IntEnd, Stop, n
    <3> QED BY <2>2, <3>1, <3>5 DEF r, a, k
  <2>4. CASE After(data, t) \in Digits
    <3>1. ~ r.ok
      BY <2>1, <2>4
    <3>2. a < n /\ data[a + 1] \in Digits
      BY <1>1, <1>4, <1>5, <1>6, <2>4
    <3> QED BY <2>2, <3>1, <3>2 DEF r, a, k, n
  <2> QED BY <2>3, <2>4
<1>8. CASE Here(data, t) \in Digits \ {"0"}
  <2>1. r = Good(DigitsEnd(data, t)) /\ a <= n /\ data[a] \in Digits /\ data[a] # "0"
    BY <1>3, <1>5, <1>6, <1>8 DEF Unsigned
  <2>2. r.ok /\ r.end.i = DigitsEnd(data, t).i
    BY <2>1 DEF Good
  <2>3. Stop(data, a, DigitsEnd(data, t).i)
    <3>1. t.i \in 1..(Len(data) + 1)
      BY <1>2, <1>4 DEF n
    <3> QED BY <1>2, <3>1, DigitsStop
  <2>4. a < DigitsEnd(data, t).i
    <3> DEFINE e == DigitsEnd(data, t).i
    <3>1. Stop(data, a, e)
      BY <2>3
    <3> HIDE DEF e
    <3>2. e \in a..(n + 1) /\ (e <= n => data[e] \notin Digits)
      BY <3>1 DEF Stop, n
    <3>3. a < e
      BY <1>1, <1>4, <2>1, <3>2
    <3> QED BY <3>3 DEF e
  <2> QED BY <2>1, <2>2, <2>3, <2>4 DEF IntEnd, r, a, k
<1>9. CASE Here(data, t) \notin Digits
  <2>1. r = Bad(t)
    BY <1>3, <1>6, <1>9 DEF Unsigned
  <2>2. ~ r.ok /\ (a <= n => data[a] \notin Digits)
    BY <1>5, <1>9, <2>1 DEF Bad
  <2> QED BY <2>2 DEF r, a, k, n
<1> QED BY <1>7, <1>8, <1>9

LEMMA FractionScan ==
  ASSUME NEW data \in Seq(Symbols), NEW r, r.ok, r.end.i \in 1..(Len(data) + 1)
  PROVE  LET q == Fraction(data, r)
             f == r.end.i
         IN \/ q.ok /\ FracEnd(data, f, q.end.i)
            \/ /\ ~ q.ok /\ f <= Len(data) /\ data[f] = "."
               /\ f + 1 <= Len(data) => data[f + 1] \notin Digits
<1> DEFINE n == Len(data)
           s == r.end
           f == s.i
           q == Fraction(data, r)
<1>1. f \in Nat /\ n \in Nat /\ f >= 1 /\ f <= n + 1
  BY LenProperties
<1>2. /\ Here(data, s) = IF f <= n THEN data[f] ELSE "end"
      /\ After(data, s) = IF f + 1 <= n THEN data[f + 1] ELSE "end"
      /\ Advance(data, s).i = f + 1
  BY Advances DEF Here, After, Symbol
<1>3. "end" \notin Digits
  BY DEF Digits
<1> HIDE DEF n, f, q
<1>4. CASE Here(data, s) # "."
  <2>1. q = r
    BY <1>4 DEF Fraction, q
  <2>2. FracEnd(data, f, f)
    BY <1>2, <1>4 DEF FracEnd, n
  <2> QED BY <2>1, <2>2 DEF f, q
<1>5. CASE Here(data, s) = "." /\ After(data, s) \notin Digits
  <2>1. q = Bad(Advance(data, s))
    BY <1>5 DEF Fraction, q
  <2>2. ~ q.ok /\ f <= n /\ data[f] = "." /\ (f + 1 <= n => data[f + 1] \notin Digits)
    BY <1>2, <1>5, <2>1 DEF Bad
  <2> QED BY <2>2 DEF f, q, n
<1>6. CASE Here(data, s) = "." /\ After(data, s) \in Digits
  <2> DEFINE u == Advance(data, s)
             e == DigitsEnd(data, u).i
  <2>1. q = Good(DigitsEnd(data, u))
    BY <1>6 DEF Fraction, q
  <2>2. q.ok /\ q.end.i = e
    BY <2>1 DEF Good
  <2>3. f + 1 <= n /\ data[f] = "." /\ data[f + 1] \in Digits /\ u.i = f + 1
    BY <1>1, <1>2, <1>3, <1>6
  <2>4. u.i \in 1..(Len(data) + 1)
    BY <1>1, <2>3 DEF n
  <2>5. Stop(data, f + 1, e)
    BY <2>3, <2>4, DigitsStop
  <2> HIDE DEF u, e
  <2>6. f + 1 < e
    <3>1. e \in (f + 1)..(n + 1) /\ (e <= n => data[e] \notin Digits)
      BY <2>5 DEF Stop, n
    <3> QED BY <1>1, <2>3, <3>1
  <2>7. FracEnd(data, f, e)
    BY <1>1, <2>3, <2>5, <2>6 DEF FracEnd, n
  <2> QED BY <2>2, <2>7 DEF f, q
<1> QED BY <1>4, <1>5, <1>6

LEMMA ExponentScan ==
  ASSUME NEW data \in Seq(Symbols), NEW r, r.ok, r.end.i \in 1..(Len(data) + 1)
  PROVE  LET q == Exponent(data, r)
             e == r.end.i
         IN \/ q.ok /\ ExpEnd(data, e, q.end.i)
            \/ /\ ~ q.ok /\ e <= Len(data) /\ data[e] = "e"
               /\ \E t \in {e + 1, e + 2} : SignEnds(data, e, t) /\ (t <= Len(data) => data[t] \notin Digits)
<1> DEFINE n == Len(data)
           s == r.end
           e == s.i
           q == Exponent(data, r)
           u == Advance(data, s)
           v == Sign(data, u)
           t == v.i
<1>1. e \in Nat /\ n \in Nat /\ e >= 1 /\ e <= n + 1
  BY LenProperties
<1>2. Here(data, s) = IF e <= n THEN data[e] ELSE "end"
  BY DEF Here, Symbol
<1>3. u.i = e + 1
  BY Advances
<1> HIDE DEF u
<1>4. t = IF Here(data, u) \in {"+", "-"} THEN e + 2 ELSE e + 1
  <2>1. Advance(data, u).i = u.i + 1
    BY Advances
  <2>2. t = IF Here(data, u) \in {"+", "-"} THEN u.i + 1 ELSE u.i
    BY <2>1 DEF Sign
  <2> QED BY <1>1, <1>3, <2>2
<1> HIDE DEF n, e, q, v
<1>5. Here(data, u) = IF e + 1 <= n THEN data[e + 1] ELSE "end"
  BY <1>3 DEF Here, Symbol, n
<1>6. SignEnds(data, e, t) /\ t \in {e + 1, e + 2}
  BY <1>4, <1>5 DEF SignEnds, n
<1>7. Here(data, v) = IF t <= n THEN data[t] ELSE "end"
  BY DEF Here, Symbol, n
<1>8. "end" \notin Digits
  BY DEF Digits
<1> HIDE DEF t
<1>9. CASE Here(data, s) # "e"
  <2>1. q = r
    BY <1>9 DEF Exponent, q
  <2>2. ExpEnd(data, e, e)
    BY <1>2, <1>9 DEF ExpEnd, n
  <2> QED BY <2>1, <2>2 DEF e, q
<1>10. CASE Here(data, s) = "e" /\ Here(data, v) \notin Digits
  <2>1. q = Bad(v)
    BY <1>10 DEF Exponent, Power, q, u, v
  <2>2. ~ q.ok /\ e <= n /\ data[e] = "e" /\ (t <= n => data[t] \notin Digits)
    BY <1>2, <1>7, <1>10, <2>1 DEF Bad
  <2> QED BY <1>6, <2>2 DEF e, q, n
<1>11. CASE Here(data, s) = "e" /\ Here(data, v) \in Digits
  <2> DEFINE x == DigitsEnd(data, v).i
  <2>1. q = Good(DigitsEnd(data, v))
    BY <1>11 DEF Exponent, Power, q, u, v
  <2>2. q.ok /\ q.end.i = x
    BY <2>1 DEF Good
  <2>3. t <= n /\ data[t] \in Digits /\ e <= n /\ data[e] = "e"
    BY <1>2, <1>7, <1>8, <1>11
  <2>4. v.i \in 1..(Len(data) + 1) /\ v.i = t /\ t \in Nat
    BY <1>1, <1>6, <2>3 DEF n, t
  <2>5. Stop(data, t, x)
    BY <2>4, DigitsStop
  <2> HIDE DEF x
  <2>6. t < x
    <3>1. x \in t..(n + 1) /\ (x <= n => data[x] \notin Digits)
      BY <2>5 DEF Stop, n
    <3> QED BY <1>1, <2>3, <2>4, <3>1
  <2>7. ExpEnd(data, e, x)
    BY <1>6, <2>3, <2>5, <2>6 DEF ExpEnd, n
  <2> QED BY <2>2, <2>7 DEF e, q
<1> QED BY <1>9, <1>10, <1>11

(* Where a number begins that may have a sign. *)
Unsign(data, k) == IF data[k] = "-" THEN k + 1 ELSE k

LEMMA NoDigits ==
  {"-", "+", ".", "e"} \cap Digits = {}
BY DEF Digits

LEMMA RunStops ==
  ASSUME NEW data, Len(data) \in Nat, NEW i \in Nat, NEW e \in Nat, NEW j \in Int, Stop(data, i, e), Run(data, i, j), j <= Len(data)
  PROVE  j < e /\ (j + 1 < e => data[j + 1] \in Digits)
BY DEF Stop, Run

LEMMA NumberParts ==
  ASSUME NEW data, NEW k \in Nat, NEW j \in Nat, IsNumber(data, k, j)
  PROVE  \E f, e \in Unsign(data, k)..(j + 1) :
           Unsign(data, k) < f /\ f <= e /\ IsInt(data, Unsign(data, k), f - 1) /\ IsFrac(data, f, e - 1) /\ IsExp(data, e, j)
<1>1. PICK s \in {k, k + 1}, f \in k..(j + 1), e \in k..(j + 1) :
        (s = k + 1 => data[k] = "-") /\ IsInt(data, s, f - 1) /\ IsFrac(data, f, e - 1) /\ IsExp(data, e, j)
  BY DEF IsNumber
<1>2. s <= f - 1 /\ data[s] \in Digits
  BY <1>1 DEF IsInt, Run
<1>3. s = Unsign(data, k)
  BY <1>1, <1>2, NoDigits DEF Unsign
<1>4. f <= e
  BY <1>1 DEF IsFrac
<1>5. s < f /\ f \in s..(j + 1) /\ e \in s..(j + 1)
  BY <1>1, <1>2, <1>4
<1> QED BY <1>1, <1>3, <1>4, <1>5

LEMMA PartsNumber ==
  ASSUME NEW data, NEW k \in Nat, NEW j \in Nat, k <= j, NEW f \in Nat, NEW e \in Nat,
         Unsign(data, k) < f, f <= e, e <= j + 1, IsInt(data, Unsign(data, k), f - 1), IsFrac(data, f, e - 1), IsExp(data, e, j)
  PROVE  IsNumber(data, k, j)
<1>1. Unsign(data, k) \in {k, k + 1} /\ (Unsign(data, k) = k + 1 => data[k] = "-")
  BY DEF Unsign
<1>2. f \in k..(j + 1) /\ e \in k..(j + 1)
  BY <1>1
<1> QED BY <1>1, <1>2 DEF IsNumber

(* The integer: what a number that goes on from its end is. *)
LEMMA IntBound ==
  ASSUME NEW data, Len(data) \in Nat, NEW k \in 1..Len(data), NEW g \in Nat, IntEnd(data, Unsign(data, k), g)
  PROVE  /\ k <= g - 1 /\ g <= Len(data) + 1 /\ IsInt(data, Unsign(data, k), g - 1) /\ IsNumber(data, k, g - 1)
         /\ \A q \in k..(g - 1) : data[q] \notin {".", "e"}
         /\ g <= Len(data) => data[g] \notin Digits
         /\ \A j \in k..Len(data) : IsNumber(data, k, j) =>
              \/ j < g - 1
              \/ \E e \in g..(j + 1) : IsFrac(data, g, e - 1) /\ IsExp(data, e, j)
<1> DEFINE a == Unsign(data, k)
           n == Len(data)
<1>1. k \in Nat /\ n \in Nat /\ a \in {k, k + 1} /\ (a = k + 1 => data[k] = "-") /\ k >= 1 /\ k <= n
  BY DEF Unsign
<1> HIDE DEF a
<1>2. /\ a < g /\ Stop(data, a, g) /\ (data[a] = "0" => g = a + 1)
      /\ \A q \in a..(g - 1) : data[q] \in Digits
      /\ g <= n + 1 /\ (g <= n => data[g] \notin Digits)
  BY DEF IntEnd, Stop, a
<1>3. IsInt(data, a, g - 1)
  BY <1>1, <1>2 DEF IsInt, Run
<1>4. IsNumber(data, k, g - 1)
  <2>1. IsFrac(data, g, g - 1) /\ IsExp(data, g, g - 1) /\ g - 1 \in Nat /\ k <= g - 1 /\ g <= g - 1 + 1
    BY <1>1, <1>2 DEF IsFrac, IsExp
  <2> QED BY <1>1, <1>2, <1>3, <2>1, PartsNumber DEF a
<1>5. \A q \in k..(g - 1) : data[q] \notin {".", "e"}
  <2>1. \A q \in k..(g - 1) : q \in a..(g - 1) \/ data[q] = "-"
    BY <1>1, <1>2
  <2> QED BY <1>2, <2>1, NoDigits
<1>6. ASSUME NEW j \in k..n, IsNumber(data, k, j), ~ (j < g - 1)
      PROVE  \E e \in g..(j + 1) : IsFrac(data, g, e - 1) /\ IsExp(data, e, j)
  <2>1. j \in Nat
    BY <1>1
  <2>2. PICK f \in a..(j + 1), e \in a..(j + 1) :
          a < f /\ f <= e /\ IsInt(data, a, f - 1) /\ IsFrac(data, f, e - 1) /\ IsExp(data, e, j)
    BY <1>1, <1>6, <2>1, NumberParts DEF a
  <2>3. f - 1 < g /\ (f < g => data[f] \in Digits)
    <3>1. Run(data, a, f - 1) /\ f - 1 \in Int /\ f - 1 <= n /\ f - 1 + 1 = f
      BY <1>1, <1>6, <2>2 DEF IsInt
    <3> QED BY <1>1, <1>2, <3>1, RunStops
  <2>4. f = g
    <3> SUFFICES ASSUME f < g PROVE FALSE
      BY <1>1, <2>2, <2>3
    <3>1. data[f] \notin {".", "e"}
      BY <2>3, NoDigits
    <3>2. e = f
      BY <1>1, <2>2, <3>1 DEF IsFrac
    <3>3. j = f - 1
      BY <1>1, <2>2, <3>1, <3>2 DEF IsExp
    <3> QED BY <1>1, <1>6, <2>2, <3>3
  <2>5. e \in g..(j + 1)
    BY <1>1, <2>2, <2>4
  <2> QED BY <2>2, <2>4, <2>5
<1>7. k <= g - 1
  BY <1>1, <1>2
<1> QED BY <1>2, <1>3, <1>4, <1>5, <1>6, <1>7 DEF a

(* The fraction. *)
LEMMA FracBound ==
  ASSUME NEW data, Len(data) \in Nat, NEW k \in 1..Len(data), NEW f \in Nat, NEW g \in Nat,
         IntEnd(data, Unsign(data, k), f), FracEnd(data, f, g)
  PROVE  /\ f <= g /\ g <= Len(data) + 1 /\ IsFrac(data, f, g - 1) /\ IsNumber(data, k, g - 1)
         /\ \A q \in k..(g - 1) : data[q] # "e"
         /\ g <= Len(data) => data[g] \notin Digits /\ (data[g] = "." => data[f] = "." /\ f < g)
         /\ \A j \in k..Len(data) : IsNumber(data, k, j) => j < g - 1 \/ (g <= j + 1 /\ IsExp(data, g, j))
<1> DEFINE n == Len(data)
<1>1. k \in Nat /\ n \in Nat /\ k >= 1 /\ k <= n
  OBVIOUS
<1>2. /\ k <= f - 1 /\ f <= n + 1 /\ IsInt(data, Unsign(data, k), f - 1) /\ IsNumber(data, k, f - 1)
      /\ \A q \in k..(f - 1) : data[q] \notin {".", "e"}
      /\ f <= n => data[f] \notin Digits
  BY IntBound
<1>3. \A j \in k..n : IsNumber(data, k, j) =>
        \/ j < f - 1
        \/ \E e \in f..(j + 1) : IsFrac(data, f, e - 1) /\ IsExp(data, e, j)
  BY IntBound
<1>4. Unsign(data, k) < f
  BY DEF IntEnd
<1>5. CASE g = f /\ (f <= n => data[f] # ".")
  <2>1. IsFrac(data, f, g - 1)
    BY <1>5 DEF IsFrac
  <2>2. ASSUME NEW j \in k..n, IsNumber(data, k, j), ~ (j < f - 1) PROVE f <= j + 1 /\ IsExp(data, f, j)
    <3>1. PICK e \in f..(j + 1) : IsFrac(data, f, e - 1) /\ IsExp(data, e, j)
      BY <1>3, <2>2
    <3>2. e = f
      BY <1>1, <1>2, <1>5, <3>1 DEF IsFrac
    <3> QED BY <1>1, <3>1, <3>2
  <2> QED BY <1>2, <1>5, <2>1, <2>2
<1>6. CASE f + 1 < g /\ f <= n /\ data[f] = "." /\ Stop(data, f + 1, g)
  <2>1. /\ g <= n + 1 /\ (g <= n => data[g] \notin Digits)
        /\ \A q \in (f + 1)..(g - 1) : data[q] \in Digits
    BY <1>6 DEF Stop
  <2>2. IsFrac(data, f, g - 1)
    BY <1>1, <1>6, <2>1 DEF IsFrac, Run
  <2>3. IsNumber(data, k, g - 1)
    <3>1. IsExp(data, g, g - 1) /\ g - 1 \in Nat /\ k <= g - 1 /\ f <= g /\ g <= g - 1 + 1
      BY <1>1, <1>2, <1>6 DEF IsExp
    <3> QED BY <1>1, <1>2, <1>4, <2>2, <3>1, PartsNumber
  <2>4. \A q \in k..(g - 1) : data[q] # "e"
    <3>1. \A q \in k..(g - 1) : q \in k..(f - 1) \/ q = f \/ q \in (f + 1)..(g - 1)
      BY <1>1, <1>2, <1>6
    <3> QED BY <1>2, <1>6, <2>1, <3>1, NoDigits
  <2>5. ASSUME NEW j \in k..n, IsNumber(data, k, j), ~ (j < g - 1) PROVE g <= j + 1 /\ IsExp(data, g, j)
    <3>1. PICK e \in f..(j + 1) : IsFrac(data, f, e - 1) /\ IsExp(data, e, j)
      BY <1>1, <1>2, <1>3, <1>6, <2>5
    <3>2. e # f
      <4> SUFFICES ASSUME e = f PROVE FALSE
        OBVIOUS
      <4>1. j = f - 1
        BY <1>1, <1>2, <1>6, <3>1 DEF IsExp
      <4> QED BY <1>1, <1>2, <1>6, <2>5, <4>1
    <3>3. f < e - 1 /\ Run(data, f + 1, e - 1)
      BY <1>1, <1>2, <3>1, <3>2 DEF IsFrac
    <3>4. e - 1 < g /\ (e < g => data[e] \in Digits)
      <4>1. f + 1 \in Nat /\ e - 1 \in Int /\ e - 1 <= n /\ e - 1 + 1 = e
        BY <1>1, <1>2, <3>1
      <4> QED BY <1>1, <1>6, <3>3, <4>1, RunStops
    <3>5. e = g
      <4> SUFFICES ASSUME e < g PROVE FALSE
        BY <1>1, <1>2, <3>1, <3>4
      <4>1. data[e] # "e"
        BY <3>4, NoDigits
      <4>2. j = e - 1
        BY <1>1, <1>2, <3>1, <4>1 DEF IsExp
      <4> QED BY <1>1, <1>2, <2>5, <3>1, <4>2
    <3> QED BY <1>1, <1>2, <3>1, <3>5
  <2> QED BY <1>1, <1>2, <1>6, <2>1, <2>2, <2>3, <2>4, <2>5
<1> QED BY <1>5, <1>6 DEF FracEnd

(* The exponent, with which a number ends. *)
LEMMA ExpBound ==
  ASSUME NEW data, Len(data) \in Nat, NEW k \in 1..Len(data), NEW f \in Nat, NEW e \in Nat, NEW g \in Nat,
         IntEnd(data, Unsign(data, k), f), FracEnd(data, f, e), ExpEnd(data, e, g)
  PROVE  k <= g - 1 /\ g <= Len(data) + 1 /\ Longest(data, k, g - 1) /\ ~ Continued(data, k, g - 1)
<1> DEFINE n == Len(data)
<1>1. k \in Nat /\ n \in Nat /\ k >= 1 /\ k <= n
  OBVIOUS
<1>2. /\ f <= e /\ e <= n + 1 /\ IsFrac(data, f, e - 1) /\ IsNumber(data, k, e - 1)
      /\ e <= n => data[e] \notin Digits /\ (data[e] = "." => data[f] = "." /\ f < e)
  BY FracBound
<1>3. \A j \in k..n : IsNumber(data, k, j) => j < e - 1 \/ (e <= j + 1 /\ IsExp(data, e, j))
  BY FracBound
<1>4. Unsign(data, k) < f /\ k <= f - 1 /\ IsInt(data, Unsign(data, k), f - 1)
  BY IntBound DEF IntEnd
<1>5. CASE g = e /\ (e <= n => data[e] # "e")
  <2>1. \A j \in e..n : ~ IsNumber(data, k, j)
    <3> SUFFICES ASSUME NEW j \in e..n, IsNumber(data, k, j) PROVE FALSE
      OBVIOUS
    <3>1. IsExp(data, e, j)
      BY <1>1, <1>2, <1>3, <1>4
    <3> QED BY <1>1, <1>2, <1>5, <3>1 DEF IsExp
  <2>2. e - 1 + 1 = e /\ g = e /\ k <= e - 1
    BY <1>1, <1>2, <1>4, <1>5
  <2>3. Longest(data, k, e - 1)
    BY <1>2, <2>1, <2>2 DEF Longest
  <2>4. ~ Continued(data, k, e - 1)
    <3>1. e <= n /\ data[e] = "." => f \in k..(e - 1) /\ data[f] = "."
      BY <1>1, <1>2, <1>4
    <3>2. e - 1 < n => e <= n
      BY <1>1, <1>2
    <3> QED BY <1>2, <1>5, <2>2, <3>1, <3>2 DEF Continued
  <2> QED BY <1>2, <2>2, <2>3, <2>4
<1>6. CASE /\ e <= n /\ data[e] = "e"
           /\ \E t \in {e + 1, e + 2} : SignEnds(data, e, t) /\ t < g /\ Stop(data, t, g)
  <2>1. PICK t \in {e + 1, e + 2} : SignEnds(data, e, t) /\ t < g /\ Stop(data, t, g)
    BY <1>6
  <2>2. /\ g <= n + 1 /\ (g <= n => data[g] \notin Digits)
        /\ \A q \in t..(g - 1) : data[q] \in Digits
        /\ e < t /\ t \in Nat
    BY <2>1 DEF Stop
  <2>3. IsExp(data, e, g - 1)
    <3>1. Run(data, t, g - 1)
      BY <1>1, <2>1, <2>2 DEF Run
    <3>2. t = e + 2 => data[e + 1] \in {"+", "-"}
      BY <2>1 DEF SignEnds
    <3> QED BY <1>6, <2>1, <2>2, <3>1, <3>2 DEF IsExp
  <2>4. IsNumber(data, k, g - 1)
    <3>1. g - 1 \in Nat /\ k <= g - 1 /\ e <= g - 1 + 1
      BY <1>1, <1>2, <1>4, <2>1, <2>2
    <3> QED BY <1>1, <1>2, <1>4, <2>3, <3>1, PartsNumber
  <2>5. ASSUME NEW j \in g..n, IsNumber(data, k, j) PROVE FALSE
    <3>1. IsExp(data, e, j) /\ j # e - 1
      BY <1>1, <1>2, <1>3, <1>4, <2>1, <2>2, <2>5
    <3>2. \/ Run(data, e + 1, j)
          \/ data[e + 1] \in {"+", "-"} /\ Run(data, e + 2, j)
      BY <3>1 DEF IsExp
    <3>3. Run(data, t, j)
      <4>1. CASE t = e + 1
        <5>1. ~ (e + 1 <= n /\ data[e + 1] \in {"+", "-"})
          BY <2>1, <4>1 DEF SignEnds
        <5>2. e + 1 <= n
          BY <1>1, <2>1, <2>2, <2>5
        <5> QED BY <3>2, <4>1, <5>1, <5>2
      <4>2. CASE t = e + 2
        <5>1. data[e + 1] \in {"+", "-"}
          BY <2>1, <4>2 DEF SignEnds
        <5>2. "+" \notin Digits /\ "-" \notin Digits
          BY DEF Digits
        <5>3. ~ Run(data, e + 1, j)
          BY <5>1, <5>2 DEF Run
        <5> QED BY <3>2, <4>2, <5>3
      <4> QED BY <2>1, <4>1, <4>2
    <3>4. j < g
      <4>1. j \in Int /\ j <= n
        BY <1>1
      <4> QED BY <2>1, <2>2, <3>3, <4>1, RunStops
    <3> QED BY <1>1, <3>4
  <2>6. g - 1 + 1 = g /\ k <= g - 1 /\ e \in k..(g - 1)
    BY <1>1, <1>2, <1>4, <2>1, <2>2
  <2>7. Longest(data, k, g - 1)
    BY <2>4, <2>5, <2>6 DEF Longest
  <2>8. ~ Continued(data, k, g - 1)
    <3>1. g - 1 < n => g <= n
      BY <1>1
    <3> QED BY <1>6, <2>2, <2>6, <3>1 DEF Continued
  <2> QED BY <2>2, <2>6, <2>7, <2>8
<1> QED BY <1>5, <1>6 DEF ExpEnd

(* Where the scanner fails, a number is cut. *)
Cut(data, k) == \A j \in k..Len(data) : Longest(data, k, j) => Continued(data, k, j)

LEMMA IntFails ==
  ASSUME NEW data, Len(data) \in Nat, NEW k \in 1..Len(data),
         \/ Unsign(data, k) <= Len(data) => data[Unsign(data, k)] \notin Digits
         \/ /\ Unsign(data, k) < Len(data) /\ data[Unsign(data, k)] = "0" /\ data[Unsign(data, k) + 1] \in Digits
  PROVE  Cut(data, k)
<1> DEFINE a == Unsign(data, k)
           n == Len(data)
<1> SUFFICES ASSUME NEW j \in k..n, IsNumber(data, k, j) PROVE Continued(data, k, j)
  BY DEF Cut, Longest
<1>1. k \in Nat /\ n \in Nat /\ j \in Nat /\ a \in {k, k + 1} /\ k >= 1 /\ j <= n
  BY DEF Unsign
<1> HIDE DEF a
<1>2. PICK f \in a..(j + 1), e \in a..(j + 1) :
        a < f /\ f <= e /\ IsInt(data, a, f - 1) /\ IsFrac(data, f, e - 1) /\ IsExp(data, e, j)
  BY <1>1, NumberParts DEF a
<1>3. data[a] \in Digits /\ a <= n /\ (data[a] = "0" => f = a + 1)
  BY <1>1, <1>2 DEF IsInt, Run
<1>4. a < n /\ data[a + 1] \in Digits /\ f = a + 1
  BY <1>3 DEF a
<1>5. data[a + 1] \notin {".", "e"}
  BY <1>4, NoDigits
<1>6. e = f
  BY <1>1, <1>2, <1>4, <1>5 DEF IsFrac
<1>7. j = a
  BY <1>1, <1>2, <1>4, <1>5, <1>6 DEF IsExp
<1> QED BY <1>4, <1>7 DEF Continued

LEMMA FracFails ==
  ASSUME NEW data, Len(data) \in Nat, NEW k \in 1..Len(data), NEW f \in Nat, IntEnd(data, Unsign(data, k), f),
         f <= Len(data), data[f] = ".", f + 1 <= Len(data) => data[f + 1] \notin Digits
  PROVE  Cut(data, k)
<1> DEFINE n == Len(data)
<1> SUFFICES ASSUME NEW j \in k..n, Longest(data, k, j) PROVE Continued(data, k, j)
  BY DEF Cut
<1>1. k \in Nat /\ n \in Nat /\ j \in Nat /\ k >= 1 /\ j <= n
  OBVIOUS
<1>2. /\ k <= f - 1 /\ f <= n + 1 /\ IsNumber(data, k, f - 1)
      /\ \A q \in k..(f - 1) : data[q] \notin {".", "e"}
      /\ \/ j < f - 1
         \/ \E e \in f..(j + 1) : IsFrac(data, f, e - 1) /\ IsExp(data, e, j)
  BY IntBound DEF Longest
<1>3. ~ (j < f - 1)
  <2>1. j < f - 1 => f - 1 \in (j + 1)..n
    BY <1>1, <1>2
  <2> QED BY <1>2, <2>1 DEF Longest
<1>4. PICK e \in f..(j + 1) : IsFrac(data, f, e - 1) /\ IsExp(data, e, j)
  BY <1>2, <1>3
<1>5. e = f
  <2> SUFFICES ASSUME e # f PROVE FALSE
    OBVIOUS
  <2>1. f + 1 <= e - 1 /\ data[f + 1] \in Digits
    BY <1>1, <1>4 DEF IsFrac, Run
  <2> QED BY <1>1, <1>4, <2>1
<1>6. j = f - 1
  BY <1>1, <1>4, <1>5 DEF IsExp
<1> QED BY <1>1, <1>2, <1>6 DEF Continued

LEMMA ExpFails ==
  ASSUME NEW data, Len(data) \in Nat, NEW k \in 1..Len(data), NEW f \in Nat, NEW e \in Nat,
         IntEnd(data, Unsign(data, k), f), FracEnd(data, f, e), e <= Len(data), data[e] = "e",
         NEW t \in {e + 1, e + 2}, SignEnds(data, e, t), t <= Len(data) => data[t] \notin Digits
  PROVE  Cut(data, k)
<1> DEFINE n == Len(data)
<1> SUFFICES ASSUME NEW j \in k..n, Longest(data, k, j) PROVE Continued(data, k, j)
  BY DEF Cut
<1>1. k \in Nat /\ n \in Nat /\ j \in Nat /\ k >= 1 /\ j <= n
  OBVIOUS
<1>2. /\ f <= e /\ IsNumber(data, k, e - 1) /\ k <= f - 1
      /\ \A q \in k..(e - 1) : data[q] # "e"
      /\ j < e - 1 \/ (e <= j + 1 /\ IsExp(data, e, j))
  BY FracBound, IntBound DEF Longest
<1>3. ~ (j < e - 1)
  <2>1. j < e - 1 => e - 1 \in (j + 1)..n
    BY <1>1, <1>2
  <2> QED BY <1>2, <2>1 DEF Longest
<1>4. j = e - 1
  <2> SUFFICES ASSUME j # e - 1 PROVE FALSE
    OBVIOUS
  <2>1. \/ Run(data, e + 1, j)
        \/ data[e + 1] \in {"+", "-"} /\ Run(data, e + 2, j)
    BY <1>2, <1>3 DEF IsExp
  <2>2. "+" \notin Digits /\ "-" \notin Digits
    BY DEF Digits
  <2>3. CASE Run(data, e + 1, j)
    <3>1. e + 1 <= n /\ data[e + 1] \in Digits
      BY <1>1, <2>3 DEF Run
    <3>2. t = e + 1
      BY <2>2, <3>1 DEF SignEnds
    <3> QED BY <3>1, <3>2
  <2>4. CASE data[e + 1] \in {"+", "-"} /\ Run(data, e + 2, j)
    <3>1. e + 2 <= n /\ data[e + 2] \in Digits
      BY <1>1, <2>4 DEF Run
    <3>2. t = e + 2
      BY <2>4, <3>1 DEF SignEnds
    <3> QED BY <3>1, <3>2
  <2> QED BY <2>1, <2>3, <2>4
<1> QED BY <1>1, <1>2, <1>4 DEF Continued

(* What scanNumber() returns. *)
Counts(data, k, r) ==
  \/ /\ r.kind = "number" /\ r.from = k /\ r.to \in k..Len(data) /\ r.end.i = r.to + 1
     /\ Longest(data, k, r.to) /\ ~ Continued(data, k, r.to) /\ r.data = SubSeq(data, k, r.to)
  \/ r.kind = "error" /\ r.code = "EInvalidNumber" /\ Cut(data, k)

LEMMA NumberScan ==
  ASSUME NEW data \in Seq(Symbols), NEW s, s.i \in 1..Len(data)
  PROVE  Counts(data, s.i, ScanNumber(data, s))
<1> DEFINE n == Len(data)
           k == s.i
           a == Unsign(data, k)
           r == Integer(data, s)
           q == Fraction(data, r)
           x == Exponent(data, q)
           v == ScanNumber(data, s)
<1>1. n \in Nat /\ k \in Nat /\ k \in 1..n
  BY LenProperties
<1>2. v = Number(data, s, x)
  BY DEF ScanNumber
<1> DEFINE f == r.end.i
           e == q.end.i
           g == x.end.i
<1>3. \/ r.ok /\ IntEnd(data, a, f)
      \/ ~ r.ok /\ (a <= n => data[a] \notin Digits)
      \/ ~ r.ok /\ a < n /\ data[a] = "0" /\ data[a + 1] \in Digits
  BY IntegerScan DEF Unsign
<1>4. ~ r.ok => q = r
  BY DEF Fraction
<1>5. ~ q.ok => x = q
  BY DEF Exponent
<1>6. ASSUME r.ok
      PROVE  \/ q.ok /\ FracEnd(data, f, e)
             \/ /\ ~ q.ok /\ f <= n /\ data[f] = "."
                /\ f + 1 <= n => data[f + 1] \notin Digits
  <2>1. f \in 1..(n + 1)
    <3>1. IntEnd(data, a, f) /\ a \in {k, k + 1}
      BY <1>3, <1>6 DEF Unsign
    <3> HIDE DEF a, f
    <3> QED BY <1>1, <3>1 DEF IntEnd, Stop
  <2> QED BY <1>6, <2>1, FractionScan
<1>7. ASSUME r.ok, q.ok
      PROVE  \/ x.ok /\ ExpEnd(data, e, g)
             \/ /\ ~ x.ok /\ e <= n /\ data[e] = "e"
                /\ \E t \in {e + 1, e + 2} : SignEnds(data, e, t) /\ (t <= n => data[t] \notin Digits)
  <2>1. e \in 1..(n + 1)
    <3>1. IntEnd(data, a, f) /\ FracEnd(data, f, e) /\ a \in {k, k + 1}
      BY <1>3, <1>6, <1>7 DEF Unsign
    <3> HIDE DEF a, f, e
    <3> QED BY <1>1, <3>1 DEF IntEnd, FracEnd, Stop
  <2> QED BY <1>7, <2>1, ExponentScan
<1>8. ASSUME ~ x.ok PROVE v.kind = "error" /\ v.code = "EInvalidNumber"
  BY <1>2, <1>8 DEF Number, Error
<1>9. ASSUME x.ok
      PROVE  /\ v.kind = "number" /\ v.from = k /\ v.to = g - 1 /\ v.end = x.end
             /\ v.data = SubSeq(data, k, g - 1)
  <2> HIDE DEF x, v
  <2>1. v = Token("number", SubSeq(data, k, g - 1), s, x.end)
    BY <1>2, <1>9 DEF Number
  <2> DEFINE d == SubSeq(data, k, g - 1)
  <2> HIDE DEF d, g
  <2>2. v = Token("number", d, s, x.end) /\ g = x.end.i
    BY <2>1 DEF d, g
  <2>3. /\ v.kind = "number" /\ v.from = s.i /\ v.to = x.end.i - 1 /\ v.end = x.end
        /\ v.data = d
    BY ONLY <2>2 DEF Token
  <2> QED BY <2>2, <2>3 DEF d
<1> HIDE DEF a, r, q, x, v, f, e, g
<1>10. CASE ~ r.ok
  <2>1. ~ x.ok
    BY <1>4, <1>5, <1>10
  <2>2. Cut(data, k)
    BY <1>1, <1>3, <1>10, IntFails DEF a
  <2> QED BY <1>8, <2>1, <2>2 DEF Counts, v
<1>11. CASE r.ok /\ ~ q.ok
  <2>1. ~ x.ok
    BY <1>5, <1>11
  <2>2. Cut(data, k)
    <3>1. IntEnd(data, a, f) /\ f \in Nat
      <4>1. IntEnd(data, a, f) /\ a \in {k, k + 1}
        BY <1>3, <1>11 DEF a, Unsign
      <4> QED BY <1>1, <4>1 DEF IntEnd, Stop
    <3> QED BY <1>1, <1>6, <1>11, <3>1, FracFails DEF a
  <2> QED BY <1>8, <2>1, <2>2 DEF Counts, v
<1>12. CASE r.ok /\ q.ok
  <2>1. IntEnd(data, a, f) /\ f \in Nat /\ FracEnd(data, f, e) /\ e \in Nat
    <3>1. IntEnd(data, a, f) /\ FracEnd(data, f, e) /\ a \in {k, k + 1}
      BY <1>3, <1>6, <1>12 DEF a, Unsign
    <3> QED BY <1>1, <3>1 DEF IntEnd, FracEnd, Stop
  <2>2. CASE ~ x.ok
    <3>1. Cut(data, k)
      BY <1>1, <1>7, <1>12, <2>1, <2>2, ExpFails DEF a
    <3> QED BY <1>8, <2>2, <3>1 DEF Counts, v
  <2>3. CASE x.ok
    <3>1. ExpEnd(data, e, g)
      BY <1>7, <1>12, <2>3
    <3>2. g \in Nat
      BY <1>1, <2>1, <3>1 DEF ExpEnd, Stop
    <3> DEFINE o == g - 1
    <3>3. k <= o /\ g <= n + 1 /\ Longest(data, k, o) /\ ~ Continued(data, k, o)
      BY <1>1, <2>1, <3>1, <3>2, ExpBound DEF a
    <3>4. o \in k..n /\ g = o + 1
      BY <1>1, <3>2, <3>3
    <3>5. v.end.i = g
      BY <1>9, <2>3 DEF g
    <3> QED BY <1>9, <2>3, <3>3, <3>4, <3>5 DEF Counts, v
  <2> QED BY <2>2, <2>3
<1> QED BY <1>10, <1>11, <1>12

-----------------------------------------------------------------------------
(* Next().  A token is what it should be. *)
IsToken(data, t) ==
  /\ t.kind \in Punctuation \cup Literals \cup {"number", "string"}
  /\ t.from \in Nat /\ t.to \in t.from..Len(data)
  /\ t.kind \in Punctuation \cup Literals =>
       /\ t.from = t.to /\ data[t.from] = t.kind
       /\ t.data = IF t.kind \in Literals THEN <<t.kind>> ELSE <<>>
  /\ t.kind = "number" => /\ Longest(data, t.from, t.to) /\ ~ Continued(data, t.from, t.to)
                          /\ t.data = SubSeq(data, t.from, t.to)
  /\ t.kind = "string" => /\ t.from < t.to /\ data[t.from] = Quote /\ data[t.to] = Quote
                          /\ Means(data, t.from + 1, t.to - 1, t.data) /\ t.data \in Seq(Symbols)

(* What can be no token begins at k. *)
NoToken(data, k, code) ==
  /\ data[k] \notin Punctuation \cup Literals
  /\ code = "EInvalidNumber" <=> data[k] \in Digits \cup {"-", "0041"}
  /\ Cut(data, k)
  /\ data[k] = Quote => \A m \in (k + 1)..Len(data) : data[m] = Quote => ~ IsText(data, k + 1, m - 1)

(* The three outcomes of a scan that begins at k. *)
Yields(data, k, t) ==
  \/ t.kind = "EOF" /\ k = Len(data) + 1 /\ t.end.i = k
  \/ /\ t.kind \notin {"EOF", "error"} /\ k <= Len(data)
     /\ t.from = k /\ t.end.i = t.to + 1 /\ IsToken(data, t)
  \/ t.kind = "error" /\ k <= Len(data) /\ NoToken(data, k, t.code)

LEMMA Kinds ==
  /\ "end" \notin Symbols
  /\ Quote \notin Punctuation \cup Literals \cup Digits \cup {"-", "0041"}
  /\ "/" \notin Punctuation \cup Literals \cup Digits \cup {"-", "0041", Quote}
  /\ (Punctuation \cup Literals) \cap (Digits \cup {"-", "0041", "EOF", "error", "string", "number"}) = {}
  /\ "-" \notin Digits /\ "0041" \notin Digits
<1>1. "end" \notin Symbols
  BY Zenon DEF Symbols, Punctuation, Literals, Digits, White, Controls, Runes, Invalid, Leads, Quads, Stands, Quote
<1>2. Quote \notin Punctuation \cup Literals \cup Digits \cup {"-", "0041"}
  BY Zenon DEF Punctuation, Literals, Digits, Quote
<1>3. "/" \notin Punctuation \cup Literals \cup Digits \cup {"-", "0041", Quote}
  BY Quotes DEF Punctuation, Literals, Digits
<1>4. (Punctuation \cup Literals) \cap (Digits \cup {"-", "0041", "EOF", "error", "string", "number"}) = {}
  BY DEF Punctuation, Literals, Digits
<1>5. "-" \notin Digits /\ "0041" \notin Digits
  BY DEF Digits
<1> QED BY <1>1, <1>2, <1>3, <1>4, <1>5

LEMMA NoNumber ==
  ASSUME NEW data, NEW k \in Nat, data[k] \notin Digits \cup {"-"}
  PROVE  Cut(data, k)
BY DEF Cut, Longest, IsNumber, IsInt, Run

LEMMA ScanOne ==
  ASSUME NEW data \in Seq(Symbols), NEW s, s.i \in 1..(Len(data) + 1)
  PROVE  Yields(data, s.i, Scan(data, s))
<1> DEFINE k == s.i
           n == Len(data)
           c == Here(data, s)
           v == Scan(data, s)
<1>1. n \in Nat /\ k \in Nat /\ k \in 1..(n + 1)
  BY LenProperties
<1>2. /\ k <= n => c = data[k] /\ data[k] \in Symbols
      /\ k = n + 1 => c = "end"
  BY <1>1, ElementOfSeq DEF Here, Symbol
<1>3. c = "end" <=> k = n + 1
  BY <1>1, <1>2, Kinds
<1>4. \/ c = "end" /\ v = [Token("EOF", <<>>, s, s) EXCEPT !.pos = s.pos]
      \/ c \in Punctuation /\ v = Token(c, <<>>, s, Advance(data, s))
      \/ c = Quote /\ v = ScanString(data, s)
      \/ c \in Literals /\ v = Token(c, <<c>>, s, Advance(data, s))
      \/ c \in Digits \cup {"-"} /\ v = ScanNumber(data, s)
      \/ c = "0041" /\ v = Error("EInvalidNumber", s.pos, OneByte(data, s))
      \/ /\ c \notin {"end", Quote, "-", "0041"} \cup Punctuation \cup Literals \cup Digits
         /\ v = Error("EIllegalChar", s.pos, s)
  <2> HIDE DEF k, n
  <2>1. v = LET w == Here(data, s) IN
            CASE w = "end" -> [Token("EOF", <<>>, s, s) EXCEPT !.pos = s.pos]
              [] w \in Punctuation -> Token(w, <<>>, s, Advance(data, s))
              [] w = Quote -> ScanString(data, s)
              [] w \in Literals -> Token(w, <<w>>, s, Advance(data, s))
              [] w \in Digits \cup {"-"} -> ScanNumber(data, s)
              [] w = "0041" -> Error("EInvalidNumber", s.pos, OneByte(data, s))
              [] OTHER -> Error("EIllegalChar", s.pos, s)
    BY DEF Scan
  <2> HIDE DEF v
  <2> QED BY <2>1
<1>5. s.i = k
  OBVIOUS
<1> SUFFICES Yields(data, k, v)
  OBVIOUS
<1> HIDE DEF c, v, k
<1>6. CASE c = "end" /\ v = [Token("EOF", <<>>, s, s) EXCEPT !.pos = s.pos]
  <2>1. v.kind = "EOF" /\ v.end = s
    BY ONLY <1>6 DEF Token
  <2>2. v.end.i = k
    BY <1>5, <2>1
  <2> QED BY <1>3, <1>6, <2>1, <2>2 DEF Yields
<1>7. ASSUME c \in Punctuation \cup Literals, NEW d, d = IF c \in Literals THEN <<c>> ELSE <<>>,
             v = Token(c, d, s, Advance(data, s))
      PROVE  Yields(data, k, v)
  <2> DEFINE y == Advance(data, s)
  <2>1. y.i = k + 1
    BY Advances, <1>5
  <2> HIDE DEF y
  <2>2. v.kind = c /\ v.end = y /\ v.from = k /\ v.to = y.i - 1 /\ v.data = d
    BY ONLY <1>7 DEF Token, y, k
  <2>3. v.to = k /\ k <= n /\ data[k] = c
    <3>1. c # "end"
      BY <1>7 DEF Punctuation, Literals
    <3> QED BY <1>1, <1>2, <1>3, <2>1, <2>2, <3>1
  <2>4. c \notin {"EOF", "error", "string", "number"}
    BY <1>7, Kinds
  <2>5. v.end.i = v.to + 1
    BY <2>1, <2>2, <2>3
  <2>6. IsToken(data, v)
    BY <1>1, <1>7, <2>2, <2>3, <2>4 DEF IsToken
  <2> QED BY <2>2, <2>3, <2>4, <2>5, <2>6 DEF Yields
<1>8. CASE c = Quote /\ v = ScanString(data, s)
  <2>1. k \in 1..n /\ data[k] = Quote
    BY <1>1, <1>2, <1>3, <1>8, Quotes
  <2>2. Scans(data, k, Entry(k), v)
    BY <1>8, <1>5, <2>1, StringScan
  <2>3. Entry(k).i = k + 1
    BY DEF Entry
  <2>4. CASE v.kind = "error"
    <3>1. /\ v.code # "EInvalidNumber"
          /\ \A m \in (k + 1)..n : data[m] = Quote => ~ IsText(data, k + 1, m - 1)
      BY <2>2, <2>3, <2>4 DEF Scans
    <3>2. Cut(data, k)
      BY <1>1, <2>1, NoNumber, Kinds
    <3>3. NoToken(data, k, v.code)
      BY <2>1, <3>1, <3>2, Kinds DEF NoToken
    <3> QED BY <2>1, <2>4, <3>3 DEF Yields
  <2>5. CASE v.kind # "error"
    <3>1. /\ v.kind = "string" /\ v.from = k /\ v.to \in (k + 1)..n /\ v.end.i = v.to + 1
          /\ data[v.to] = Quote /\ Means(data, k + 1, v.to - 1, v.data) /\ v.data \in Seq(Symbols)
      BY <2>2, <2>3, <2>5 DEF Scans
    <3>2. IsToken(data, v)
      BY <1>1, <2>1, <3>1, Kinds DEF IsToken
    <3> QED BY <2>1, <3>1, <3>2 DEF Yields
  <2> QED BY <2>4, <2>5
<1>9. CASE c \in Digits \cup {"-"} /\ v = ScanNumber(data, s)
  <2>1. k \in 1..n /\ data[k] \in Digits \cup {"-"}
    BY <1>1, <1>2, <1>3, <1>9 DEF Digits
  <2>2. Counts(data, k, v)
    BY <1>9, <1>5, <2>1, NumberScan
  <2>3. CASE v.kind = "error"
    <3>1. v.code = "EInvalidNumber" /\ Cut(data, k)
      BY <2>2, <2>3 DEF Counts
    <3>2. NoToken(data, k, v.code)
      BY <2>1, <3>1, Kinds DEF NoToken
    <3> QED BY <2>1, <2>3, <3>2 DEF Yields
  <2>4. CASE v.kind # "error"
    <3>1. /\ v.kind = "number" /\ v.from = k /\ v.to \in k..n /\ v.end.i = v.to + 1
          /\ Longest(data, k, v.to) /\ ~ Continued(data, k, v.to) /\ v.data = SubSeq(data, k, v.to)
      BY <2>2, <2>4 DEF Counts
    <3>2. IsToken(data, v)
      BY <1>1, <2>1, <3>1, Kinds DEF IsToken
    <3> QED BY <2>1, <3>1, <3>2 DEF Yields
  <2> QED BY <2>3, <2>4
<1>10. CASE c = "0041" /\ v = Error("EInvalidNumber", s.pos, OneByte(data, s))
  <2>1. k <= n /\ data[k] = "0041"
    BY <1>1, <1>2, <1>3, <1>10
  <2>2. v.kind = "error" /\ v.code = "EInvalidNumber"
    BY ONLY <1>10 DEF Error
  <2>3. NoToken(data, k, v.code)
    BY <1>1, <2>1, <2>2, NoNumber, Kinds DEF NoToken
  <2> QED BY <2>1, <2>2, <2>3 DEF Yields
<1>11. CASE /\ c \notin {"end", Quote, "-", "0041"} \cup Punctuation \cup Literals \cup Digits
            /\ v = Error("EIllegalChar", s.pos, s)
  <2>1. k <= n /\ data[k] = c
    BY <1>1, <1>2, <1>3, <1>11
  <2>2. v.kind = "error" /\ v.code = "EIllegalChar"
    BY ONLY <1>11 DEF Error
  <2>3. NoToken(data, k, v.code)
    BY <1>1, <1>11, <2>1, <2>2, NoNumber DEF NoToken
  <2> QED BY <2>1, <2>2, <2>3 DEF Yields
<1>12. c \in Punctuation => c \notin Literals
  BY DEF Punctuation, Literals
<1>13. CASE c \in Punctuation /\ v = Token(c, <<>>, s, Advance(data, s))
  BY <1>7, <1>12, <1>13
<1>14. CASE c \in Literals /\ v = Token(c, <<c>>, s, Advance(data, s))
  BY <1>7, <1>14
<1> QED BY <1>4, <1>6, <1>8, <1>9, <1>10, <1>11, <1>13, <1>14

(* Where the next token is. *)
LEMMA NextOne ==
  ASSUME NEW data \in Seq(Symbols), NEW s, s.i \in 1..(Len(data) + 1)
  PROVE  \E k \in s.i..(Len(data) + 1) : Gap(data, s.i, k - 1) /\ NoBlank(data, k) /\ Yields(data, k, Next(data, s))
<1> DEFINE n == Len(data)
           i == s.i
           r == SkipSpace(data, i)
           k == r.at
           v == Next(data, s)
           y == AdvanceTo(data, s, k)
<1>1. n \in Nat /\ i \in Nat
  BY LenProperties
<1>2. Skipped(data, i, r)
  BY SkipGap
<1>3. v = AfterSpace(data, s, r)
  BY DEF Next
<1>4. k \in i..(n + 1) /\ Gap(data, i, k - 1) /\ NoBlank(data, k) /\ r.error \in BOOLEAN
  BY <1>2 DEF Skipped
<1> HIDE DEF r, k, v
<1>5. y.i = k
  BY DEF AdvanceTo
<1> HIDE DEF y
<1>6. CASE r.error
  <2>1. k <= n /\ data[k] = "/"
    BY <1>2, <1>6 DEF Skipped, k
  <2>2. v.kind = "error" /\ v.code = "EIllegalChar"
    BY <1>3, <1>6 DEF AfterSpace, Error
  <2>3. NoToken(data, k, v.code)
    BY <1>1, <1>4, <2>1, <2>2, NoNumber, Kinds DEF NoToken
  <2>4. Yields(data, k, v)
    BY <2>1, <2>2, <2>3 DEF Yields
  <2> QED BY <1>4, <2>4 DEF v
<1>7. CASE ~ r.error
  <2>1. v = Scan(data, y)
    BY <1>3, <1>7 DEF AfterSpace, y, k
  <2>2. k \in 1..(n + 1)
    BY <1>1, <1>4
  <2>3. Yields(data, k, v)
    BY <1>5, <2>1, <2>2, ScanOne
  <2> QED BY <1>4, <2>3 DEF v
<1> QED BY <1>6, <1>7

-----------------------------------------------------------------------------
(* The stream of tokens.  The invariant: of the tokens returned so far, the *)
(* first n are tokens of the input, one after the other, and the others are *)
(* EOF.  Until the stream ends, the scanner stands behind the last token;   *)
(* when it has ended, only blanks are left, or what is no token.            *)
Reading(n) ==
  /\ n \in 0..Len(tokens)
  /\ \A k \in 1..Len(tokens) : tokens[k].kind = "EOF" <=> n < k
  /\ \A k \in 1..n : IsToken(input, tokens[k]) /\ Gap(input, Resume(k), tokens[k].from - 1)
  /\ err.kind = "none" => /\ at.i \in 1..(Len(input) + 1)
                          /\ n = Len(tokens) => at.i = Resume(n + 1)
                          /\ n # Len(tokens) => at.i = Len(input) + 1 /\ Gap(input, Resume(n + 1), Len(input))
  /\ err.kind # "none" => /\ err.kind = "error" /\ n # Len(tokens)
                          /\ \E k \in 1..Len(input) :
                               Gap(input, Resume(n + 1), k - 1) /\ NoBlank(input, k) /\ NoToken(input, k, err.code)

Inv ==
  /\ input \in Inputs
  /\ \E S : tokens \in Seq(S)
  /\ \E n \in Nat : Reading(n)

LEMMA AppendOne ==
  ASSUME NEW S, NEW s \in Seq(S), NEW t
  PROVE  /\ \E T : Append(s, t) \in Seq(T)
         /\ Len(Append(s, t)) = Len(s) + 1
         /\ \A k \in 1..Len(s) : Append(s, t)[k] = s[k]
         /\ Append(s, t)[Len(s) + 1] = t
<1>1. s \in Seq(S \cup {t}) /\ t \in S \cup {t}
  BY SeqMonotonic
<1> QED BY <1>1, AppendProperties

LEMMA Starts == Init => Inv
<1> SUFFICES ASSUME Init PROVE Inv
  OBVIOUS
<1>1. input \in Seq(Symbols) /\ Len(input) \in Nat
  BY TokenStreamAssumption, LenProperties DEF Init
<1>2. tokens = <<>> /\ <<>> \in Seq({}) /\ Len(tokens) = 0
  BY EmptySeq DEF Init
<1>3. at.i = 1 /\ err.kind = "none"
  BY DEF Init, Start
<1>4. Resume(1) = 1
  BY DEF Resume
<1>5. Reading(0)
  BY <1>1, <1>2, <1>3, <1>4 DEF Reading
<1> QED BY <1>2, <1>5 DEF Inv, Init

(* A step that appends a token or an EOF. *)
LEMMA Steps ==
  ASSUME Inv, [Step]_vars
  PROVE  Inv'
<1> DEFINE m == Len(tokens)
           l == Len(input)
<1>1. PICK n \in Nat : Reading(n)
  BY DEF Inv
<1>2. PICK S : tokens \in Seq(S)
  BY DEF Inv
<1>3. /\ input \in Seq(Symbols) /\ l \in Nat /\ m \in Nat
      /\ input' = input
  BY <1>2, TokenStreamAssumption, LenProperties DEF Inv, Step, Closed, Failed, Returned, vars
<1>4. /\ \A i, j : Gap(input, i, j)' <=> Gap(input, i, j)
      /\ \A k : NoBlank(input, k)' <=> NoBlank(input, k)
      /\ \A t : IsToken(input, t)' <=> IsToken(input, t)
      /\ \A k, code : NoToken(input, k, code)' <=> NoToken(input, k, code)
  BY <1>3
<1>5. CASE UNCHANGED vars
  <2>1. \A k : Resume(k)' = Resume(k)
    BY <1>5 DEF Resume, vars
  <2>2. Reading(n)'
    BY <1>1, <1>4, <1>5, <2>1 DEF Reading, vars
  <2> QED BY <1>2, <1>5, <2>2 DEF Inv, vars
<1>6. ASSUME NEW t, tokens' = Append(tokens, t)
      PROVE  /\ Len(tokens)' = m + 1
             /\ \A k \in 1..m : tokens'[k] = tokens[k]
             /\ tokens'[m + 1] = t
             /\ \A k \in 1..(m + 1) : Resume(k)' = Resume(k)
             /\ \E T : tokens' \in Seq(T)
  <2>1. /\ Len(tokens)' = m + 1
        /\ \A k \in 1..m : tokens'[k] = tokens[k]
        /\ tokens'[m + 1] = t
        /\ \E T : tokens' \in Seq(T)
    <3>1. /\ \E T : Append(tokens, t) \in Seq(T)
          /\ Len(Append(tokens, t)) = m + 1
          /\ \A k \in 1..m : Append(tokens, t)[k] = tokens[k]
          /\ Append(tokens, t)[m + 1] = t
      BY <1>2, AppendOne
    <3> HIDE DEF m
    <3> QED BY <1>6, <3>1
  <2>2. ASSUME NEW k \in 1..(m + 1) PROVE Resume(k)' = Resume(k)
    <3>1. k # 1 => k - 1 \in 1..m
      BY <1>3
    <3> QED BY <2>1, <3>1 DEF Resume
  <2> QED BY <2>1, <2>2
<1> HIDE DEF m, l
<1>7. n \in 0..m
  BY <1>1 DEF Reading, m
<1>8. ASSUME NEW t, tokens' = Append(tokens, t), t.kind = "EOF"
      PROVE  /\ n \in 0..Len(tokens)'
             /\ \A k \in 1..Len(tokens)' : tokens'[k].kind = "EOF" <=> n < k
             /\ \A k \in 1..n : (IsToken(input, tokens[k]) /\ Gap(input, Resume(k), tokens[k].from - 1))'
             /\ n # Len(tokens)'
  <2>1. \A k \in 1..(m + 1) : tokens'[k].kind = "EOF" <=> n < k
    BY <1>1, <1>3, <1>6, <1>7, <1>8 DEF Reading, m
  <2>2. ASSUME NEW k \in 1..n PROVE (IsToken(input, tokens[k]) /\ Gap(input, Resume(k), tokens[k].from - 1))'
    <3>1. tokens'[k] = tokens[k] /\ Resume(k)' = Resume(k)
      BY <1>3, <1>6, <1>7, <1>8
    <3>2. IsToken(input, tokens[k]) /\ Gap(input, Resume(k), tokens[k].from - 1)
      BY <1>1 DEF Reading
    <3> QED BY <1>4, <3>1, <3>2
  <2> QED BY <1>3, <1>6, <1>7, <1>8, <2>1, <2>2
<1>9. CASE Closed
  <2> DEFINE t == EOFToken([i |-> 1, pos |-> NoPosition])
  <2>1. tokens' = Append(tokens, t) /\ err.kind = "error" /\ err' = err /\ at' = at
    BY <1>9 DEF Closed
  <2>2. t.kind = "EOF"
    BY DEF EOFToken, Token
  <2> HIDE DEF t
  <2>3. Reading(n)'
    <3>1. (\E k \in 1..Len(input) : Gap(input, Resume(n + 1), k - 1) /\ NoBlank(input, k) /\ NoToken(input, k, err.code))'
      <4>1. \E k \in 1..l : Gap(input, Resume(n + 1), k - 1) /\ NoBlank(input, k) /\ NoToken(input, k, err.code)
        BY <1>1, <2>1 DEF Reading, l
      <4>2. Resume(n + 1)' = Resume(n + 1)
        BY <1>3, <1>6, <1>7, <2>1
      <4> QED BY <1>3, <1>4, <2>1, <4>1, <4>2 DEF l
    <3> QED BY <1>8, <2>1, <2>2, <3>1 DEF Reading
  <2> QED BY <1>3, <1>6, <2>1, <2>3 DEF Inv
<1>10. ASSUME err.kind = "none" PROVE
        \E k \in at.i..(l + 1) : /\ Gap(input, at.i, k - 1) /\ NoBlank(input, k) /\ Yields(input, k, Next(input, at))
                                 /\ n # m => k = l + 1
  <2>1. at.i \in 1..(l + 1) /\ (n # m => at.i = l + 1)
    BY <1>1, <1>10 DEF Reading, m, l
  <2> QED BY <1>3, <2>1, NextOne DEF l
<1>11. CASE Failed
  <2> DEFINE t == Next(input, at)
             e == EOFToken(t.end)
  <2>1. /\ tokens' = Append(tokens, e) /\ err.kind = "none" /\ t.kind = "error"
        /\ err' = t /\ at' = t.end
    BY <1>11 DEF Failed
  <2>2. e.kind = "EOF"
    BY DEF EOFToken, Token
  <2>3. PICK k \in at.i..(l + 1) : /\ Gap(input, at.i, k - 1) /\ NoBlank(input, k) /\ Yields(input, k, t)
                                   /\ n # m => k = l + 1
    BY <1>10, <2>1
  <2> HIDE DEF t, e
  <2>4. k <= l /\ NoToken(input, k, t.code) /\ n = m
    BY <1>3, <2>1, <2>3 DEF Yields, l
  <2>5. at.i = Resume(n + 1) /\ at.i \in 1..(l + 1)
    BY <1>1, <2>1, <2>4 DEF Reading, m, l
  <2>6. Reading(n)'
    <3>1. k \in 1..l
      BY <1>3, <2>4, <2>5
    <3>2. Resume(n + 1)' = Resume(n + 1)
      BY <1>3, <1>6, <2>1, <2>4
    <3>3. (\E j \in 1..Len(input) : Gap(input, Resume(n + 1), j - 1) /\ NoBlank(input, j) /\ NoToken(input, j, err.code))'
      BY <1>3, <1>4, <2>1, <2>3, <2>4, <2>5, <3>1, <3>2 DEF l
    <3>4. (err.kind = "error" /\ n # Len(tokens))'
      BY <1>3, <1>6, <2>1, <2>4
    <3> QED BY <1>8, <2>1, <2>2, <3>3, <3>4 DEF Reading
  <2> QED BY <1>3, <1>6, <2>1, <2>6 DEF Inv
<1>12. CASE Returned
  <2> DEFINE t == Next(input, at)
  <2>1. /\ tokens' = Append(tokens, t) /\ err.kind = "none" /\ t.kind # "error"
        /\ err' = err /\ at' = t.end
    BY <1>12 DEF Returned
  <2>2. PICK k \in at.i..(l + 1) : /\ Gap(input, at.i, k - 1) /\ NoBlank(input, k) /\ Yields(input, k, t)
                                   /\ n # m => k = l + 1
    BY <1>10, <2>1
  <2> HIDE DEF t
  <2>3. CASE t.kind = "EOF"
    <3>1. k = l + 1 /\ at'.i = l + 1
      BY <1>3, <2>1, <2>2, <2>3 DEF Yields, l
    <3>2. Gap(input, Resume(n + 1), l)
      <4>1. CASE n = m
        <5>1. at.i = Resume(n + 1)
          BY <1>1, <2>1, <4>1 DEF Reading, m
        <5> QED BY <1>3, <2>2, <3>1, <5>1
      <4>2. CASE n # m
        BY <1>1, <2>1, <4>2 DEF Reading, m, l
      <4> QED BY <4>1, <4>2
    <3>3. Gap(input, Resume(n + 1), Len(input))' /\ at'.i = Len(input)' + 1 /\ at'.i \in 1..(Len(input)' + 1)
      <4>1. Resume(n + 1)' = Resume(n + 1)
        BY <1>3, <1>6, <1>7, <2>1
      <4> QED BY <1>3, <1>4, <3>1, <3>2, <4>1 DEF l
    <3>4. Reading(n)'
      BY <1>8, <2>1, <2>3, <3>3 DEF Reading
    <3> QED BY <1>3, <1>6, <2>1, <3>4 DEF Inv
  <2>4. CASE t.kind # "EOF"
    <3>1. /\ k <= l /\ t.from = k /\ t.end.i = t.to + 1 /\ IsToken(input, t)
          /\ n = m
      BY <1>3, <2>1, <2>2, <2>4 DEF Yields, l
    <3>2. at.i = Resume(n + 1) /\ at.i \in 1..(l + 1)
      BY <1>1, <2>1, <3>1 DEF Reading, m, l
    <3>3. t.to \in k..l /\ k \in 1..l
      BY <1>3, <3>1, <3>2 DEF IsToken, l
    <3>4. Resume(n + 2)' = t.to + 1
      <4>1. n + 2 # 1 /\ n + 2 - 1 = n + 1
        OBVIOUS
      <4> QED BY <1>6, <2>1, <3>1, <4>1 DEF Resume
    <3>5. at'.i \in 1..(l + 1) /\ at'.i = Resume(n + 2)'
      BY <1>3, <2>1, <3>1, <3>3, <3>4
    <3>6. ASSUME NEW j \in 1..(n + 1)
          PROVE  (IsToken(input, tokens[j]) /\ Gap(input, Resume(j), tokens[j].from - 1))'
      <4>1. CASE j = n + 1
        <5>1. tokens'[j] = t /\ Resume(j)' = Resume(n + 1)
          BY <1>3, <1>6, <2>1, <3>1, <4>1
        <5>2. Gap(input, Resume(n + 1), t.from - 1)
          BY <2>2, <3>1, <3>2
        <5> QED BY <1>4, <3>1, <5>1, <5>2
      <4>2. CASE j \in 1..n
        <5>1. tokens'[j] = tokens[j] /\ Resume(j)' = Resume(j)
          BY <1>3, <1>6, <1>7, <2>1, <3>1, <4>2
        <5>2. IsToken(input, tokens[j]) /\ Gap(input, Resume(j), tokens[j].from - 1)
          BY <1>1, <4>2 DEF Reading
        <5> QED BY <1>4, <5>1, <5>2
      <4> QED BY <4>1, <4>2
    <3>7. Reading(n + 1)'
      <4>1. n + 1 + 1 = n + 2 /\ n + 1 \in 0..(m + 1)
        BY <1>3, <3>1
      <4>2. \A j \in 1..(m + 1) : tokens'[j].kind = "EOF" <=> n + 1 < j
        BY <1>1, <1>3, <1>6, <2>1, <2>4, <3>1 DEF Reading, m
      <4> QED BY <1>3, <1>6, <2>1, <3>1, <3>5, <3>6, <4>1, <4>2 DEF Reading, l
    <3> QED BY <1>3, <1>6, <2>1, <3>7 DEF Inv
  <2> QED BY <2>3, <2>4
<1> QED BY <1>5, <1>9, <1>11, <1>12 DEF Step

LEMMA AlwaysReading == Spec => []Inv
<1>1. Init => Inv
  BY Starts
<1>2. Inv /\ [Step]_vars => Inv'
  BY Steps
<1> QED BY <1>1, <1>2, PTL DEF Spec

LEMMA ScannedSoFar ==
  ASSUME NEW n \in Nat, Reading(n), Len(tokens) \in Nat
  PROVE  Scanned = 1..n /\ Rest = Resume(n + 1)
<1>1. Scanned = 1..n
  BY DEF Scanned, Reading
<1>2. Cardinality(1..n) = n
  BY FS_Interval
<1> QED BY <1>1, <1>2 DEF Rest

LEMMA ResumeIsNat ==
  ASSUME NEW n \in Nat, Reading(n), Len(input) \in Nat, NEW k \in 1..(n + 1)
  PROVE  Resume(k) \in Nat \ {0}
<1>1. CASE k = 1
  BY <1>1 DEF Resume
<1>2. CASE k # 1
  <2>1. k - 1 \in 1..n
    BY <1>2
  <2>2. tokens[k - 1].to \in Nat
    <3>1. IsToken(input, tokens[k - 1])
      BY <2>1 DEF Reading
    <3> QED BY <3>1 DEF IsToken
  <2> QED BY <1>2, <2>2 DEF Resume
<1> QED BY <1>1, <1>2

(* All that the properties below say of an error. *)
LEMMA Unscanned ==
  ASSUME Inv, err.kind = "error"
  PROVE  /\ \E k \in 1..Len(input) : First(k)
         /\ \A k \in 1..Len(input) : First(k) => NoToken(input, k, err.code)
<1>1. PICK n \in Nat : Reading(n)
  BY DEF Inv
<1>2. /\ input \in Seq(Symbols) /\ Len(input) \in Nat
      /\ Len(tokens) \in Nat
  BY TokenStreamAssumption, LenProperties DEF Inv
<1>3. Rest = Resume(n + 1)
  BY <1>1, <1>2, ScannedSoFar
<1>4. Rest \in Nat
  <2>1. n + 1 \in 1..(n + 1)
    OBVIOUS
  <2> QED BY <1>1, <1>2, <1>3, <2>1, ResumeIsNat
<1>5. PICK k \in 1..Len(input) : Gap(input, Rest, k - 1) /\ NoBlank(input, k) /\ NoToken(input, k, err.code)
  BY <1>1, <1>3 DEF Reading
<1>6. First(k)
  BY <1>5 DEF First, NoBlank
<1>7. ASSUME NEW j \in 1..Len(input), First(j) PROVE j = k
  <2>1. Gap(input, Rest, j - 1) /\ NoBlank(input, j)
    BY <1>7 DEF First, NoBlank
  <2>2. j \in 1..(Len(input) + 1) /\ k \in 1..(Len(input) + 1)
    BY <1>2
  <2> QED BY <1>2, <1>4, <1>5, <2>1, <2>2, GapIsOne
<1> QED BY <1>5, <1>6, <1>7

(* The tokens of every input lie one after the other and cover it but for   *)
(* white space and comments, up to its end or to what is no token: no call  *)
(* of TokenStream.Next() loses or repeats a byte (lexer.go 10-35, 97-104).  *)
THEOREM TokensTile == Spec => []TokensTileTheInput
<1>1. ASSUME Inv PROVE TokensTileTheInput
  <2>1. PICK n \in Nat : Reading(n)
    BY <1>1 DEF Inv
  <2>2. /\ input \in Seq(Symbols) /\ Len(input) \in Nat
        /\ Len(tokens) \in Nat
    BY <1>1, TokenStreamAssumption, LenProperties DEF Inv
  <2>3. Scanned = 1..n /\ Rest = Resume(n + 1)
    BY <2>1, <2>2, ScannedSoFar
  <2>4. ASSUME NEW k \in Scanned
        PROVE  LET t == tokens[k] IN
               /\ k > 1 => k - 1 \in Scanned
               /\ t.from <= t.to /\ t.to <= Len(input)
               /\ Gap(input, Resume(k), t.from - 1)
               /\ t.kind \in Punctuation \cup Literals => t.from = t.to /\ input[t.from] = t.kind
    <3>1. IsToken(input, tokens[k]) /\ Gap(input, Resume(k), tokens[k].from - 1)
      BY <2>1, <2>3 DEF Reading
    <3>2. tokens[k].from <= tokens[k].to /\ tokens[k].to <= Len(input)
      BY <2>2, <3>1 DEF IsToken
    <3>3. k > 1 => k - 1 \in Scanned
      BY <2>3
    <3> QED BY <3>1, <3>2, <3>3 DEF IsToken
  <2>5. ASSUME Ended, err.kind = "none" PROVE Gap(input, Rest, Len(input))
    <3>1. Len(tokens) \in 1..Len(tokens) /\ tokens[Len(tokens)].kind = "EOF"
      <4>1. tokens # <<>> /\ tokens[Len(tokens)].kind = "EOF"
        BY <2>5 DEF Ended
      <4>2. Len(tokens) # 0
        BY <1>1, <4>1, EmptySeq DEF Inv
      <4> QED BY <2>2, <4>1, <4>2
    <3>2. n < Len(tokens)
      BY <2>1, <3>1 DEF Reading
    <3> QED BY <2>1, <2>3, <2>5, <3>2 DEF Reading
  <2>6. ASSUME err.kind = "error"
        PROVE  \E k \in 1..Len(input) : First(k) /\ input[k] \notin Punctuation \cup Literals
    BY <1>1, <2>6, Unscanned DEF NoToken
  <2> QED BY <2>4, <2>5, <2>6 DEF TokensTileTheInput
<1> QED BY <1>1, AlwaysReading, PTL

(* Every number token of every input is the longest number of RFC 8259 that *)
(* starts at its first byte, and nothing that would continue it follows;    *)
(* EInvalidNumber is reported exactly where there is no such number         *)
(* (lexer.go 72-87).                                                        *)
THEOREM NumbersCorrect == Spec => []NumbersAreRFC8259
<1>1. ASSUME Inv PROVE NumbersAreRFC8259
  <2>1. PICK n \in Nat : Reading(n)
    BY <1>1 DEF Inv
  <2>2. Scanned = 1..n
    BY <1>1, <2>1, LenProperties, ScannedSoFar DEF Inv
  <2>3. \A k \in Scanned : IsToken(input, tokens[k])
    BY <2>1, <2>2 DEF Reading
  <2>4. ASSUME err.kind = "error", NEW k \in 1..Len(input), First(k)
        PROVE  NoToken(input, k, err.code)
    BY <1>1, <2>4, Unscanned
  <2> QED BY <2>3, <2>4 DEF NumbersAreRFC8259, IsToken, NoToken, Cut
<1> QED BY <1>1, AlwaysReading, PTL

(* Every string token of every input holds what the characters and escapes  *)
(* between its two quotes stand for, and a string is refused only if no     *)
(* quote ends it after nothing but such items (lexer.go 36-72).             *)
THEOREM StringsCorrect == Spec => []StringsDecode
<1>1. ASSUME Inv PROVE StringsDecode
  <2>1. PICK n \in Nat : Reading(n)
    BY <1>1 DEF Inv
  <2>2. Scanned = 1..n
    BY <1>1, <2>1, LenProperties, ScannedSoFar DEF Inv
  <2>3. \A k \in Scanned : IsToken(input, tokens[k])
    BY <2>1, <2>2 DEF Reading
  <2>4. ASSUME err.kind = "error", NEW k \in 1..Len(input), First(k)
        PROVE  NoToken(input, k, err.code)
    BY <1>1, <2>4, Unscanned
  <2> QED BY <2>3, <2>4 DEF StringsDecode, IsToken, NoToken
<1> QED BY <1>1, AlwaysReading, PTL

-----------------------------------------------------------------------------
(* What EscapeString() writes is read back.  First, the meaning of a text   *)
(* that is part of another, and of one text after another.                  *)
LEMMA ItemElsewhere ==
  ASSUME NEW t, NEW u, NEW d \in Int, NEW i \in Nat, NEW j \in Nat, \A k \in i..j : u[k + d] = t[k],
         NEW c, IsItem(t, i, j, c)
  PROVE  IsItem(u, i + d, j + d, c)
<1>1. CASE j = i /\ t[i] = c /\ Plain(c)
  BY <1>1 DEF IsItem
<1>2. CASE j = i + 1 /\ t[i] = "\\" /\ <<t[j], c>> \in Letters
  BY <1>2 DEF IsItem
<1>3. CASE j = i + 2 /\ t[i] = "\\" /\ t[i + 1] = "u" /\ <<t[j], c>> \in Hex
  <2>1. u[i + d] = t[i] /\ u[i + d + 1] = t[i + 1] /\ u[j + d] = t[j] /\ j + d = i + d + 2
    BY <1>3
  <2> QED BY <1>3, <2>1 DEF IsItem
<1>4. CASE /\ j = i + 5 /\ c = "rocket" /\ t[i] = "\\" /\ t[i + 1] = "u" /\ t[i + 2] = "D83D"
           /\ t[i + 3] = "\\" /\ t[i + 4] = "u" /\ t[j] = "DE80"
  <2>1. /\ u[i + d] = t[i] /\ u[i + d + 1] = t[i + 1] /\ u[i + d + 2] = t[i + 2]
        /\ u[i + d + 3] = t[i + 3] /\ u[i + d + 4] = t[i + 4] /\ u[j + d] = t[j] /\ j + d = i + d + 5
    BY <1>4
  <2> QED BY <1>4, <2>1 DEF IsItem
<1> QED BY <1>1, <1>2, <1>3, <1>4 DEF IsItem

Moved(t, i, e, u, x, y) == \E d \in Int : x = i + d /\ y = e + d /\ \A k \in i..e : u[k + d] = t[k]

LEMMA MeansElsewhere ==
  ASSUME NEW t, NEW i \in Nat, NEW e \in Int, NEW held \in Seq(Symbols), Means(t, i, e, held),
         NEW u, NEW x, NEW y, Moved(t, i, e, u, x, y)
  PROVE  Means(u, x, y, held)
<1> PICK d \in Int : x = i + d /\ y = e + d /\ \A k \in i..e : u[k + d] = t[k]
  BY DEF Moved
<1> DEFINE n == Len(held)
           j == e + 1
<1>1. n \in Nat /\ y + 1 = j + d /\ j \in Int
  BY LenProperties
<1>2. PICK begins \in [1..(n + 1) -> i..j] :
             /\ begins[1] = i /\ begins[n + 1] = j
             /\ \A k \in 1..n : IsItem(t, begins[k], begins[k + 1] - 1, held[k])
  BY DEF Means
<1>3. \A k \in i..(j - 1) : u[k + d] = t[k]
  OBVIOUS
<1> HIDE DEF n, j
<1> DEFINE b == [k \in 1..(n + 1) |-> begins[k] + d]
<1>4. b \in [1..(n + 1) -> x..(y + 1)] /\ b[1] = x /\ b[n + 1] = y + 1
  <2>1. \A k \in 1..(n + 1) : begins[k] + d \in (i + d)..(j + d)
    BY <1>1, <1>2
  <2>2. (i + d)..(j + d) = x..(y + 1) /\ 1 \in 1..(n + 1) /\ n + 1 \in 1..(n + 1)
    BY <1>1
  <2>3. b[1] = begins[1] + d /\ b[n + 1] = begins[n + 1] + d
    BY <2>2
  <2>4. b[1] = x /\ b[n + 1] = y + 1
    BY <1>1, <1>2, <2>3
  <2>5. b \in [1..(n + 1) -> x..(y + 1)]
    BY <2>1, <2>2
  <2> HIDE DEF b
  <2> QED BY <2>4, <2>5
<1>5. ASSUME NEW k \in 1..n PROVE IsItem(u, b[k], b[k + 1] - 1, held[k])
  <2> DEFINE v == begins[k]
             w == begins[k + 1]
  <2>1. v \in i..j /\ w \in i..j /\ b[k] = v + d /\ b[k + 1] = w + d
    BY <1>1, <1>2
  <2>2. IsItem(t, v, w - 1, held[k])
    BY <1>2
  <2> HIDE DEF v, w, b
  <2>3. w - 1 >= v
    BY <1>1, <2>1, <2>2 DEF IsItem
  <2>4. v \in Nat /\ w - 1 \in Nat /\ w - 1 + d = w + d - 1 /\ \A l \in v..(w - 1) : u[l + d] = t[l]
    <3>1. d \in Int /\ i \in Nat /\ j \in Int
      BY <1>1
    <3>2. v \in Nat /\ w - 1 \in Nat /\ w - 1 + d = w + d - 1
      BY ONLY <2>1, <2>3, <3>1
    <3>3. v..(w - 1) \subseteq i..(j - 1)
      BY ONLY <2>1, <3>1
    <3> QED BY <1>3, <3>2, <3>3
  <2>5. IsItem(u, v + d, w - 1 + d, held[k])
    BY <2>2, <2>4, ItemElsewhere
  <2> QED BY <2>1, <2>4, <2>5
<1> HIDE DEF b
<1> QED BY <1>1, <1>4, <1>5 DEF Means, n

LEMMA MeansJoin ==
  ASSUME NEW data, NEW i \in Nat, NEW e \in Int, NEW j \in Nat, NEW z \in Int, j = e + 1, i <= j, e <= z,
         NEW g \in Seq(Symbols), NEW h \in Seq(Symbols), Means(data, i, e, g), Means(data, j, z, h)
  PROVE  Means(data, i, z, g \o h)
<1> DEFINE l == z + 1
           m == Len(g)
           n == Len(h)
           all == g \o h
<1>1. /\ m \in Nat /\ n \in Nat /\ Len(all) = m + n
      /\ \A k \in 1..m : all[k] = g[k]
      /\ \A k \in 1..n : all[m + k] = h[k]
  BY LenProperties, ConcatProperties
<1>0. m \in Nat /\ n \in Nat
  BY <1>1
<1>2. PICK a \in [1..(m + 1) -> i..j] :
             /\ a[1] = i /\ a[m + 1] = j
             /\ \A k \in 1..m : IsItem(data, a[k], a[k + 1] - 1, g[k])
  BY DEF Means
<1>3. PICK b \in [1..(n + 1) -> j..l] :
             /\ b[1] = j /\ b[n + 1] = l
             /\ \A k \in 1..n : IsItem(data, b[k], b[k + 1] - 1, h[k])
  BY DEF Means
<1>4. l \in Nat /\ i <= j /\ j <= l
  OBVIOUS
<1> HIDE DEF l, m, n, all
<1> DEFINE ab == [k \in 1..(m + n + 1) |-> IF k <= m THEN a[k] ELSE b[k - m]]
<1>5. ab \in [1..(m + n + 1) -> i..l]
  <2>1. ASSUME NEW k \in 1..(m + n + 1) PROVE ab[k] \in i..l
    <3>1. CASE k <= m
      <4>1. k \in 1..(m + 1)
        BY <1>0, <3>1
      <4>2. ab[k] = a[k] /\ a[k] \in i..j
        BY <1>2, <3>1, <4>1
      <4>3. i..j \subseteq i..l
        BY <1>4
      <4> QED BY <4>2, <4>3
    <3>2. CASE ~ k <= m
      <4>1. k - m \in 1..(n + 1)
        BY <1>0, <3>2
      <4>2. ab[k] = b[k - m] /\ b[k - m] \in j..l
        BY <1>3, <3>2, <4>1
      <4>3. j..l \subseteq i..l
        BY <1>4
      <4> QED BY <4>2, <4>3
    <3> QED BY <3>1, <3>2
  <2> QED BY <2>1
<1>6. ab[1] = i /\ ab[m + n + 1] = l
  <2> DEFINE y == m + n + 1
  <2>1. y - m = n + 1 /\ 1 \in 1..y /\ y \in 1..y /\ ~ (y <= m) /\ (~ (1 <= m) <=> m = 0)
    BY <1>0
  <2>2. m = 0 => i = j /\ 1 - m = 1
    BY <1>2
  <2>3. ab[1] = (IF 1 <= m THEN a[1] ELSE b[1 - m]) /\ ab[y] = b[y - m]
    BY <2>1
  <2> HIDE DEF ab, y
  <2>4. ab[1] = i
    BY <1>2, <1>3, <2>1, <2>2, <2>3
  <2>5. ab[y] = l
    BY <1>3, <2>1, <2>3
  <2> QED BY <2>4, <2>5 DEF y
<1>7. ASSUME NEW k \in 1..(m + n) PROVE IsItem(data, ab[k], ab[k + 1] - 1, all[k])
  <2>1. CASE k <= m
    <3>1. ab[k] = a[k] /\ all[k] = g[k] /\ k \in 1..m
      BY <1>1, <2>1
    <3>2. ab[k + 1] = a[k + 1]
      <4>1. CASE k = m
        <5>1. ab[k + 1] = b[1]
          BY <1>0, <4>1
        <5> QED BY <1>2, <1>3, <4>1, <5>1
      <4>2. CASE k < m
        BY <1>0, <4>2
      <4> QED BY <1>1, <2>1, <4>1, <4>2
    <3> QED BY <1>2, <3>1, <3>2
  <2>2. CASE ~ k <= m
    <3> DEFINE q == k - m
    <3>1. q \in 1..n /\ k = m + q
      BY <1>0, <2>2
    <3> HIDE DEF q
    <3>2. ab[k] = b[q] /\ all[k] = h[q]
      BY <1>1, <3>1
    <3>4. ab[k + 1] = b[q + 1]
      BY <1>0, <3>1
    <3> QED BY <1>3, <3>1, <3>2, <3>4
  <2> QED BY <2>1, <2>2
<1> HIDE DEF ab
<1> QED BY <1>1, <1>5, <1>6, <1>7 DEF Means, all, l

(* The text that a quote ends after nothing but items is read in one way.   *)
LEMMA ItemValue ==
  ASSUME NEW data, NEW i \in Nat, NEW j \in Nat, NEW c, NEW d, IsItem(data, i, j, c), IsItem(data, i, j, d)
  PROVE  c = d
<1>1. <<data[j], c>> \in Letters /\ <<data[j], d>> \in Letters => c = d
  BY Pairs, Quotes
<1>2. <<data[j], c>> \in Hex /\ <<data[j], d>> \in Hex => c = d
  BY Pairs
<1> QED BY <1>1, <1>2 DEF IsItem

LEMMA MeansIsOne ==
  ASSUME NEW data, NEW i \in Nat, NEW j \in Nat, NEW l \in Nat, NEW g \in Seq(Symbols), NEW h \in Seq(Symbols),
         Means(data, i, j - 1, g), Means(data, i, l - 1, h), data[j] = Quote, data[l] = Quote
  PROVE  j = l /\ g = h
<1> DEFINE m == Len(g)
           n == Len(h)
<1>1. m \in Nat /\ n \in Nat
  BY LenProperties
<1>2. PICK a \in [1..(m + 1) -> i..j] :
             /\ a[1] = i /\ a[m + 1] = j
             /\ \A k \in 1..m : IsItem(data, a[k], a[k + 1] - 1, g[k])
  <2>1. j - 1 + 1 = j
    OBVIOUS
  <2> QED BY <2>1 DEF Means
<1>3. PICK b \in [1..(n + 1) -> i..l] :
             /\ b[1] = i /\ b[n + 1] = l
             /\ \A k \in 1..n : IsItem(data, b[k], b[k + 1] - 1, h[k])
  <2>1. l - 1 + 1 = l
    OBVIOUS
  <2> QED BY <2>1 DEF Means
<1> HIDE DEF m, n
<1>4. ASSUME NEW x \in Nat, NEW y \in Nat, NEW c, NEW z \in Nat, NEW d, IsItem(data, x, y - 1, c), IsItem(data, x, z - 1, d)
      PROVE  y = z /\ c = d
  <2>1. y - 1 \in Nat /\ z - 1 \in Nat
    BY <1>4 DEF IsItem
  <2>2. y - 1 = z - 1
    BY <1>4, <2>1, ItemEnds
  <2>3. c = d
    BY <1>4, <2>1, <2>2, ItemValue
  <2> QED BY <2>2, <2>3
<1>5. /\ \A k \in 1..(m + 1) : a[k] \in Nat
      /\ \A k \in 1..(n + 1) : b[k] \in Nat
  <2>1. i..j \subseteq Nat /\ i..l \subseteq Nat
    OBVIOUS
  <2>2. \A k \in 1..(m + 1) : a[k] \in i..j
    BY <1>2
  <2>3. \A k \in 1..(n + 1) : b[k] \in i..l
    BY <1>3
  <2> QED BY ONLY <2>1, <2>2, <2>3
<1> DEFINE Apart == {k \in Nat : k \in 1..(m + 1) /\ k \in 1..(n + 1) /\ a[k] # b[k]}
<1>6. Apart = {}
  <2> SUFFICES ASSUME Apart # {} PROVE FALSE
    OBVIOUS
  <2>1. PICK k \in Apart : \A o \in Apart : k <= o
    <3>1. Apart \subseteq Nat
      OBVIOUS
    <3> HIDE DEF Apart
    <3> QED BY <3>1, Smallest
  <2>2. k # 1
    BY <1>2, <1>3
  <2> DEFINE p == k - 1
  <2>3. p \in 1..m /\ p \in 1..n /\ k = p + 1
    BY <1>1, <2>2
  <2> HIDE DEF p
  <2>4. p \notin Apart
    <3> HIDE DEF Apart
    <3> QED BY <1>1, <2>1, <2>3
  <2>5. /\ p \in 1..(m + 1) /\ p \in 1..(n + 1) /\ p \in Nat
        /\ p + 1 \in 1..(m + 1) /\ p + 1 \in 1..(n + 1)
    BY <1>1, <2>3
  <2>6. a[p] = b[p] /\ a[p] \in Nat /\ a[p + 1] \in Nat /\ b[p + 1] \in Nat
    BY <1>5, <2>4, <2>5
  <2>7. IsItem(data, a[p], a[p + 1] - 1, g[p]) /\ IsItem(data, b[p], b[p + 1] - 1, h[p])
    BY <1>2, <1>3, <2>3
  <2>8. a[p + 1] = b[p + 1]
    <3> DEFINE x == a[p]
               y == a[p + 1]
               z == b[p + 1]
    <3>1. x \in Nat /\ y \in Nat /\ z \in Nat /\ IsItem(data, x, y - 1, g[p]) /\ IsItem(data, x, z - 1, h[p])
      BY <2>6, <2>7
    <3> HIDE DEF x, y, z
    <3>2. y = z
      BY ONLY <1>4, <3>1
    <3> QED BY <3>2 DEF y, z
  <2> QED BY <2>3, <2>8
<1>7. \A k \in 1..(m + 1) : k \in 1..(n + 1) => a[k] = b[k]
  <2> SUFFICES ASSUME NEW k \in 1..(m + 1), k \in 1..(n + 1), a[k] # b[k] PROVE FALSE
    OBVIOUS
  <2>1. k \in Apart
    BY <1>1
  <2> HIDE DEF Apart
  <2> QED BY <1>6, <2>1
<1> HIDE DEF Apart
<1>8. ASSUME NEW x \in Nat, NEW y, NEW c, IsItem(data, x, y, c), data[x] = Quote PROVE FALSE
  BY <1>8, Quotes DEF IsItem, Plain
<1>9. m = n
  <2>1. CASE m < n
    <3>1. m + 1 \in 1..n /\ m + 1 \in 1..(m + 1) /\ m + 1 \in 1..(n + 1) /\ m + 1 \in Nat
      BY <1>1, <2>1
    <3>2. b[m + 1] = j
      BY <1>2, <1>7, <3>1
    <3>3. IsItem(data, j, b[m + 1 + 1] - 1, h[m + 1])
      BY <1>3, <3>1, <3>2
    <3> QED BY <1>8, <3>3
  <2>2. CASE n < m
    <3>1. n + 1 \in 1..m /\ n + 1 \in 1..(m + 1) /\ n + 1 \in 1..(n + 1) /\ n + 1 \in Nat
      BY <1>1, <2>2
    <3>2. a[n + 1] = l
      BY <1>3, <1>7, <3>1
    <3>3. IsItem(data, l, a[n + 1 + 1] - 1, g[n + 1])
      BY <1>2, <3>1, <3>2
    <3> QED BY <1>8, <3>3
  <2> QED BY <1>1, <2>1, <2>2
<1>10. j = l
  <2>1. m + 1 \in 1..(m + 1) /\ m + 1 \in 1..(n + 1)
    BY <1>1, <1>9
  <2> QED BY <1>2, <1>3, <1>7, <1>9, <2>1
<1>11. ASSUME NEW k \in 1..m PROVE g[k] = h[k]
  <2>1. /\ k \in Nat /\ k + 1 \in Nat /\ k \in 1..(m + 1) /\ k + 1 \in 1..(m + 1)
    BY <1>1
  <2>2. a[k] = b[k] /\ a[k + 1] = b[k + 1] /\ a[k] \in Nat /\ a[k + 1] \in Nat
    BY <1>5, <1>7, <1>9, <2>1
  <2>3. IsItem(data, a[k], a[k + 1] - 1, g[k]) /\ IsItem(data, b[k], b[k + 1] - 1, h[k])
    BY <1>2, <1>3, <1>9
  <2> QED BY ONLY <1>4, <2>2, <2>3
<1>12. g = h
  BY <1>9, <1>11, SeqEqual DEF m, n
<1> QED BY <1>10, <1>12

(* t is JSON text between two quotes for what is held, and all that is      *)
(* escaped for HTML, or always, is. *)
Spells(t, held, escapeHTML) ==
  /\ t \in Seq(Symbols) /\ held \in Seq(Symbols) /\ Means(t, 1, Len(t), held)
  /\ \A k \in 1..Len(t) : t[k] # "LS" /\ (escapeHTML => t[k] # "<")

LEMMA SpellsJoin ==
  ASSUME NEW escapeHTML, NEW t, NEW g, NEW u, NEW h, Spells(t, g, escapeHTML), Spells(u, h, escapeHTML)
  PROVE  Spells(t \o u, g \o h, escapeHTML)
<1> DEFINE m == Len(t)
           n == Len(u)
           all == t \o u
<1>1. /\ t \in Seq(Symbols) /\ g \in Seq(Symbols) /\ Means(t, 1, m, g)
      /\ u \in Seq(Symbols) /\ h \in Seq(Symbols) /\ Means(u, 1, n, h)
  BY DEF Spells
<1>2. /\ all \in Seq(Symbols) /\ g \o h \in Seq(Symbols)
      /\ m \in Nat /\ n \in Nat /\ Len(all) = m + n
      /\ \A k \in 1..(m + n) : all[k] = IF k <= m THEN t[k] ELSE u[k - m]
  BY <1>1, LenProperties, ConcatProperties
<1>3. \A k \in 1..(m + n) : all[k] # "LS" /\ (escapeHTML => all[k] # "<")
  <2>1. /\ \A k \in 1..m : t[k] # "LS" /\ (escapeHTML => t[k] # "<")
        /\ \A k \in 1..n : u[k] # "LS" /\ (escapeHTML => u[k] # "<")
    BY DEF Spells
  <2> HIDE DEF m, n, all
  <2>2. ASSUME NEW k \in 1..(m + n) PROVE (k <= m /\ k \in 1..m) \/ (~ k <= m /\ k - m \in 1..n)
    <3>1. m \in Nat /\ n \in Nat
      BY <1>2
    <3> QED BY ONLY <2>2, <3>1
  <2> QED BY <1>2, <2>1, <2>2
<1> HIDE DEF m, n, all
<1>4. Means(all, 1, m, g)
  <2> DEFINE d == 0
  <2>1. d \in Nat /\ 1 = 1 + d /\ m = m + d /\ \A k \in 1..m : all[k + d] = t[k]
    BY <1>2
  <2> HIDE DEF d
  <2>2. Moved(t, 1, m, all, 1, m)
    BY <2>1 DEF Moved
  <2> QED BY <1>1, <1>2, <2>2, MeansElsewhere
<1>5. Means(all, m + 1, m + n, h)
  <2> DEFINE x == m + 1
             y == m + n
  <2>1. /\ \A k \in 1..n : all[k + m] = u[k]
        /\ x = 1 + m /\ y = n + m /\ m \in Nat
    BY <1>2
  <2> HIDE DEF x, y
  <2>3. Moved(u, 1, n, all, x, y)
    BY <2>1 DEF Moved
  <2>2. Means(all, x, y, h)
    BY <1>1, <1>2, <2>3, MeansElsewhere
  <2> QED BY <2>2 DEF x, y
<1>6. Means(all, 1, m + n, g \o h)
  <2> DEFINE j == m + 1
             z == m + n
  <2>1. j \in Nat /\ j = m + 1 /\ z \in Int /\ 1 <= j /\ m <= z
    BY <1>2
  <2>2. Means(all, j, z, h)
    BY <1>5
  <2> HIDE DEF j, z
  <2>3. Means(all, 1, z, g \o h)
    BY <1>1, <1>2, <1>4, <2>1, <2>2, MeansJoin
  <2> QED BY <2>3 DEF z
<1> QED BY <1>2, <1>3, <1>6 DEF Spells, all

(* What is safe stands for itself. *)
LEMMA SpellsSafe ==
  ASSUME NEW escapeHTML \in BOOLEAN, NEW t \in Seq(Symbols), \A k \in 1..Len(t) : Safe(t[k], escapeHTML)
  PROVE  Spells(t, t, escapeHTML)
<1> DEFINE n == Len(t)
           b == [k \in 1..(n + 1) |-> k]
<1>1. n \in Nat
  BY LenProperties
<1> HIDE DEF n
<1>2. b \in [1..(n + 1) -> 1..(n + 1)] /\ b[1] = 1 /\ b[n + 1] = n + 1
  BY <1>1
<1>3. ASSUME NEW k \in 1..n PROVE IsItem(t, b[k], b[k + 1] - 1, t[k])
  <2>1. b[k] = k /\ b[k + 1] - 1 = k
    BY <1>1
  <2>2. Plain(t[k])
    BY DEF Safe, Plain, n
  <2> HIDE DEF b
  <2> QED BY <2>1, <2>2 DEF IsItem
<1> HIDE DEF b
<1>4. Means(t, 1, n, t)
  BY <1>2, <1>3 DEF Means, n
<1>5. \A k \in 1..n : t[k] # "LS" /\ (escapeHTML => t[k] # "<")
  BY DEF Safe, n
<1> QED BY <1>4, <1>5 DEF Spells, n

(* What is not safe has an escape. *)
Held(c) == IF c \in Invalid THEN "REPL" ELSE c

LEMMA RepairedHolds ==
  ASSUME NEW s \in Seq(Symbols)
  PROVE  /\ Repaired(s) \in Seq(Symbols) /\ Len(Repaired(s)) = Len(s)
         /\ \A k \in 1..Len(s) : Repaired(s)[k] = Held(s[k])
<1>1. Len(s) \in Nat /\ DOMAIN s = 1..Len(s) /\ \A k \in 1..Len(s) : s[k] \in Symbols
  BY LenProperties, ElementOfSeq
<1>2. "REPL" \in Symbols
  BY DEF Symbols, Runes
<1>3. Repaired(s) = [k \in 1..Len(s) |-> Held(s[k])]
  BY <1>1 DEF Repaired, Held
<1>4. \A k \in 1..Len(s) : Held(s[k]) \in Symbols
  BY <1>1, <1>2 DEF Held
<1> QED BY <1>1, <1>3, <1>4

LEMMA UnsafeSymbols ==
  ASSUME NEW escapeHTML \in BOOLEAN, NEW c, ~ Safe(c, escapeHTML)
  PROVE  \/ c \in {"\\", Quote}
         \/ c = "LF" /\ c \notin {"\\", Quote}
         \/ c = "BS" /\ c \notin {"\\", Quote, "LF"}
         \/ /\ Held(c) \in {"CTL", "VT", "REPL", "LS", "<"} /\ c \notin {"\\", Quote, "LF", "BS"}
BY Quotes DEF Safe, Controls, Invalid, Leads, Held

LEMMA SpellsEscape ==
  ASSUME NEW escapeHTML \in BOOLEAN, NEW c \in Symbols, ~ Safe(c, escapeHTML)
  PROVE  Spells(Escapes(c), <<Held(c)>>, escapeHTML)
<1> DEFINE t == Escapes(c)
           h == Held(c)
<1> SUFFICES Spells(t, <<h>>, escapeHTML)
  OBVIOUS
<1>1. h \in Symbols /\ <<h>> \in Seq(Symbols) /\ Len(<<h>>) = 1 /\ <<h>>[1] = h
  BY DEF Held, Symbols, Runes
<1>2. ASSUME NEW n \in 1..3, t \in Seq(Symbols), Len(t) = n, IsItem(t, 1, n, h),
             \A k \in 1..n : t[k] # "LS" /\ t[k] # "<"
      PROVE  Spells(t, <<h>>, escapeHTML)
  <2> HIDE DEF t, h
  <2> DEFINE b == [k \in 1..2 |-> IF k = 1 THEN 1 ELSE n + 1]
  <2>1. b \in [1..2 -> 1..(n + 1)] /\ b[1] = 1 /\ b[2] = n + 1 /\ b[2] - 1 = n
    OBVIOUS
  <2>2. \A k \in 1..1 : IsItem(t, b[k], b[k + 1] - 1, <<h>>[k])
    <3> HIDE DEF b
    <3>1. ASSUME NEW k \in 1..1 PROVE k = 1 /\ k + 1 = 2
      BY <3>1
    <3> QED BY <1>1, <1>2, <2>1, <3>1
  <2> HIDE DEF b
  <2>3. Means(t, 1, n, <<h>>)
    <3>1. Len(<<h>>) + 1 = 2 /\ Len(<<h>>) = 1
      BY <1>1
    <3> QED BY <2>1, <2>2, <3>1 DEF Means
  <2> QED BY <1>1, <1>2, <2>3 DEF Spells
<1>3. "\\" \in Symbols /\ Quote \in Symbols /\ "u" \in Symbols /\ "n" \in Symbols /\ "b" \in Symbols /\ Quote \notin {"LS", "<"}
  BY Zenon DEF Symbols, Quote
<1>4. ASSUME NEW x \in Symbols, x \notin {"LS", "<"}, t = <<"\\", x>>, <<x, h>> \in Letters
      PROVE  Spells(t, <<h>>, escapeHTML)
  <2>1. t \in Seq(Symbols) /\ Len(t) = 2 /\ t[1] = "\\" /\ t[2] = x
    BY <1>3, <1>4
  <2> HIDE DEF t, h
  <2>2. IsItem(t, 1, 2, h)
    BY <1>4, <2>1 DEF IsItem
  <2>3. \A k \in 1..2 : t[k] # "LS" /\ t[k] # "<"
    BY <1>4, <2>1
  <2> QED BY <1>2, <2>1, <2>2, <2>3
<1>5. CASE c \in {"\\", Quote}
  <2>1. t = <<"\\", c>>
    <3>1. c # "LF" /\ c # "BS"
      BY <1>5, Quotes DEF Controls
    <3> QED BY <1>5, <3>1 DEF Escapes
  <2>2. h = c
    BY <1>5, Quotes DEF Held, Invalid, Leads
  <2>3. c \notin {"LS", "<"}
    BY <1>3, <1>5
  <2> HIDE DEF t, h
  <2>4. <<c, h>> \in Letters
    BY <1>5, <2>2, Pairs
  <2> QED BY <1>4, <2>1, <2>3, <2>4
<1>6. CASE c = "LF" /\ c \notin {"\\", Quote}
  <2>1. t = <<"\\", "n">>
    BY <1>6 DEF Escapes
  <2>2. h = "LF"
    BY <1>6 DEF Held, Invalid, Leads
  <2> HIDE DEF t, h
  <2>3. <<"n", h>> \in Letters
    BY <2>2, Pairs
  <2> QED BY <1>3, <1>4, <2>1, <2>3
<1>7. CASE c = "BS" /\ c \notin {"\\", Quote, "LF"}
  <2>1. t = <<"\\", "b">>
    BY <1>7 DEF Escapes
  <2>2. h = "BS"
    BY <1>7 DEF Held, Invalid, Leads
  <2> HIDE DEF t, h
  <2>3. <<"b", h>> \in Letters
    BY <2>2, Pairs
  <2> QED BY <1>3, <1>4, <2>1, <2>3
<1>8. CASE h \in {"CTL", "VT", "REPL", "LS", "<"} /\ c \notin {"\\", Quote, "LF", "BS"}
  <2> DEFINE q == QuadOf(h)
  <2>1. <<c>> \in Seq(Symbols) /\ Len(<<c>>) = 1 /\ <<c>>[1] = c
    OBVIOUS
  <2>2. Repaired(<<c>>)[1] = h
    <3> DEFINE s == <<c>>
    <3>1. s \in Seq(Symbols) /\ 1 \in 1..Len(s) /\ s[1] = c
      BY <2>1
    <3> HIDE DEF s
    <3>2. Repaired(s)[1] = Held(s[1])
      BY <3>1, RepairedHolds
    <3> QED BY <3>1, <3>2 DEF s
  <2>3. t = <<"\\", "u", q>>
    BY <1>8, <2>2 DEF Escapes
  <2> HIDE DEF t, h
  <2>4. \E x \in DOMAIN Stands : Stands[x] = h
    BY <1>8 DEF Stands
  <2>5. q \in DOMAIN Stands /\ Stands[q] = h
    BY <2>4 DEF QuadOf
  <2>6. <<q, h>> \in Hex
    BY <2>5, HexDigits
  <2>7. q \in Symbols /\ q # "LS" /\ q # "<"
    BY <2>5, HexDigits DEF Symbols, Quads
  <2> HIDE DEF q
  <2>8. t \in Seq(Symbols) /\ Len(t) = 3 /\ t[1] = "\\" /\ t[2] = "u" /\ t[3] = q
    BY <1>3, <2>3, <2>7
  <2>9. IsItem(t, 1, 3, h)
    BY <2>6, <2>8 DEF IsItem
  <2>10. \A k \in 1..3 : t[k] # "LS" /\ t[k] # "<"
    BY <2>7, <2>8
  <2> QED BY <1>2, <2>8, <2>9, <2>10
<1> QED BY <1>5, <1>6, <1>7, <1>8, UnsafeSymbols

(* One round of appendEscapedString() at x, with what it writes from there  *)
(* on, f. *)
EscapeRound(s, escapeHTML, x, f) ==
  IF x.i > Len(s) THEN SubSeq(s, x.start, Len(s))
  ELSE IF Safe(s[x.i], escapeHTML) THEN f[Standing(x.i + 1, x.start)]
  ELSE SubSeq(s, x.start, x.i - 1) \o Escapes(s[x.i]) \o f[Standing(x.i + 1, x.i + 1)]

LEMMA EscapeStringIsALoop ==
  ASSUME NEW s \in Seq(Symbols), NEW escapeHTML \in BOOLEAN
  PROVE  \E f :
           /\ EscapeString(s, escapeHTML) = <<Quote>> \o f[Standing(1, 1)] \o <<Quote>>
           /\ \A x \in EscapeStates(s) : f[x] = EscapeRound(s, escapeHTML, x, f)
<1> DEFINE S == EscapeStates(s)
           V == Seq(Symbols)
           n == Len(s)
           IsSafe(x) == Safe(s[x.i], escapeHTML)
           Written(x) == SubSeq(s, x.start, x.i - 1) \o Escapes(s[x.i])
           ends   == {x \in S : x.i > n}
           next   == [x \in S |-> Standing(x.i + 1, IF IsSafe(x) THEN x.start ELSE x.i + 1)]
           size   == [x \in S |-> n + 1 - x.i]
           result == [x \in S |-> SubSeq(s, x.start, n)]
           comb   == [x \in S |-> [v \in V |-> IF x.i > n \/ IsSafe(x) THEN v ELSE Written(x) \o v]]
           Body(f) == [x \in S |-> EscapeRound(s, escapeHTML, x, f)]
           escaped == CHOOSE f : f = Body(f)
<1>1. n \in Nat /\ \A k \in 1..n : s[k] \in Symbols
  BY LenProperties, ElementOfSeq
<1>2. EscapeString(s, escapeHTML) = <<Quote>> \o escaped[Standing(1, 1)] \o <<Quote>>
  BY DEF EscapeString, EscapeRound
<1> HIDE DEF n, V
<1>3. ASSUME NEW x \in S PROVE x.i \in 1..(n + 1) /\ x.start \in 1..(n + 1)
  BY DEF EscapeStates, n
<1>4. ASSUME NEW i \in 1..(n + 1), NEW b \in 1..(n + 1)
      PROVE  Standing(i, b) \in S /\ Standing(i, b).i = i /\ Standing(i, b).start = b
  BY DEF EscapeStates, Standing, n
<1>5. ASSUME NEW x \in S, x \notin ends
      PROVE  /\ x.i \in 1..n /\ x.i + 1 \in 1..(n + 1)
             /\ next[x] \in S /\ size[next[x]] < size[x]
  <2>1. x.i \in 1..n /\ x.i + 1 \in 1..(n + 1)
    BY <1>1, <1>3, <1>5
  <2> DEFINE b == IF IsSafe(x) THEN x.start ELSE x.i + 1
             y == next[x]
  <2>2. b \in 1..(n + 1)
    BY <1>3, <2>1
  <2>3. y = Standing(x.i + 1, b)
    OBVIOUS
  <2> HIDE DEF b, next, S
  <2>4. y \in S /\ y.i = x.i + 1
    BY <1>4, <2>1, <2>2, <2>3
  <2> HIDE DEF y
  <2>5. size[y] = n + 1 - y.i /\ size[x] = n + 1 - x.i
    BY <2>4
  <2> HIDE DEF size
  <2>6. size[y] < size[x]
    BY <1>1, <2>1, <2>4, <2>5
  <2> QED BY <2>1, <2>4, <2>6 DEF y
<1>6. ASSUME NEW x \in S PROVE size[x] \in Nat
  <2>1. size[x] = n + 1 - x.i
    OBVIOUS
  <2> HIDE DEF size, S
  <2> QED BY <1>1, <1>3, <2>1
<1>7. ASSUME NEW l \in Int, NEW h \in Int, 1 <= l, h <= n PROVE SubSeq(s, l, h) \in V
  <2>1. \A k \in l..h : s[k] \in Symbols
    BY <1>1, <1>7
  <2> QED BY <2>1, SubSeqProperties DEF V
<1>8. ASSUME NEW x \in S, x \notin ends, ~ IsSafe(x) PROVE Written(x) \in V
  <2>1. x.i \in 1..n /\ s[x.i] \in Symbols /\ x.start \in 1..(n + 1)
    BY <1>1, <1>3, <1>5, <1>8
  <2>2. Escapes(s[x.i]) \in V
    BY <1>8, <2>1, SpellsEscape DEF Spells, V
  <2>3. SubSeq(s, x.start, x.i - 1) \in V
    <3>1. x.start \in Int /\ x.i - 1 \in Int /\ 1 <= x.start /\ x.i - 1 <= n
      BY <1>1, <2>1
    <3> QED BY <1>7, <3>1
  <2> QED BY <2>2, <2>3, ConcatProperties DEF V
<1>9. result \in [S -> V]
  <2>1. ASSUME NEW x \in S PROVE SubSeq(s, x.start, n) \in V
    <3>1. x.start \in Int /\ 1 <= x.start /\ n \in Int /\ n <= n
      BY <1>1, <1>3
    <3> QED BY <1>7, <3>1
  <2> HIDE DEF S
  <2> QED BY <2>1
<1>10. comb \in [S -> [V -> V]]
  <2>1. ASSUME NEW x \in S, NEW v \in V PROVE (IF x.i > n \/ IsSafe(x) THEN v ELSE Written(x) \o v) \in V
    <3>1. ASSUME ~ (x.i > n), ~ IsSafe(x) PROVE Written(x) \o v \in V
      <4> HIDE DEF Written
      <4>1. Written(x) \in V
        BY <1>8, <3>1
      <4> QED BY <4>1, ConcatProperties DEF V
    <3> QED BY <3>1
  <2> HIDE DEF S, IsSafe, Written
  <2> QED BY <2>1
<1> DEFINE Round1(g, x) == IF x \in ends THEN result[x] ELSE comb[x][g[next[x]]]
<1>11. PICK g \in [S -> V] : \A x \in S : g[x] = Round1(g, x)
  <2> HIDE DEF S, V, ends, next, size, result, comb
  <2>1. Ends(S, ends, next, size)
    BY <1>5, <1>6 DEF Ends
  <2>2. Recurs(S, V, ends, next, result, comb)
    BY ONLY <1>9, <1>10, <2>1, Recursion
  <2> QED BY <2>2 DEF Recurs
<1>12. ASSUME NEW h, NEW x \in S, x \notin ends => h[next[x]] \in V
       PROVE  EscapeRound(s, escapeHTML, x, h) = Round1(h, x)
  <2>1. CASE x.i > n
    <3>1. EscapeRound(s, escapeHTML, x, h) = SubSeq(s, x.start, n)
      <4> HIDE DEF S
      <4> QED BY <2>1 DEF EscapeRound, n
    <3> QED BY <2>1, <3>1
  <2>2. CASE ~ x.i > n
    <3> DEFINE v == h[next[x]]
    <3>1. v \in V /\ Round1(h, x) = comb[x][v] /\ next[x] = Standing(x.i + 1, IF IsSafe(x) THEN x.start ELSE x.i + 1)
      BY <1>12, <2>2
    <3>2. comb[x][v] = IF IsSafe(x) THEN v ELSE Written(x) \o v
      <4> HIDE DEF v, IsSafe, Written, next
      <4> QED BY <2>2, <3>1
    <3>3. EscapeRound(s, escapeHTML, x, h) = IF IsSafe(x) THEN h[Standing(x.i + 1, x.start)]
                                             ELSE Written(x) \o h[Standing(x.i + 1, x.i + 1)]
      <4> HIDE DEF S, comb, next, ends, result
      <4> QED BY <2>2 DEF EscapeRound, n
    <3> HIDE DEF comb, next, IsSafe, Written, Round1
    <3> QED BY <3>1, <3>2, <3>3
  <2> QED BY <2>1, <2>2
<1>13. g = Body(g)
  <2>1. ASSUME NEW x \in S PROVE g[x] = EscapeRound(s, escapeHTML, x, g)
    <3>1. x \notin ends => g[next[x]] \in V
      BY <1>5, <1>11
    <3> HIDE DEF S, ends, next, Round1
    <3> QED BY <1>11, <1>12, <3>1
  <2> HIDE DEF S
  <2> QED BY <1>11, <2>1
<1>14. escaped = Body(escaped)
  <2> HIDE DEF Body
  <2> QED BY <1>13
<1>15. \A x \in S : escaped[x] = EscapeRound(s, escapeHTML, x, escaped)
  <2> HIDE DEF escaped, S
  <2> QED BY <1>14
<1> HIDE DEF escaped
<1> QED BY <1>2, <1>15

LEMMA SplitAt ==
  ASSUME NEW S, NEW r \in Seq(S), NEW i \in 1..Len(r), NEW a \in 1..i
  PROVE  SubSeq(r, a, Len(r)) = SubSeq(r, a, i - 1) \o <<r[i]>> \o SubSeq(r, i + 1, Len(r))
<1> DEFINE n == Len(r)
           u == SubSeq(r, a, i - 1)
           v == SubSeq(r, i + 1, n)
           w == SubSeq(r, a, n)
           one == <<r[i]>>
           uv == u \o one
           all == uv \o v
<1>1. n \in Nat /\ i \in Int /\ a \in Int /\ 1 <= a /\ a <= i /\ i <= n /\ \A k \in 1..n : r[k] \in S
  BY LenProperties, ElementOfSeq
<1> HIDE DEF n
<1>2. u \in Seq(S) /\ Len(u) = i - a /\ \A k \in 1..(i - a) : u[k] = r[a + k - 1]
  <2>1. \A k \in a..(i - 1) : r[k] \in S
    BY <1>1
  <2>2. i - 1 - a + 1 = i - a /\ i - 1 \in Int /\ (a <= i - 1 \/ i - a = 0)
    BY <1>1
  <2> QED BY <1>1, <2>1, <2>2, SubSeqProperties
<1>3. v \in Seq(S) /\ Len(v) = n - i /\ \A k \in 1..(n - i) : v[k] = r[i + k]
  <2>1. \A k \in (i + 1)..n : r[k] \in S
    BY <1>1
  <2>2. n - (i + 1) + 1 = n - i /\ i + 1 \in Int /\ (i + 1 <= n \/ n - i = 0) /\ \A k \in 1..(n - i) : i + 1 + k - 1 = i + k
    BY <1>1
  <2> QED BY <1>1, <2>1, <2>2, SubSeqProperties
<1>4. w \in Seq(S) /\ Len(w) = n - a + 1 /\ \A k \in 1..(n - a + 1) : w[k] = r[a + k - 1]
  <2>1. \A k \in a..n : r[k] \in S
    BY <1>1
  <2> QED BY <1>1, <2>1, SubSeqProperties
<1>5. one \in Seq(S) /\ Len(one) = 1 /\ one[1] = r[i]
  BY <1>1
<1> HIDE DEF u, v, w, one
<1>6. uv \in Seq(S) /\ Len(uv) = i - a + 1 /\ \A k \in 1..(i - a + 1) : uv[k] = IF k <= i - a THEN u[k] ELSE one[k - (i - a)]
  <2>1. i - a \in Nat
    BY <1>1
  <2>2. /\ uv \in Seq(S) /\ Len(uv) = Len(u) + Len(one)
        /\ \A k \in 1..(Len(u) + Len(one)) : uv[k] = IF k <= Len(u) THEN u[k] ELSE one[k - Len(u)]
    BY <1>2, <1>5, ConcatProperties
  <2> HIDE DEF uv
  <2> QED BY <1>2, <1>5, <2>1, <2>2
<1> HIDE DEF uv
<1>7. all \in Seq(S) /\ Len(all) = n - a + 1 /\ \A k \in 1..(n - a + 1) : all[k] = IF k <= i - a + 1 THEN uv[k] ELSE v[k - (i - a + 1)]
  <2>1. i - a + 1 + (n - i) = n - a + 1
    BY <1>1
  <2>2. /\ all \in Seq(S) /\ Len(all) = Len(uv) + Len(v)
        /\ \A k \in 1..(Len(uv) + Len(v)) : all[k] = IF k <= Len(uv) THEN uv[k] ELSE v[k - Len(uv)]
    BY <1>3, <1>6, ConcatProperties
  <2>3. Len(uv) + Len(v) = n - a + 1 /\ Len(uv) = i - a + 1
    BY <1>3, <1>6, <2>1
  <2> HIDE DEF all
  <2> QED BY <2>2, <2>3
<1> HIDE DEF all
<1>8. ASSUME NEW k \in 1..(n - a + 1) PROVE w[k] = all[k]
  <2>1. CASE k <= i - a
    <3>1. k \in 1..(i - a) /\ k \in 1..(i - a + 1) /\ k <= i - a + 1
      BY <1>1, <2>1
    <3> QED BY <1>2, <1>4, <1>6, <1>7, <2>1, <3>1
  <2>2. CASE k = i - a + 1
    <3>1. a + k - 1 = i /\ k - (i - a) = 1 /\ ~ k <= i - a /\ k <= i - a + 1 /\ k \in 1..(i - a + 1)
      BY <1>1, <2>2
    <3> QED BY <1>4, <1>5, <1>6, <1>7, <3>1
  <2>3. CASE k > i - a + 1
    <3> DEFINE q == k - (i - a + 1)
    <3>1. q \in 1..(n - i) /\ i + q = a + k - 1 /\ ~ k <= i - a + 1
      BY <1>1, <2>3
    <3>2. all[k] = v[q]
      BY <1>7, <3>1
    <3> HIDE DEF q
    <3> QED BY <1>3, <1>4, <3>1, <3>2
  <2> QED BY <1>1, <2>1, <2>2, <2>3
<1>9. w = all
  BY <1>4, <1>7, <1>8, SeqEqual
<1> QED BY <1>9 DEF w, all, uv, u, one, v, n

LEMMA SafePart ==
  ASSUME NEW escapeHTML \in BOOLEAN, NEW s \in Seq(Symbols), NEW a \in Int, NEW b \in Int, 1 <= a, b <= Len(s),
         \A k \in a..b : Safe(s[k], escapeHTML)
  PROVE  Spells(SubSeq(s, a, b), SubSeq(Repaired(s), a, b), escapeHTML)
<1> DEFINE t == SubSeq(s, a, b)
           r == Repaired(s)
           u == SubSeq(r, a, b)
           m == IF a <= b THEN b - a + 1 ELSE 0
<1>1. Len(s) \in Nat /\ \A k \in 1..Len(s) : s[k] \in Symbols
  BY LenProperties, ElementOfSeq
<1>2. \A k \in 1..Len(s) : r[k] \in Symbols /\ r[k] = Held(s[k])
  BY <1>1, RepairedHolds, ElementOfSeq
<1> HIDE DEF r
<1>3. \A k \in a..b : k \in 1..Len(s) /\ s[k] = r[k]
  <2>1. \A k \in a..b : k \in 1..Len(s)
    BY <1>1
  <2> QED BY <1>2, <2>1 DEF Safe, Held
<1>4. /\ t \in Seq(Symbols) /\ Len(t) = m /\ \A k \in 1..(b - a + 1) : t[k] = s[a + k - 1]
      /\ u \in Seq(Symbols) /\ Len(u) = m /\ \A k \in 1..(b - a + 1) : u[k] = r[a + k - 1]
  <2>1. /\ \A k \in a..b : s[k] \in Symbols
        /\ \A k \in a..b : r[k] \in Symbols
    BY <1>1, <1>2, <1>3
  <2> QED BY <2>1, SubSeqProperties
<1>5. \A k \in 1..m : k \in 1..(b - a + 1) /\ a + k - 1 \in a..b
  OBVIOUS
<1> HIDE DEF t, u, m
<1>6. \A k \in 1..m : t[k] = u[k] /\ Safe(t[k], escapeHTML)
  BY <1>3, <1>4, <1>5
<1>7. t = u
  BY <1>4, <1>6, SeqEqual
<1>8. Spells(t, t, escapeHTML)
  BY <1>4, <1>6, SpellsSafe
<1> QED BY <1>7, <1>8 DEF t, u, r

(* What appendEscapedString() writes between the quotes. *)
LEMMA EscapedSpells ==
  ASSUME NEW s \in Seq(Symbols), NEW escapeHTML \in BOOLEAN
  PROVE  \E body : /\ EscapeString(s, escapeHTML) = <<Quote>> \o body \o <<Quote>>
                   /\ Spells(body, Repaired(s), escapeHTML)
<1> DEFINE n == Len(s)
           r == Repaired(s)
           S == EscapeStates(s)
<1>1. PICK f : /\ EscapeString(s, escapeHTML) = <<Quote>> \o f[Standing(1, 1)] \o <<Quote>>
               /\ \A x \in S : f[x] = EscapeRound(s, escapeHTML, x, f)
  BY EscapeStringIsALoop
<1>2. /\ n \in Nat /\ \A k \in 1..n : s[k] \in Symbols
      /\ r \in Seq(Symbols) /\ Len(r) = n /\ \A k \in 1..n : r[k] = Held(s[k])
  BY LenProperties, ElementOfSeq, RepairedHolds
<1>3. ASSUME NEW x \in S PROVE x.i \in 1..(n + 1) /\ x.start \in 1..(n + 1)
  BY DEF EscapeStates
<1>4. ASSUME NEW i \in 1..(n + 1), NEW b \in 1..(n + 1)
      PROVE  Standing(i, b) \in S /\ Standing(i, b).i = i /\ Standing(i, b).start = b
  BY DEF EscapeStates, Standing
<1> HIDE DEF r, S
<1> DEFINE Reached(x) == x \in S /\ x.start <= x.i /\ \A k \in x.start..(x.i - 1) : Safe(s[k], escapeHTML)
           Done(x) == Spells(f[x], SubSeq(r, x.start, n), escapeHTML)
           Fails == {m \in Nat : \E x \in S : Reached(x) /\ m = n + 1 - x.i /\ ~ Done(x)}
<1>5. ASSUME NEW x \in S, Reached(x), \A y \in S : Reached(y) /\ x.i < y.i => Done(y)
      PROVE  Done(x)
  <2> DEFINE i == x.i
             a == x.start
  <2>1. i \in 1..(n + 1) /\ a \in 1..i /\ \A k \in a..(i - 1) : Safe(s[k], escapeHTML)
    BY <1>2, <1>3, <1>5
  <2>2. f[x] = IF i > n THEN SubSeq(s, a, n)
               ELSE IF Safe(s[i], escapeHTML) THEN f[Standing(i + 1, a)]
               ELSE SubSeq(s, a, i - 1) \o Escapes(s[i]) \o f[Standing(i + 1, i + 1)]
    BY <1>1 DEF EscapeRound
  <2> SUFFICES Spells(f[x], SubSeq(r, a, n), escapeHTML)
    OBVIOUS
  <2>3. ASSUME NEW b \in 1..(n + 1), i <= n, b <= i + 1, \A k \in b..i : Safe(s[k], escapeHTML)
        PROVE  Spells(f[Standing(i + 1, b)], SubSeq(r, b, n), escapeHTML)
    <3> DEFINE y == Standing(i + 1, b)
    <3>1. i + 1 \in 1..(n + 1)
      BY <1>2, <2>1, <2>3
    <3>2. y \in S /\ y.i = i + 1 /\ y.start = b
      BY <1>4, <3>1
    <3> HIDE DEF y
    <3>3. i + 1 - 1 = i /\ i < i + 1
      BY <2>1
    <3>4. Reached(y) /\ x.i < y.i
      <4>1. y.i - 1 = i /\ i < y.i
        <5> HIDE DEF i, S
        <5>1. i \in Int
          BY <2>1
        <5> QED BY ONLY <3>2, <5>1
      <4>2. \A k \in y.start..(y.i - 1) : Safe(s[k], escapeHTML)
        <5> HIDE DEF i
        <5> QED BY ONLY <2>3, <3>2, <4>1
      <4> QED BY <2>3, <3>2, <4>1, <4>2
    <3>5. Done(y)
      <4> HIDE DEF Done, Reached
      <4> QED BY <1>5, <3>2, <3>4
    <3> QED BY <3>2, <3>5 DEF y
  <2> HIDE DEF i, a, Done, Reached, Fails
  <2>4. CASE i > n
    <3>1. i = n + 1 /\ i - 1 = n /\ a \in Int /\ n \in Int /\ 1 <= a /\ n <= n
      BY <1>2, <2>1, <2>4
    <3>2. Spells(SubSeq(s, a, n), SubSeq(Repaired(s), a, n), escapeHTML)
      BY <2>1, <3>1, SafePart
    <3> QED BY <2>2, <2>4, <3>2 DEF r
  <2>5. CASE ~ i > n /\ Safe(s[i], escapeHTML)
    <3>1. a \in 1..(n + 1) /\ i <= n /\ a <= i + 1 /\ \A k \in a..i : Safe(s[k], escapeHTML)
      <4>1. a \in 1..(n + 1) /\ i <= n /\ a <= i + 1 /\ \A k \in a..i : k \in a..(i - 1) \/ k = i
        BY <1>2, <2>1, <2>5
      <4> QED BY <2>1, <2>5, <4>1
    <3>2. Spells(f[Standing(i + 1, a)], SubSeq(r, a, n), escapeHTML)
      BY <2>3, <3>1
    <3> QED BY <2>2, <2>5, <3>2
  <2>6. CASE ~ i > n /\ ~ Safe(s[i], escapeHTML)
    <3>1. /\ i \in 1..n /\ a \in 1..i /\ i + 1 \in 1..(n + 1) /\ i <= n /\ i + 1 <= i + 1
          /\ a \in Int /\ i - 1 \in Int /\ 1 <= a /\ i - 1 <= n /\ \A k \in (i + 1)..i : FALSE
      BY <1>2, <2>1, <2>6
    <3> DEFINE t1 == SubSeq(s, a, i - 1)
               h1 == SubSeq(r, a, i - 1)
               t2 == Escapes(s[i])
               h2 == <<r[i]>>
               t3 == f[Standing(i + 1, i + 1)]
               h3 == SubSeq(r, i + 1, n)
    <3>2. Spells(t1, h1, escapeHTML)
      BY <2>1, <3>1, SafePart DEF r
    <3>3. Spells(t2, h2, escapeHTML)
      BY <1>2, <2>6, <3>1, SpellsEscape
    <3>4. Spells(t3, h3, escapeHTML)
      BY <2>3, <3>1
    <3>5. SubSeq(r, a, n) = h1 \o h2 \o h3
      BY <1>2, <3>1, SplitAt
    <3>6. f[x] = t1 \o t2 \o t3
      BY <2>2, <2>6
    <3> HIDE DEF t1, t2, t3, h1, h2, h3
    <3>7. Spells(t1 \o t2, h1 \o h2, escapeHTML)
      BY <3>2, <3>3, SpellsJoin
    <3> QED BY <3>4, <3>5, <3>6, <3>7, SpellsJoin
  <2> QED BY <2>4, <2>5, <2>6
<1>6. Fails = {}
  <2> SUFFICES ASSUME Fails # {} PROVE FALSE
    OBVIOUS
  <2>1. PICK m \in Fails : \A o \in Fails : m <= o
    <3>1. Fails \subseteq Nat
      OBVIOUS
    <3> HIDE DEF Fails
    <3> QED BY <3>1, Smallest
  <2>2. PICK x \in S : Reached(x) /\ m = n + 1 - x.i /\ ~ Done(x)
    OBVIOUS
  <2>3. ASSUME NEW y \in S, Reached(y), x.i < y.i, ~ Done(y) PROVE FALSE
    <3> DEFINE k == n + 1 - y.i
    <3>1. x.i \in 1..(n + 1) /\ y.i \in 1..(n + 1)
      BY <1>3
    <3>2. k \in Nat /\ k < m
      BY <1>2, <2>2, <2>3, <3>1
    <3>3. k \in Fails
      BY <2>3, <3>2
    <3>4. m \in Nat
      OBVIOUS
    <3> HIDE DEF Fails, k
    <3>5. m <= k
      BY <2>1, <3>3
    <3> QED BY ONLY <3>2, <3>4, <3>5
  <2> HIDE DEF Reached, Done
  <2> QED BY <1>5, <2>2, <2>3
<1> DEFINE x0 == Standing(1, 1)
<1>7. x0 \in S /\ x0.i = 1 /\ x0.start = 1
  <2>1. 1 \in 1..(n + 1)
    BY <1>2
  <2> QED BY <1>4, <2>1
<1>8. Done(x0)
  <2> HIDE DEF x0, Done
  <2>1. Reached(x0)
    BY <1>7
  <2>2. n + 1 - x0.i \in Nat
    BY <1>2, <1>7
  <2> HIDE DEF Reached
  <2> QED BY <1>6, <1>7, <2>1, <2>2
<1>9. SubSeq(r, 1, n) = r
  BY <1>2, SubSeqFull
<1> QED BY <1>1, <1>7, <1>8, <1>9 DEF r

LEMMA MeansText ==
  ASSUME NEW data, NEW i \in Nat, NEW j \in Int, NEW held \in Seq(Symbols), Len(data) \in Nat, 1 <= i, j <= Len(data),
         Means(data, i, j, held)
  PROVE  IsText(data, i, j)
<1> DEFINE n == Len(held)
           e == j + 1
<1>1. n \in Nat /\ e \in Int /\ e <= Len(data) + 1
  BY LenProperties
<1>2. PICK b \in [1..(n + 1) -> i..e] :
             /\ b[1] = i /\ b[n + 1] = e
             /\ \A k \in 1..n : IsItem(data, b[k], b[k + 1] - 1, held[k])
  BY DEF Means
<1> HIDE DEF n, e
<1> DEFINE cuts == {b[k] : k \in 1..(n + 1)}
<1>3. cuts \in SUBSET (i..e) /\ {i, e} \subseteq cuts
  <2>1. 1 \in 1..(n + 1) /\ n + 1 \in 1..(n + 1)
    BY <1>1
  <2> QED BY <1>2, <2>1
<1>4. ASSUME NEW x \in cuts \ {e} PROVE \E l \in cuts, c \in Characters(data) : IsItem(data, x, l - 1, c)
  <2>1. PICK k \in 1..(n + 1) : x = b[k]
    BY <1>4
  <2>2. k \in 1..n /\ k + 1 \in 1..(n + 1)
    <3>1. k # n + 1
      BY <1>2, <1>4, <2>1
    <3>2. n \in Nat
      BY <1>1
    <3> QED BY ONLY <2>1, <3>1, <3>2
  <2> DEFINE l == b[k + 1]
             c == held[k]
  <2>3. IsItem(data, x, l - 1, c) /\ l \in cuts
    BY <1>2, <2>1, <2>2
  <2>4. x \in 1..Len(data)
    <3>1. x \in i..e /\ x # e
      BY <1>3, <1>4
    <3> QED BY <1>1, <3>1
  <2> HIDE DEF l, c, cuts
  <2>5. c \in Characters(data)
    <3>1. ASSUME NEW a, <<a, c>> \in Letters \cup Hex PROVE c \in {p[2] : p \in Letters \cup Hex}
      <4> DEFINE p == <<a, c>>
      <4>1. p \in Letters \cup Hex /\ p[2] = c
        BY <3>1
      <4> HIDE DEF p
      <4> QED BY <4>1
    <3> QED BY <2>3, <2>4, <3>1 DEF IsItem, Characters
  <2> QED BY <2>3, <2>5
<1> HIDE DEF cuts
<1> QED BY <1>3, <1>4 DEF IsText, e

LEMMA QuotesAlone ==
  ASSUME NEW data, NEW k \in Nat, data[k] = Quote
  PROVE  /\ NoBlank(data, k)
         /\ \A j \in Nat : ~ IsNumber(data, k, j)
<1>1. Quote \notin White \cup {"/"}
  BY Quotes, Zenon DEF Quote, White
<1>2. NoBlank(data, k)
  <2> SUFFICES ASSUME NEW j \in k..Len(data), Blank(data, k, j) PROVE FALSE
    BY DEF NoBlank
  <2>1. j \in Int /\ k \in Int
    OBVIOUS
  <2> QED BY <1>1, <2>1, BlankBegins
<1>3. ASSUME NEW j \in Nat, IsNumber(data, k, j) PROVE FALSE
  <2>1. PICK s \in {k, k + 1} : \E f, e \in k..(j + 1) :
          (s = k + 1 => data[k] = "-") /\ IsInt(data, s, f - 1) /\ IsFrac(data, f, e - 1) /\ IsExp(data, e, j)
    BY <1>3 DEF IsNumber
  <2>2. PICK f \in k..(j + 1) : (s = k + 1 => data[k] = "-") /\ IsInt(data, s, f - 1)
    BY <2>1
  <2>3. Quote # "-" /\ Quote \notin Digits
    BY Kinds
  <2>4. s = k /\ Run(data, k, f - 1)
    BY <2>2, <2>3 DEF IsInt
  <2>5. data[k] \in Digits
    BY <2>4 DEF Run
  <2> QED BY <2>3, <2>5
<1> QED BY <1>2, <1>3

(* The scanner reads a text between two quotes as what it spells. *)
ReadBack(text, held) ==
  LET t == Next(text, Start)
  IN t.kind = "string" /\ t.data = held /\ Next(text, t.end).kind = "EOF"

LEMMA QuotedReads ==
  ASSUME NEW escapeHTML \in BOOLEAN, NEW body, NEW held, Spells(body, held, escapeHTML)
  PROVE  LET text == <<Quote>> \o body \o <<Quote>> IN
         /\ ReadBack(text, held)
         /\ \A k \in 1..Len(text) : text[k] # "LS" /\ (escapeHTML => text[k] # "<")
<1> DEFINE m == Len(body)
           one == <<Quote>>
           half == one \o body
           text == half \o one
           n == m + 2
<1>1. /\ body \in Seq(Symbols) /\ held \in Seq(Symbols) /\ Means(body, 1, m, held) /\ m \in Nat
      /\ \A k \in 1..m : body[k] # "LS" /\ (escapeHTML => body[k] # "<")
  BY LenProperties DEF Spells
<1>2. one \in Seq(Symbols) /\ Len(one) = 1 /\ one[1] = Quote
  <2>1. Quote \in Symbols
    BY DEF Symbols
  <2> QED BY <2>1
<1> HIDE DEF m, one
<1>3. /\ half \in Seq(Symbols) /\ Len(half) = 1 + m
      /\ \A k \in 1..(1 + m) : half[k] = IF k <= 1 THEN one[k] ELSE body[k - 1]
  <2>1. Len(one) + Len(body) = 1 + m
    BY <1>2 DEF m
  <2> HIDE DEF half
  <2>2. /\ half \in Seq(Symbols) /\ Len(half) = Len(one) + Len(body)
        /\ \A k \in 1..(Len(one) + Len(body)) : half[k] = IF k <= Len(one) THEN one[k] ELSE body[k - Len(one)]
    BY <1>1, <1>2, ConcatProperties DEF half
  <2> QED BY <1>2, <2>1, <2>2
<1> HIDE DEF half
<1>4. /\ text \in Seq(Symbols) /\ Len(text) = n
      /\ \A k \in 1..n : text[k] = IF k <= 1 + m THEN half[k] ELSE one[k - (1 + m)]
  <2>1. Len(half) + Len(one) = n
    BY <1>1, <1>2, <1>3
  <2> HIDE DEF text
  <2>2. /\ text \in Seq(Symbols) /\ Len(text) = Len(half) + Len(one)
        /\ \A k \in 1..(Len(half) + Len(one)) : text[k] = IF k <= Len(half) THEN half[k] ELSE one[k - Len(half)]
    BY <1>2, <1>3, ConcatProperties DEF text
  <2> QED BY <1>3, <2>1, <2>2
<1> HIDE DEF text
<1>5. /\ n \in Nat /\ 1 \in 1..n /\ n \in 1..n
      /\ text[1] = Quote /\ text[n] = Quote
      /\ \A k \in 1..m : text[k + 1] = body[k]
  <2>1. n \in Nat /\ 1 \in 1..n /\ n \in 1..n /\ ~ n <= 1 + m /\ n - (1 + m) = 1 /\ 1 <= 1 + m /\ 1 \in 1..(1 + m)
    BY <1>1
  <2>2. text[1] = Quote /\ text[n] = Quote
    BY <1>2, <1>3, <1>4, <2>1
  <2>3. ASSUME NEW k \in 1..m PROVE text[k + 1] = body[k]
    <3>1. k + 1 \in 1..n /\ k + 1 <= 1 + m /\ k + 1 \in 1..(1 + m) /\ ~ k + 1 <= 1 /\ k + 1 - 1 = k
      BY <1>1
    <3> QED BY <1>3, <1>4, <3>1
  <2> QED BY <2>1, <2>2, <2>3
<1>6. Means(text, 2, m + 1, held)
  <2> DEFINE y == m + 1
  <2>1. Moved(body, 1, m, text, 2, y)
    BY <1>1, <1>5 DEF Moved
  <2> HIDE DEF y
  <2>2. Means(text, 2, y, held)
    BY <1>1, <2>1, MeansElsewhere
  <2> QED BY <2>2 DEF y
<1>7. m + 1 = n - 1 /\ n - 1 \in Int /\ 1 <= 2 /\ n - 1 <= n /\ n \in 2..n /\ Len(text) \in Nat
  BY <1>1, <1>4
<1> HIDE DEF n
<1>8. Means(text, 2, n - 1, held) /\ IsText(text, 2, n - 1)
  <2>1. Means(text, 2, n - 1, held)
    BY <1>6, <1>7
  <2> QED BY <1>1, <1>4, <1>7, <2>1, MeansText
<1> DEFINE t == Next(text, Start)
<1>9. Yields(text, 1, t)
  <2> HIDE DEF t
  <2>1. Start.i = 1 /\ Start.i \in 1..(Len(text) + 1)
    BY <1>4, <1>5 DEF Start
  <2>2. PICK k \in 1..(n + 1) : Gap(text, 1, k - 1) /\ NoBlank(text, k) /\ Yields(text, k, t)
    BY <1>4, <2>1, NextOne DEF t
  <2>3. NoBlank(text, 1)
    BY <1>5, QuotesAlone
  <2>4. Gap(text, 1, 1 - 1) /\ 1 \in 1..(n + 1)
    BY <1>5, GapNone
  <2>5. k = 1
    <3> DEFINE l == 1
    <3>1. l \in Nat /\ l \in 1..(n + 1) /\ Gap(text, l, l - 1) /\ NoBlank(text, l) /\ Gap(text, l, k - 1)
      BY <2>2, <2>3, <2>4
    <3> HIDE DEF l
    <3>2. k = l
      BY <1>4, <2>2, <3>1, GapIsOne
    <3> QED BY <3>2 DEF l
  <2> QED BY <2>2, <2>5
<1> HIDE DEF t
<1>10. t.kind \notin {"EOF", "error"} /\ t.from = 1 /\ t.end.i = t.to + 1 /\ IsToken(text, t)
  <2>1. ~ (t.kind = "EOF" /\ 1 = Len(text) + 1)
    BY <1>4, <1>5
  <2>2. ~ NoToken(text, 1, t.code)
    <3> SUFFICES ASSUME NoToken(text, 1, t.code) PROVE FALSE
      OBVIOUS
    <3>1. \A k \in 2..n : text[k] = Quote => ~ IsText(text, 2, k - 1)
      BY <1>4, <1>5 DEF NoToken
    <3> QED BY <1>5, <1>7, <1>8, <3>1
  <2> QED BY <1>9, <2>1, <2>2 DEF Yields
<1>11. t.kind = "string"
  <2>1. t.kind \notin Punctuation \cup Literals
    BY <1>5, <1>10, Kinds DEF IsToken
  <2>2. t.kind # "number"
    <3> SUFFICES ASSUME t.kind = "number" PROVE FALSE
      OBVIOUS
    <3>1. t.to \in Nat /\ IsNumber(text, 1, t.to)
      BY <1>4, <1>5, <1>10 DEF IsToken, Longest
    <3> QED BY <1>5, <3>1, QuotesAlone
  <2> QED BY <1>10, <2>1, <2>2 DEF IsToken
<1>12. /\ t.to \in Nat /\ text[t.to] = Quote
       /\ Means(text, 2, t.to - 1, t.data) /\ t.data \in Seq(Symbols)
  BY <1>4, <1>5, <1>10, <1>11 DEF IsToken
<1>13. t.to = n /\ t.data = held
  <2> DEFINE j == t.to
             d == t.data
  <2>1. j \in Nat /\ n \in Nat /\ text[j] = Quote /\ Means(text, 2, j - 1, d) /\ d \in Seq(Symbols)
    BY <1>5, <1>12
  <2> HIDE DEF j, d
  <2>2. j = n /\ d = held
    BY <1>1, <1>5, <1>8, <2>1, MeansIsOne
  <2> QED BY <2>2 DEF j, d
<1>14. Next(text, t.end).kind = "EOF"
  <2> DEFINE s == t.end
             z == Next(text, s)
  <2>1. s.i = n + 1 /\ s.i \in 1..(Len(text) + 1)
    BY <1>4, <1>5, <1>10, <1>13
  <2> HIDE DEF s
  <2>2. PICK k \in s.i..(Len(text) + 1) : Yields(text, k, z)
    BY <1>4, <2>1, NextOne
  <2> HIDE DEF z
  <2>3. k = n + 1 /\ ~ k <= Len(text)
    BY <1>4, <1>5, <2>1
  <2>4. z.kind = "EOF"
    BY <2>2, <2>3 DEF Yields
  <2> QED BY <2>4 DEF z, s
<1>15. ReadBack(text, held)
  BY <1>11, <1>13, <1>14 DEF ReadBack, t
<1>16. ASSUME NEW k \in 1..n PROVE text[k] # "LS" /\ (escapeHTML => text[k] # "<")
  <2>1. Quote \notin {"LS", "<"}
    BY Zenon DEF Quote
  <2>2. CASE k = 1 \/ k = n
    BY <1>5, <2>1, <2>2
  <2>3. CASE k # 1 /\ k # n
    <3> DEFINE q == k - 1
    <3>1. q \in 1..m /\ k = q + 1
      BY <1>7, <1>1, <2>3
    <3> HIDE DEF q
    <3> QED BY <1>1, <1>5, <3>1
  <2> QED BY <2>2, <2>3
<1> QED BY <1>4, <1>15, <1>16 DEF text, half, one

(* Any string of bytes, escaped by the encoder, is read by the scanner as   *)
(* one token, which holds that string, repaired if it is not UTF-8; nothing *)
(* that was to be escaped is left (escape.go 8-66, utf8.go 10, lexer.go     *)
(* 36-72). *)
THEOREM EscapedScansBack == Spec => []EscapedStringsScanBack
<1>1. ASSUME Inv PROVE EscapedStringsScanBack
  <2> SUFFICES ASSUME NEW escapeHTML \in BOOLEAN
               PROVE  LET text == EscapeString(input, escapeHTML)
                          t    == Next(text, Start)
                      IN /\ t.kind = "string" /\ t.data = Repaired(input)
                         /\ Next(text, t.end).kind = "EOF"
                         /\ \A k \in 1..Len(text) : text[k] # "LS" /\ (escapeHTML => text[k] # "<")
    BY DEF EscapedStringsScanBack
  <2> DEFINE text == EscapeString(input, escapeHTML)
  <2>1. input \in Seq(Symbols)
    BY <1>1, TokenStreamAssumption DEF Inv
  <2>2. PICK body : text = <<Quote>> \o body \o <<Quote>> /\ Spells(body, Repaired(input), escapeHTML)
    BY <2>1, EscapedSpells
  <2>3. /\ ReadBack(text, Repaired(input))
        /\ \A k \in 1..Len(text) : text[k] # "LS" /\ (escapeHTML => text[k] # "<")
    <3> HIDE DEF text
    <3> QED BY <2>2, QuotedReads
  <2> QED BY <2>3 DEF ReadBack
<1> QED BY <1>1, AlwaysReading, PTL

-----------------------------------------------------------------------------
(* The conversion of numbers. *)
(* The division that the loops guard a multiplication with. *)
LEMMA Guard ==
  ASSUME NEW b \in Nat \ {0}, NEW n \in Nat, NEW x \in Nat
  PROVE  n > x \div b <=> n * b > x
<1> DEFINE q == x \div b
           r == x % b
<1>1. q \in Nat /\ r \in 0..(b - 1) /\ x = b * q + r
  OBVIOUS
<1> HIDE DEF q, r
<1>2. ASSUME n > q PROVE n * b > x
  <2>1. PICK k \in Nat : n = q + 1 + k
    <3>1. n - q - 1 \in Nat /\ n = q + 1 + (n - q - 1)
      BY <1>1, <1>2
    <3>2. QED
      BY <3>1
  <2>2. n * b = b * q + b + k * b
    BY <1>1, <2>1
  <2>3. k * b \in Nat
    OBVIOUS
  <2>4. b * q \in Nat
    BY <1>1
  <2>5. QED
    BY <1>1, <2>2, <2>3, <2>4
<1>3. ASSUME ~ n > q PROVE ~ n * b > x
  <2>1. PICK k \in Nat : q = n + k
    <3>1. q - n \in Nat /\ q = n + (q - n)
      BY <1>1, <1>3
    <3>2. QED
      BY <3>1
  <2>2. b * q = n * b + k * b
    BY <1>1, <2>1
  <2>3. k * b \in Nat /\ n * b \in Nat
    OBVIOUS
  <2>4. QED
    BY <1>1, <2>2, <2>3
<1>4. QED
  BY <1>2, <1>3 DEF q

(* A round of ParseIntFast() or ParseUintFast() falls back exactly when the *)
(* digit would take the number beyond the limit, and otherwise adds the     *)
(* digit: no multiplication overflows (number.go 21-27, 41-46).             *)
THEOREM RoundIsExact ==
  ASSUME NEW limit \in Base..MaxUint, NEW n \in 0..limit, NEW c, IsFigure(c)
  PROVE  Round(n, c, limit) = IF n * Base + Figure(c) <= limit THEN n * Base + Figure(c) ELSE Fallback
<1> DEFINE f == Figure(c)
           x == limit - f
<1>1. /\ Half \in Nat /\ Base \in Nat \ {0} /\ f \in 0..(Base - 1)
      /\ limit \in Nat /\ limit < 2 * Half /\ n \in Nat
  BY ConversionAssumption DEF MaxUint, IsFigure
<1> HIDE DEF f
<1>2. x \in Nat /\ x < 2 * Half
  BY <1>1
<1>3. \A y \in Nat : y < 2 * Half => Word(y) = y
  BY <1>1 DEF Word
<1>4. Word(limit - f) = x
  BY <1>2, <1>3
<1>5. n > x \div Base <=> n * Base > x
  BY <1>1, <1>2, Guard
<1>6. n * Base \in Nat
  BY <1>1
<1>7. Round(n, c, limit) = IF n > x \div Base THEN Fallback ELSE Word(n * Base + f)
  BY <1>1, <1>4 DEF Round, Fallback, f
<1>8. CASE n * Base > x
  BY <1>1, <1>5, <1>6, <1>7, <1>8 DEF f
<1>9. CASE ~ n * Base > x
  <2>1. n * Base + f \in Nat /\ n * Base + f <= limit /\ n * Base + f < 2 * Half
    BY <1>1, <1>6, <1>9
  <2>2. Word(n * Base + f) = n * Base + f
    BY <1>3, <2>1
  <2>3. QED
    BY <1>5, <1>7, <1>9, <2>1, <2>2 DEF f
<1>10. QED
  BY <1>8, <1>9

(* What a loop over a text, a fold, has after each of its characters. *)
LEMMA MaxIsLast ==
  ASSUME NEW k \in Nat \ {0}
  PROVE  Max(1..k) = k /\ (1..k) \ {k} = 1..(k - 1) /\ 1..k # {}
<1>1. k \in 1..k /\ \A y \in 1..k : k >= y
  OBVIOUS
<1>2. \A x \in 1..k : (\A y \in 1..k : x >= y) => x = k
  OBVIOUS
<1>3. Max(1..k) = k
  BY <1>1, <1>2 DEF Max
<1> QED BY <1>1, <1>3

LEMMA MaxIsIn ==
  ASSUME NEW n \in Nat, NEW s, s \subseteq 1..n, s # {}
  PROVE  Max(s) \in s
<1> DEFINE T == {n - x : x \in s}
<1>1. T \subseteq Nat /\ T # {}
  OBVIOUS
<1>2. PICK t \in T : \A u \in T : t <= u
  <2> HIDE DEF T
  <2> QED BY <1>1, Smallest
<1>3. PICK x \in s : t = n - x
  OBVIOUS
<1>4. ASSUME NEW y \in s PROVE x >= y
  <2>1. n - y \in T /\ x \in Nat /\ y \in Nat
    OBVIOUS
  <2>2. n - x <= n - y
    BY <1>2, <1>3, <2>1
  <2> HIDE DEF T
  <2> QED BY <2>1, <2>2
<1>5. \E z \in s : \A y \in s : z >= y
  BY <1>4
<1> QED BY <1>5 DEF Max

FoldsTo(n, V, base, comb) ==
  \E f \in [SUBSET (1..n) -> V] :
    \A s \in SUBSET (1..n) : f[s] = IF s = {} THEN base ELSE comb[Max(s)][f[s \ {Max(s)}]]

LEMMA FoldsEnd ==
  ASSUME NEW n \in Nat, NEW V, NEW base \in V, NEW comb \in [1..n -> [V -> V]]
  PROVE  FoldsTo(n, V, base, comb)
<1> DEFINE S == SUBSET (1..n)
           ends == {{}}
           last == [s \in S |-> Max(s)]
           next == [s \in S |-> s \ {Max(s)}]
           size == [s \in S |-> Cardinality(s)]
           result == [s \in S |-> base]
           step == [s \in S |-> IF s = {} THEN [v \in V |-> v] ELSE comb[Max(s)]]
<1>1. IsFiniteSet(1..n)
  BY FS_Interval
<1>2. ASSUME NEW s \in S, s # {} PROVE Max(s) \in s
  BY <1>2, MaxIsIn
<1>3. ASSUME NEW s \in S
      PROVE  /\ size[s] \in Nat
             /\ s \notin ends => next[s] \in S /\ size[next[s]] < size[s]
  <2>1. IsFiniteSet(s) /\ Cardinality(s) \in Nat
    BY <1>1, FS_Subset, FS_CardinalityType
  <2>2. ASSUME s # {} PROVE next[s] \in S /\ size[next[s]] < size[s]
    <3> DEFINE m == Max(s)
    <3>1. m \in s
      BY <1>2, <2>2
    <3> HIDE DEF m
    <3>2. Cardinality(s \ {m}) = Cardinality(s) - 1
      BY <2>1, <3>1, FS_RemoveElement
    <3>3. next[s] = s \ {m} /\ s \ {m} \in S
      BY DEF m
    <3>4. size[next[s]] = Cardinality(s \ {m}) /\ size[s] = Cardinality(s)
      BY <3>3
    <3> HIDE DEF size, next
    <3> QED BY <2>1, <3>2, <3>3, <3>4
  <2> QED BY <2>1, <2>2
<1>4. step \in [S -> [V -> V]]
  <2>1. ASSUME NEW s \in S PROVE (IF s = {} THEN [v \in V |-> v] ELSE comb[Max(s)]) \in [V -> V]
    <3>1. CASE s = {}
      BY <3>1
    <3>2. CASE s # {}
      BY <1>2, <3>2
    <3> QED BY <3>1, <3>2
  <2> QED BY <2>1
<1>5. result \in [S -> V]
  OBVIOUS
<1> HIDE DEF S, ends, next, size, result, step
<1>6. Ends(S, ends, next, size)
  BY <1>3 DEF Ends
<1>7. Recurs(S, V, ends, next, result, step)
  BY <1>4, <1>5, <1>6, Recursion
<1>8. PICK f \in [S -> V] : \A s \in S : f[s] = IF s \in ends THEN result[s] ELSE step[s][f[next[s]]]
  BY <1>7 DEF Recurs
<1>9. ASSUME NEW s \in S PROVE f[s] = IF s = {} THEN base ELSE comb[Max(s)][f[s \ {Max(s)}]]
  <2>1. CASE s = {}
    BY <1>8, <2>1 DEF ends, result
  <2>2. CASE s # {}
    <3>1. s \notin ends /\ step[s] = comb[Max(s)] /\ next[s] = s \ {Max(s)}
      BY <2>2 DEF ends, step, next
    <3> QED BY <1>8, <2>2, <3>1
  <2> QED BY <2>1, <2>2
<1> QED BY <1>8, <1>9 DEF S, FoldsTo

LEMMA FigureIsInt ==
  ASSUME NEW c
  PROVE  Figure(c) \in Int
<1> DEFINE I == {i \in 1..Len(Figures) : Figures[i] = c}
<1>1. Figure(c) = (IF I # {} THEN Min(I) ELSE 0) - 1
  BY DEF Figure, SelectInSeq
<1>2. I \subseteq Nat
  OBVIOUS
<1> HIDE DEF I
<1>3. I # {} => Min(I) \in Nat
  BY <1>2, MinIsLeast
<1> QED BY <1>1, <1>3

(* The sum that Exactly() takes. *)
Sums(text, f) ==
  /\ f[0] = 0
  /\ \A k \in 1..Len(text) : f[k] = f[k - 1] * Base + Figure(text[k])

LEMMA FoldOfFigures ==
  ASSUME NEW text \in Seq(Symbols)
  PROVE  \E f : /\ Sums(text, f)
                /\ \A sign, min, max :
                     Exactly(sign, text, min, max) =
                       IF text = <<>> \/ \E k \in 1..Len(text) : ~ IsFigure(text[k]) THEN Not("syntax")
                       ELSE IF sign * f[Len(text)] \in min..max THEN Is(sign * f[Len(text)]) ELSE Not("range")
<1> DEFINE n == Len(text)
           S == SUBSET (1..n)
           comb == [k \in 1..n |-> [v \in Int |-> v * Base + Figure(text[k])]]
           Body(f) == [s \in S |-> IF s = {} THEN 0 ELSE f[s \ {Max(s)}] * Base + Figure(text[Max(s)])]
           iter == CHOOSE f : f = Body(f)
           sums == [k \in 0..n |-> iter[1..k]]
<1>1. n \in Nat /\ Base \in Nat /\ DOMAIN text = 1..n
  BY LenProperties, ConversionAssumption
<1>2. ASSUME NEW sign, NEW min, NEW max
      PROVE  Exactly(sign, text, min, max) =
                IF text = <<>> \/ \E k \in 1..n : ~ IsFigure(text[k]) THEN Not("syntax")
                ELSE IF sign * iter[1..n] \in min..max THEN Is(sign * iter[1..n]) ELSE Not("range")
  BY <1>1 DEF Exactly, FoldLeft, MapThenFoldSet
<1> HIDE DEF n
<1>3. comb \in [1..n -> [Int -> Int]] /\ 0 \in Int
  <2>1. \A k \in 1..n : \A v \in Int : v * Base + Figure(text[k]) \in Int
    BY <1>1, FigureIsInt
  <2> QED BY <2>1
<1>4. PICK g \in [S -> Int] : \A s \in S : g[s] = IF s = {} THEN 0 ELSE comb[Max(s)][g[s \ {Max(s)}]]
  <2> HIDE DEF comb
  <2>1. FoldsTo(n, Int, 0, comb)
    BY <1>1, <1>3, FoldsEnd
  <2> QED BY <2>1 DEF FoldsTo
<1>5. ASSUME NEW s \in S PROVE g[s] = IF s = {} THEN 0 ELSE g[s \ {Max(s)}] * Base + Figure(text[Max(s)])
  <2>1. CASE s = {}
    BY <1>4, <2>1
  <2>2. CASE s # {}
    <3> DEFINE m == Max(s)
               v == g[s \ {m}]
    <3>1. m \in 1..n
      BY <1>1, <2>2, MaxIsIn
    <3>2. v \in Int
      OBVIOUS
    <3>3. g[s] = comb[m][v]
      BY <1>4, <2>2
    <3> HIDE DEF m, v
    <3>4. comb[m][v] = v * Base + Figure(text[m])
      BY <3>1, <3>2
    <3> QED BY <2>2, <3>3, <3>4 DEF m, v
  <2> QED BY <2>1, <2>2
<1>6. g = Body(g)
  <2> HIDE DEF S
  <2> QED BY <1>5
<1>7. iter = Body(iter)
  <2> HIDE DEF Body
  <2> QED BY <1>6
<1>8. \A s \in S : iter[s] = IF s = {} THEN 0 ELSE iter[s \ {Max(s)}] * Base + Figure(text[Max(s)])
  <2> HIDE DEF iter, S
  <2> QED BY <1>7
<1> HIDE DEF iter
<1>9. sums[0] = 0
  <2>1. 1..0 = {} /\ 1..0 \in S /\ sums[0] = iter[1..0]
    BY <1>1
  <2> QED BY <1>8, <2>1
<1>10. ASSUME NEW k \in 1..n PROVE sums[k] = sums[k - 1] * Base + Figure(text[k])
  <2>1. k \in Nat \ {0} /\ k - 1 \in 0..n /\ k \in 0..n
    BY <1>1
  <2>2. sums[k] = iter[1..k] /\ sums[k - 1] = iter[1..(k - 1)]
    BY <2>1
  <2>3. Max(1..k) = k /\ (1..k) \ {k} = 1..(k - 1) /\ 1..k # {}
    BY <2>1, MaxIsLast
  <2>4. 1..k \in S
    BY <1>1
  <2> HIDE DEF sums, S
  <2> QED BY <1>8, <2>2, <2>3, <2>4
<1>11. sums[n] = iter[1..n]
  BY <1>1
<1> HIDE DEF sums
<1>12. Sums(text, sums)
  BY <1>9, <1>10 DEF Sums, n
<1> QED BY <1>2, <1>11, <1>12 DEF n

(* What Loop() has after each character. *)
Rounds(text, limit, f) ==
  /\ f[0] = 0
  /\ \A k \in 1..Len(text) : f[k] = Round(f[k - 1], text[k], limit)

LEMMA FoldOfRounds ==
  ASSUME NEW text \in Seq(Symbols), NEW limit \in Nat
  PROVE  \E f : Rounds(text, limit, f) /\ Loop(text, limit) = f[Len(text)]
<1> DEFINE n == Len(text)
           S == SUBSET (1..n)
           comb == [k \in 1..n |-> [v \in Int |-> Round(v, text[k], limit)]]
           Body(f) == [s \in S |-> IF s = {} THEN 0 ELSE Round(f[s \ {Max(s)}], text[Max(s)], limit)]
           iter == CHOOSE f : f = Body(f)
           sums == [k \in 0..n |-> iter[1..k]]
<1>1. n \in Nat /\ Base \in Nat /\ Half \in Nat /\ Half # 0 /\ DOMAIN text = 1..n
  BY LenProperties, ConversionAssumption
<1>2. Loop(text, limit) = iter[1..n]
  BY <1>1 DEF Loop, FoldLeft, MapThenFoldSet
<1> HIDE DEF n
<1>3. comb \in [1..n -> [Int -> Int]] /\ 0 \in Int
  <2>1. ASSUME NEW k \in 1..n, NEW v \in Int PROVE Round(v, text[k], limit) \in Int
    <3>1. Figure(text[k]) \in Int
      BY FigureIsInt
    <3>2. v * Base + Figure(text[k]) \in Int /\ 2 * Half \in Nat \ {0}
      BY <1>1, <3>1
    <3> QED BY <3>2 DEF Round, Fallback, Word
  <2> QED BY <2>1
<1>4. PICK g \in [S -> Int] : \A s \in S : g[s] = IF s = {} THEN 0 ELSE comb[Max(s)][g[s \ {Max(s)}]]
  <2> HIDE DEF comb
  <2>1. FoldsTo(n, Int, 0, comb)
    BY <1>1, <1>3, FoldsEnd
  <2> QED BY <2>1 DEF FoldsTo
<1>5. ASSUME NEW s \in S PROVE g[s] = IF s = {} THEN 0 ELSE Round(g[s \ {Max(s)}], text[Max(s)], limit)
  <2>1. CASE s = {}
    BY <1>4, <2>1
  <2>2. CASE s # {}
    <3> DEFINE m == Max(s)
               v == g[s \ {m}]
    <3>1. m \in 1..n
      BY <1>1, <2>2, MaxIsIn
    <3>2. v \in Int
      OBVIOUS
    <3>3. g[s] = comb[m][v]
      BY <1>4, <2>2
    <3> HIDE DEF m, v
    <3>4. comb[m][v] = Round(v, text[m], limit)
      BY <3>1, <3>2
    <3> QED BY <2>2, <3>3, <3>4 DEF m, v
  <2> QED BY <2>1, <2>2
<1>6. g = Body(g)
  <2> HIDE DEF S
  <2> QED BY <1>5
<1>7. iter = Body(iter)
  <2> HIDE DEF Body
  <2> QED BY <1>6
<1>8. \A s \in S : iter[s] = IF s = {} THEN 0 ELSE Round(iter[s \ {Max(s)}], text[Max(s)], limit)
  <2> HIDE DEF iter, S
  <2> QED BY <1>7
<1> HIDE DEF iter
<1>9. sums[0] = 0
  <2>1. 1..0 = {} /\ 1..0 \in S /\ sums[0] = iter[1..0]
    BY <1>1
  <2> QED BY <1>8, <2>1
<1>10. ASSUME NEW k \in 1..n PROVE sums[k] = Round(sums[k - 1], text[k], limit)
  <2>1. k \in Nat \ {0} /\ k - 1 \in 0..n /\ k \in 0..n
    BY <1>1
  <2>2. sums[k] = iter[1..k] /\ sums[k - 1] = iter[1..(k - 1)]
    BY <2>1
  <2>3. Max(1..k) = k /\ (1..k) \ {k} = 1..(k - 1) /\ 1..k # {}
    BY <2>1, MaxIsLast
  <2>4. 1..k \in S
    BY <1>1
  <2> HIDE DEF sums, S
  <2> QED BY <1>8, <2>2, <2>3, <2>4
<1>11. sums[n] = iter[1..n]
  BY <1>1
<1> HIDE DEF sums
<1>12. Rounds(text, limit, sums)
  BY <1>9, <1>10 DEF Rounds, n
<1> QED BY <1>2, <1>11, <1>12 DEF n

(* Loop() has the number of the text, if it is one and not beyond the limit. *)
AreFigures(text, k) == \A l \in 1..k : IsFigure(text[l])

Exact(text, limit, v, f, k) ==
  /\ AreFigures(text, k) => v[k] \in Nat
  /\ f[k] = IF AreFigures(text, k) /\ v[k] <= limit THEN v[k] ELSE Fallback

LEMMA LoopIsExact ==
  ASSUME NEW text \in Seq(Symbols), NEW limit \in Base..MaxUint, NEW v, Sums(text, v)
  PROVE  LET n == Len(text) IN
         /\ AreFigures(text, n) => v[n] \in Nat
         /\ Loop(text, limit) = IF AreFigures(text, n) /\ v[n] <= limit THEN v[n] ELSE Fallback
<1> DEFINE n == Len(text)
<1>1. n \in Nat /\ Base \in Nat /\ Base >= 2 /\ limit \in Nat /\ limit >= Base
  BY LenProperties, ConversionAssumption DEF MaxUint
<1>2. PICK f : Rounds(text, limit, f) /\ Loop(text, limit) = f[n]
  BY <1>1, FoldOfRounds
<1> HIDE DEF n
<1>3. /\ f[0] = 0 /\ \A k \in 1..n : f[k] = Round(f[k - 1], text[k], limit)
      /\ v[0] = 0 /\ \A k \in 1..n : v[k] = v[k - 1] * Base + Figure(text[k])
  BY <1>2 DEF Rounds, Sums, n
<1> DEFINE Fails == {k \in Nat : k \in 0..n /\ ~ Exact(text, limit, v, f, k)}
<1>4. Exact(text, limit, v, f, 0)
  BY <1>1, <1>3 DEF Exact, AreFigures
<1>5. ASSUME NEW k \in 1..n, Exact(text, limit, v, f, k - 1) PROVE Exact(text, limit, v, f, k)
  <2> DEFINE c == text[k]
             a == f[k - 1]
             x == v[k - 1]
             y == v[k]
  <2>1. AreFigures(text, k) <=> AreFigures(text, k - 1) /\ IsFigure(c)
    <3>1. k \in 1..k /\ \A l \in 1..k : l \in 1..(k - 1) \/ l = k
      OBVIOUS
    <3>2. \A l \in 1..(k - 1) : l \in 1..k
      OBVIOUS
    <3> QED BY <3>1, <3>2 DEF AreFigures
  <2>2. f[k] = Round(a, c, limit) /\ y = x * Base + Figure(c)
    BY <1>3
  <2>3. /\ AreFigures(text, k - 1) => x \in Nat
        /\ a = IF AreFigures(text, k - 1) /\ x <= limit THEN x ELSE Fallback
    BY <1>5 DEF Exact
  <2> SUFFICES /\ AreFigures(text, k) => y \in Nat
               /\ f[k] = IF AreFigures(text, k) /\ y <= limit THEN y ELSE Fallback
    BY DEF Exact
  <2> HIDE DEF a, c, x, y
  <2>4. CASE ~ (IsFigure(c) /\ AreFigures(text, k - 1))
    <3>1. ~ IsFigure(c) \/ a = Fallback
      BY <2>3, <2>4
    <3>2. Round(a, c, limit) = Fallback
      BY <3>1 DEF Round
    <3> QED BY <2>1, <2>2, <2>4, <3>2
  <2>5. CASE IsFigure(c) /\ AreFigures(text, k - 1)
    <3>1. x \in Nat /\ Figure(c) \in Nat
      BY <1>1, <2>3, <2>5 DEF IsFigure
    <3>2. y \in Nat /\ y >= x
      <4>1. x * Base = x + x * (Base - 1) /\ x * (Base - 1) \in Nat /\ x * Base \in Nat
        BY <1>1, <3>1
      <4> QED BY <2>2, <3>1, <4>1
    <3>3. CASE x <= limit
      <4>1. a = x /\ x \in 0..limit
        BY <1>1, <2>3, <2>5, <3>1, <3>3
      <4>2. Round(x, c, limit) = IF x * Base + Figure(c) <= limit THEN x * Base + Figure(c) ELSE Fallback
        BY <2>5, <4>1, RoundIsExact
      <4> QED BY <2>1, <2>2, <2>5, <3>2, <4>1, <4>2
    <3>4. CASE ~ x <= limit
      <4>1. a = Fallback /\ ~ y <= limit
        BY <1>1, <2>3, <3>1, <3>2, <3>4
      <4>2. Round(a, c, limit) = Fallback
        BY <4>1 DEF Round
      <4> QED BY <2>1, <2>2, <2>5, <3>2, <4>1, <4>2
    <3> QED BY <3>3, <3>4
  <2> QED BY <2>4, <2>5
<1>6. Fails = {}
  <2> SUFFICES ASSUME Fails # {} PROVE FALSE
    OBVIOUS
  <2>1. PICK k \in Fails : \A o \in Fails : k <= o
    <3>1. Fails \subseteq Nat
      OBVIOUS
    <3> HIDE DEF Fails
    <3> QED BY <3>1, Smallest
  <2>2. k \in 0..n /\ ~ Exact(text, limit, v, f, k)
    OBVIOUS
  <2>3. k # 0
    BY <1>4, <2>2
  <2>4. k \in 1..n /\ k - 1 \in Nat /\ k - 1 \in 0..n /\ ~ k <= k - 1
    BY <1>1, <2>2, <2>3
  <2>5. k - 1 \notin Fails
    <3> HIDE DEF Fails
    <3> QED BY <2>1, <2>4
  <2>6. Exact(text, limit, v, f, k - 1)
    BY <2>4, <2>5
  <2> QED BY <1>5, <2>2, <2>4, <2>6
<1>7. Exact(text, limit, v, f, n)
  <2>1. n \in 0..n
    BY <1>1
  <2> QED BY <1>1, <1>6, <2>1
<1> QED BY <1>2, <1>7 DEF Exact, n

(* The words of small numbers. *)
LEMMA SmallWords ==
  /\ \A x \in 0..MaxInt : Signed(x) = x
  /\ \A x \in 0..Half : Signed(-Signed(x)) = -x
<1>1. Half \in Nat /\ Half >= 2
  BY ConversionAssumption
<1>2. ASSUME NEW x \in Int, x >= 0, x < 2 * Half PROVE x % (2 * Half) = x
  BY <1>1, <1>2
<1>3. ASSUME NEW x \in Int, x < 0, x >= - 2 * Half PROVE x % (2 * Half) = x + 2 * Half
  <2> DEFINE d == 2 * Half
             q == x \div d
             r == x % d
  <2>1. d \in Nat /\ d > 0
    BY <1>1
  <2> HIDE DEF d
  <2>2. q \in Int /\ r \in 0..(d - 1) /\ x = d * q + r
    BY <2>1
  <2>3. q = -1
    <3> SUFFICES ASSUME q # -1 PROVE FALSE
      OBVIOUS
    <3> HIDE DEF q, r
    <3>1. -d <= x /\ x < 0
      BY <1>1, <1>3 DEF d
    <3>2. CASE q >= 0
      <4>1. d * q >= 0
        BY <2>1, <2>2, <3>2
      <4> QED BY <2>1, <2>2, <3>1, <4>1
    <3>3. CASE q <= -2
      <4>1. d * q <= d * (-2)
        <5>1. d * (-2) = d * q + d * (-2 - q) /\ -2 - q \in Nat
          BY <2>1, <2>2, <3>3
        <5>2. d * (-2 - q) \in Nat
          BY <2>1, <5>1
        <5>3. d * q \in Int
          BY <2>1, <2>2
        <5> QED BY <2>1, <5>1, <5>2, <5>3
      <4> QED BY <2>1, <2>2, <3>1, <4>1
    <3> QED BY <2>2, <3>2, <3>3
  <2> QED BY <2>1, <2>2, <2>3 DEF d
<1>4. ASSUME NEW x \in 0..MaxInt PROVE Signed(x) = x
  <2>1. x >= 0 /\ x < 2 * Half /\ ~ x > MaxInt
    BY <1>1 DEF MaxInt
  <2> QED BY <1>2, <2>1 DEF Signed, Word
<1>5. ASSUME NEW x \in 0..Half PROVE Signed(-Signed(x)) = -x
  <2>1. CASE x = 0
    <3>1. 0 \in 0..MaxInt
      BY <1>1 DEF MaxInt
    <3>2. Signed(0) = 0
      BY <1>4, <3>1
    <3>3. -Signed(0) = 0
      BY <3>2
    <3> QED BY <2>1, <3>2, <3>3
  <2>2. CASE x # 0 /\ x # Half
    <3>1. Signed(x) = x
      BY <1>1, <1>4, <2>2 DEF MaxInt
    <3>2. Word(-x) = -x + 2 * Half /\ -x + 2 * Half > MaxInt
      <4>1. -x \in Int /\ -x < 0 /\ -x >= - 2 * Half /\ -x + 2 * Half > MaxInt
        BY <1>1, <2>2 DEF MaxInt
      <4> QED BY <1>3, <4>1 DEF Word
    <3> QED BY <1>1, <3>1, <3>2 DEF Signed
  <2>3. CASE x = Half
    <3>1. Word(x) = Half /\ Half > MaxInt
      BY <1>1, <1>2, <2>3 DEF Word, MaxInt
    <3>2. Signed(x) = -Half
      BY <1>1, <3>1 DEF Signed
    <3>3. -Signed(x) = Half
      BY <1>1, <3>2
    <3> QED BY <2>3, <3>2, <3>3
  <2> QED BY <2>1, <2>2, <2>3
<1> QED BY <1>4, <1>5

(* Which symbols are figures: the digits are, signs, points and exponents   *)
(* are not.                                                                 *)
LEMMA DigitsAreFigures ==
  /\ \A c \in Digits : IsFigure(c)
  /\ \A c \in {"+", "-", ".", "e"} : ~ IsFigure(c)
<1> DEFINE I(c) == {i \in 1..Len(Figures) : Figures[i] = c}
<1>1. Base \in Nat /\ Base >= 2
  BY ConversionAssumption
<1>2. ASSUME NEW c PROVE Figure(c) = (IF I(c) # {} THEN Min(I(c)) ELSE 0) - 1
  BY DEF Figure, SelectInSeq
<1>3. ASSUME NEW c \in {"+", "-", ".", "e"} PROVE ~ IsFigure(c)
  <2>1. I(c) = {}
    BY DEF Figures
  <2> HIDE DEF I
  <2>2. Figure(c) = -1
    BY <1>2, <2>1
  <2> QED BY <1>1, <2>2 DEF IsFigure
<1>4. ASSUME NEW k \in 1..2, NEW c, I(c) = {k} PROVE IsFigure(c)
  <2> HIDE DEF I
  <2>1. I(c) \subseteq Nat /\ I(c) # {}
    BY <1>4
  <2>2. Min(I(c)) = k
    BY <1>4, <2>1, MinIsLeast
  <2>3. Figure(c) = k - 1
    BY <1>2, <2>1, <2>2
  <2> QED BY <1>1, <2>3 DEF IsFigure
<1>5. I("0") = {1} /\ I("1") = {2}
  BY DEF Figures
<1>6. IsFigure("0") /\ IsFigure("1")
  <2> HIDE DEF I
  <2>1. 1 \in 1..2 /\ 2 \in 1..2
    OBVIOUS
  <2> QED BY <1>4, <1>5, <2>1
<1> QED BY <1>3, <1>6 DEF Digits

(* The exact conversion and the loop of a text agree. *)
Agree(text, limit, v) ==
  /\ Loop(text, limit) = IF AreFigures(text, Len(text)) /\ v <= limit THEN v ELSE Fallback
  /\ AreFigures(text, Len(text)) => v \in Nat
  /\ \A sign, min, max :
       Exactly(sign, text, min, max) =
         IF text = <<>> \/ ~ AreFigures(text, Len(text)) THEN Not("syntax")
         ELSE IF sign * v \in min..max THEN Is(sign * v) ELSE Not("range")
  /\ text = <<>> => v = 0

LEMMA LoopAgrees ==
  ASSUME NEW text \in Seq(Symbols), NEW limit \in Base..MaxUint
  PROVE  \E v : Agree(text, limit, v)
<1>1. PICK f : /\ Sums(text, f)
               /\ \A sign, min, max :
                    Exactly(sign, text, min, max) =
                      IF text = <<>> \/ \E k \in 1..Len(text) : ~ IsFigure(text[k]) THEN Not("syntax")
                      ELSE IF sign * f[Len(text)] \in min..max THEN Is(sign * f[Len(text)]) ELSE Not("range")
  BY FoldOfFigures
<1>2. /\ AreFigures(text, Len(text)) => f[Len(text)] \in Nat
      /\ Loop(text, limit) = IF AreFigures(text, Len(text)) /\ f[Len(text)] <= limit THEN f[Len(text)] ELSE Fallback
  BY <1>1, LoopIsExact
<1>3. text = <<>> => f[Len(text)] = 0
  BY <1>1, EmptySeq DEF Sums
<1>4. AreFigures(text, Len(text)) <=> ~ \E k \in 1..Len(text) : ~ IsFigure(text[k])
  BY DEF AreFigures
<1>5. Agree(text, limit, f[Len(text)])
  BY <1>1, <1>2, <1>3, <1>4 DEF Agree
<1> QED BY <1>5

LEMMA Limits ==
  /\ MaxUint \in Base..MaxUint /\ MaxInt \in Base..MaxUint /\ MaxInt + 1 \in Base..MaxUint
  /\ MaxUint \in Nat /\ MaxInt \in Nat /\ Half \in Nat /\ MaxInt + 1 = Half
BY ConversionAssumption DEF MaxUint, MaxInt

LEMMA UintFastIsExact ==
  ASSUME NEW text \in Seq(Symbols)
  PROVE  ParseUintFast(text) = ParseUint(text)
<1> DEFINE n == Loop(text, MaxUint)
<1>1. PICK v : Agree(text, MaxUint, v)
  BY Limits, LoopAgrees
<1>2. CASE text = <<>>
  BY <1>1, <1>2 DEF Agree, ParseUintFast, ParseUint
<1>3. CASE text # <<>> /\ n = Fallback
  BY <1>3 DEF ParseUintFast
<1>4. CASE text # <<>> /\ n # Fallback
  <2>1. AreFigures(text, Len(text)) /\ v \in Nat /\ v <= MaxUint /\ n = v
    BY <1>1, <1>4 DEF Agree
  <2>2. 1 * v = v /\ v \in 0..MaxUint
    BY <2>1, Limits
  <2>3. ParseUint(text) = Is(v)
    BY <1>1, <1>4, <2>1, <2>2 DEF Agree, ParseUint
  <2> QED BY <1>4, <2>1, <2>3 DEF ParseUintFast
<1> QED BY <1>2, <1>3, <1>4

LEMMA IntFastIsExact ==
  ASSUME NEW text \in Seq(Symbols)
  PROVE  ParseIntFast(text) = IF text = <<"-">> THEN Is(0) ELSE ParseInt(text)
<1>1. CASE text = <<>>
  <2>1. PICK v : Agree(text, MaxInt, v)
    BY Limits, LoopAgrees
  <2>2. AreFigures(text, Len(text)) /\ v = 0
    BY <1>1, <2>1, EmptySeq DEF Agree, AreFigures
  <2>3. Loop(text, MaxInt) # Fallback
    BY <2>1, <2>2, Limits DEF Agree, Fallback
  <2>4. ParseIntFast(text) = Not("syntax")
    BY <1>1, <2>3 DEF ParseIntFast
  <2>5. ParseInt(text) = Exactly(1, text, -MaxInt - 1, MaxInt)
    BY <1>1 DEF ParseInt
  <2>6. ParseInt(text) = Not("syntax")
    BY <1>1, <2>1, <2>5 DEF Agree
  <2>7. text # <<"-">>
    BY <1>1
  <2> QED BY <2>4, <2>6, <2>7
<1>2. CASE text # <<>> /\ text[1] = "-"
  <2> DEFINE rest == Tail(text)
             n == Loop(rest, MaxInt + 1)
  <2>1. rest \in Seq(Symbols) /\ Len(rest) = Len(text) - 1 /\ Len(text) \in Nat
    BY <1>2, HeadTailProperties, LenProperties
  <2>2. text = <<"-">> <=> rest = <<>>
    <3>1. rest = <<>> => Len(text) = 1
      BY <2>1
    <3>2. Len(text) = 1 => text = <<text[1]>>
      BY LenProperties
    <3>3. text = <<"-">> => Len(rest) = 0
      BY <2>1
    <3> QED BY <1>2, <2>1, <3>1, <3>2, <3>3, EmptySeq
  <2>3. PICK v : Agree(rest, MaxInt + 1, v)
    BY <2>1, Limits, LoopAgrees
  <2>4. ParseInt(text) = Exactly(-1, rest, -MaxInt - 1, MaxInt)
    BY <1>2 DEF ParseInt
  <2>5. ParseIntFast(text) = IF n = Fallback THEN ParseInt(text) ELSE Is(Signed(-Signed(n)))
    BY <1>2 DEF ParseIntFast
  <2> HIDE DEF rest, n
  <2>6. n = IF AreFigures(rest, Len(rest)) /\ v <= MaxInt + 1 THEN v ELSE Fallback
    BY <2>3 DEF Agree, n
  <2>7. ASSUME n # Fallback
        PROVE  /\ AreFigures(rest, Len(rest)) /\ v \in Nat /\ v <= Half /\ n = v
               /\ Signed(-Signed(n)) = -v
    <3>1. AreFigures(rest, Len(rest)) /\ v <= Half /\ n = v
      BY <2>6, <2>7, Limits
    <3>2. v \in Nat
      BY <2>3, <3>1 DEF Agree
    <3>3. v \in 0..Half
      BY <3>1, <3>2, Limits
    <3> QED BY <3>1, <3>2, <3>3, SmallWords
  <2>8. CASE rest = <<>>
    <3>1. AreFigures(rest, Len(rest)) /\ v = 0
      BY <2>3, <2>8, EmptySeq DEF Agree, AreFigures
    <3>2. n = 0
      BY <2>6, <3>1, Limits
    <3>3. Signed(-Signed(n)) = 0
      BY <2>7, <3>1, <3>2 DEF Fallback
    <3>4. n # Fallback
      BY <3>2 DEF Fallback
    <3> QED BY <2>2, <2>5, <2>8, <3>3, <3>4
  <2>9. CASE rest # <<>> /\ n = Fallback
    BY <2>2, <2>5, <2>9
  <2>10. CASE rest # <<>> /\ n # Fallback
    <3>1. -1 * v = -v /\ -v \in (-MaxInt - 1)..MaxInt
      BY <2>7, <2>10, Limits
    <3>2. ParseInt(text) = Is(-v)
      BY <2>3, <2>4, <2>7, <2>10, <3>1 DEF Agree
    <3> QED BY <2>2, <2>5, <2>7, <2>10, <3>2
  <2> QED BY <2>8, <2>9, <2>10
<1>3. CASE text # <<>> /\ text[1] # "-"
  <2> DEFINE n == Loop(text, MaxInt)
  <2>1. PICK v : Agree(text, MaxInt, v)
    BY Limits, LoopAgrees
  <2>2. ParseIntFast(text) = IF n = Fallback THEN ParseInt(text) ELSE Is(Signed(n))
    BY <1>3 DEF ParseIntFast
  <2>3. text # <<"-">>
    BY <1>3
  <2>4. ASSUME n # Fallback PROVE ParseInt(text) = Is(Signed(n))
    <3>1. AreFigures(text, Len(text)) /\ v \in Nat /\ v <= MaxInt /\ n = v
      BY <2>1, <2>4 DEF Agree
    <3>2. 1 * v = v /\ v \in (-MaxInt - 1)..MaxInt /\ v \in 0..MaxInt
      BY <3>1, Limits
    <3>3. IsFigure(text[1])
      <4>1. 1 \in 1..Len(text)
        BY <1>3, LenProperties, EmptySeq
      <4> QED BY <3>1, <4>1 DEF AreFigures
    <3>4. text[1] \notin {"+", "-"}
      BY <3>3, DigitsAreFigures
    <3>5. ParseInt(text) = Exactly(1, text, -MaxInt - 1, MaxInt)
      BY <1>3, <3>4 DEF ParseInt
    <3>6. ParseInt(text) = Is(v)
      BY <1>3, <2>1, <3>1, <3>2, <3>5 DEF Agree
    <3>7. Signed(n) = v
      BY <3>1, <3>2, SmallWords
    <3> QED BY <3>6, <3>7
  <2> QED BY <2>2, <2>3, <2>4
<1> QED BY <1>1, <1>2, <1>3

(* A number is an integer to the conversion if it has no fraction and no    *)
(* exponent.                                                                *)
LEMMA IntegersParse ==
  ASSUME NEW data \in Seq(Symbols), NEW i \in 1..Len(data), NEW j \in i..Len(data), IsNumber(data, i, j)
  PROVE  LET text == SubSeq(data, i, j) IN IsInteger(text) <=> ParseIntFast(text) # Not("syntax")
<1> DEFINE text == SubSeq(data, i, j)
           first == text[1]
           figures == IF first \in {"+", "-"} THEN Tail(text) ELSE text
<1>1. /\ text \in Seq(Symbols) /\ Len(text) = j - i + 1 /\ i \in Nat /\ j \in Nat /\ i <= j
      /\ \A k \in 1..Len(text) : text[k] = data[i + k - 1]
  <2>1. Len(data) \in Nat /\ i \in Nat /\ j \in Nat /\ i <= j /\ j <= Len(data)
    BY LenProperties
  <2>2. text \in Seq(Symbols)
    BY <2>1, ElementOfSeq, SubSeqProperties
  <2> QED BY <2>1, <2>2, SubSeqProperties
<1> HIDE DEF text
<1>2. Len(text) \in Nat \ {0} /\ text # <<>> /\ first = data[i]
  BY <1>1, EmptySeq
<1>3. /\ figures \in Seq(Symbols)
      /\ first \in {"+", "-"} => /\ Len(figures) = Len(text) - 1
                                 /\ \A k \in 1..Len(figures) : figures[k] = text[k + 1]
      /\ first \notin {"+", "-"} => figures = text
  BY <1>1, <1>2, HeadTailProperties
<1>4. PICK v : Agree(figures, MaxInt, v)
  BY <1>3, Limits, LoopAgrees
<1>5. ParseInt(text) = Exactly(IF first = "-" THEN -1 ELSE 1, figures, -MaxInt - 1, MaxInt)
  BY <1>2 DEF ParseInt
<1> HIDE DEF figures, first
<1>6. \A x : Is(x) # Not("syntax") /\ Not("range") # Not("syntax")
  <2>1. Not("syntax").error = "syntax" /\ Not("range").error = "range" /\ \A x : Is(x).error = "none"
    BY DEF Is, Not
  <2> QED BY <2>1
<1>7. ParseInt(text) # Not("syntax") <=> figures # <<>> /\ AreFigures(figures, Len(figures))
  BY <1>4, <1>5, <1>6 DEF Agree
<1>8. ParseIntFast(text) = IF text = <<"-">> THEN Is(0) ELSE ParseInt(text)
  BY <1>1, IntFastIsExact
<1>9. CASE ~ IsInteger(text)
  <2>1. PICK k \in 1..Len(text) : text[k] \in {".", "e"}
    BY <1>9 DEF IsInteger
  <2>2. text # <<"-">>
    BY <2>1
  <2>3. \E l \in 1..Len(figures) : figures[l] = text[k]
    <3>1. CASE first \notin {"+", "-"}
      BY <1>3, <3>1
    <3>2. CASE first \in {"+", "-"}
      <4>1. k # 1
        BY <2>1, <3>2 DEF first
      <4>2. k - 1 \in 1..Len(figures) /\ k = (k - 1) + 1
        BY <1>2, <1>3, <3>2, <4>1
      <4> QED BY <1>3, <3>2, <4>2
    <3> QED BY <3>1, <3>2
  <2>4. ~ AreFigures(figures, Len(figures))
    BY <2>1, <2>3, DigitsAreFigures DEF AreFigures
  <2> QED BY <1>7, <1>8, <1>9, <2>2, <2>4 DEF text
<1>10. CASE IsInteger(text)
  <2>1. \A k \in i..j : data[k] \notin {".", "e"}
    <3>1. ASSUME NEW k \in i..j PROVE k - i + 1 \in 1..Len(text) /\ i + (k - i + 1) - 1 = k
      BY <1>1
    <3> QED BY <1>1, <1>10, <3>1 DEF IsInteger
  <2>2. PICK s \in {i, i + 1} : Run(data, s, j) /\ (s = i + 1 => data[i] = "-")
    <3>1. PICK s \in {i, i + 1}, f \in i..(j + 1), e \in i..(j + 1) :
             /\ s = i + 1 => data[i] = "-"
             /\ IsInt(data, s, f - 1) /\ IsFrac(data, f, e - 1) /\ IsExp(data, e, j)
      BY DEF IsNumber
    <3>2. e = j + 1
      <4>1. ~ (e < j /\ data[e] = "e")
        BY <1>1, <2>1
      <4> QED BY <1>1, <3>1, <4>1 DEF IsExp
    <3>3. f = j + 1
      <4>1. ~ (f < e - 1 /\ data[f] = ".")
        BY <1>1, <2>1, <3>2
      <4> QED BY <1>1, <3>1, <3>2, <4>1 DEF IsFrac
    <3>4. f - 1 = j
      BY <1>1, <3>3
    <3> QED BY <3>1, <3>4 DEF IsInt
  <2>3. CASE s = i
    <3>1. \A k \in 1..Len(text) : text[k] \in Digits
      <4>1. ASSUME NEW k \in 1..Len(text) PROVE i + k - 1 \in i..j
        BY <1>1
      <4> QED BY <1>1, <2>2, <2>3, <4>1 DEF Run
    <3>2. first \notin {"+", "-"}
      BY <1>2, <3>1 DEF first, Digits
    <3>3. figures = text /\ figures # <<>>
      BY <1>2, <1>3, <3>2
    <3>4. AreFigures(figures, Len(figures))
      BY <3>1, <3>3, DigitsAreFigures DEF AreFigures
    <3>5. text # <<"-">>
      BY <3>2, <1>2 DEF first
    <3> QED BY <1>7, <1>8, <1>10, <3>3, <3>4, <3>5 DEF text
  <2>4. CASE s = i + 1
    <3>1. first = "-"
      BY <1>2, <2>2, <2>4
    <3>2. \A k \in 1..Len(figures) : figures[k] \in Digits
      <4>1. ASSUME NEW k \in 1..Len(figures)
            PROVE  k + 1 \in 1..Len(text) /\ i + (k + 1) - 1 \in (i + 1)..j
        BY <1>1, <1>3, <3>1
      <4>2. ASSUME NEW k \in 1..Len(figures) PROVE figures[k] = data[i + (k + 1) - 1]
        BY <1>1, <1>3, <3>1, <4>1
      <4> QED BY <2>2, <2>4, <4>1, <4>2 DEF Run
    <3>3. figures # <<>>
      <4>1. i + 1 <= j
        BY <2>2, <2>4 DEF Run
      <4>2. Len(figures) # 0
        BY <1>1, <1>3, <3>1, <4>1
      <4> QED BY <4>2, EmptySeq
    <3>4. AreFigures(figures, Len(figures))
      BY <3>2, DigitsAreFigures DEF AreFigures
    <3> QED BY <1>6, <1>7, <1>8, <1>10, <3>3, <3>4 DEF text
  <2> QED BY <2>2, <2>3, <2>4
<1> QED BY <1>9, <1>10

(* The loops of ParseIntFast() and ParseUintFast() give, for any text and   *)
(* any width of the machine's words, what exact arithmetic gives, and a     *)
(* number token without fraction and exponent is an integer to them         *)
(* (number.go 8-54).                                                        *)
THEOREM IntegersExact == Spec => []IntegersAreExact
<1>1. ASSUME Inv PROVE IntegersAreExact
  <2>1. PICK n \in Nat : Reading(n)
    BY <1>1 DEF Inv
  <2>2. input \in Seq(Symbols)
    BY <1>1, TokenStreamAssumption DEF Inv
  <2>3. Scanned = 1..n
    BY <1>1, <2>1, LenProperties, ScannedSoFar DEF Inv
  <2>4. ASSUME NEW k \in Scanned, tokens[k].kind = "number"
        PROVE  IsInteger(tokens[k].data) <=> ParseIntFast(tokens[k].data) # Not("syntax")
    <3> DEFINE t == tokens[k]
    <3>1. IsToken(input, t) /\ Gap(input, Resume(k), t.from - 1)
      BY <2>1, <2>3, <2>4 DEF Reading
    <3>2. t.from \in Nat /\ t.to \in t.from..Len(input) /\ IsNumber(input, t.from, t.to)
          /\ t.data = SubSeq(input, t.from, t.to)
      BY <2>4, <3>1 DEF IsToken, Longest
    <3>3. t.from \in 1..Len(input)
      <4>1. Resume(k) \in Resume(k)..(t.from - 1 + 1)
        BY <3>1 DEF Gap
      <4>2. Resume(k) \in Nat \ {0}
        <5>1. CASE k = 1
          BY <5>1 DEF Resume
        <5>2. CASE k # 1
          <6>1. k - 1 \in 1..n
            BY <2>3, <5>2
          <6>2. IsToken(input, tokens[k - 1])
            BY <2>1, <6>1 DEF Reading
          <6>3. tokens[k - 1].to \in Nat
            BY <6>2 DEF IsToken
          <6> QED BY <5>2, <6>3 DEF Resume
        <5> QED BY <5>1, <5>2
      <4>3. Len(input) \in Nat
        BY <2>2, LenProperties
      <4> HIDE DEF t
      <4> QED BY <3>2, <4>1, <4>2, <4>3
    <3> HIDE DEF t
    <3>4. IsInteger(t.data) <=> ParseIntFast(t.data) # Not("syntax")
      BY <2>2, <3>2, <3>3, IntegersParse
    <3> QED BY <3>4 DEF t
  <2> QED BY <2>2, <2>4, IntFastIsExact, UintFastIsExact DEF IntegersAreExact
<1> QED BY <1>1, AlwaysReading, PTL

-----------------------------------------------------------------------------
(* Positions.  A sum of weights is a number of dots: each place k of s has  *)
(* w[k] of them. *)
Weights == 1..5

Dots(w, s) == {p \in s \X Weights : p[2] <= w[p[1]]}

LEMMA DotsOfOne ==
  ASSUME NEW s, IsFiniteSet(s), NEW w, NEW x \in s, \A k \in s : w[k] \in Weights
  PROVE  /\ Cardinality(Dots(w, s)) \in Nat
         /\ Cardinality(Dots(w, s)) = w[x] + Cardinality(Dots(w, s \ {x}))
<1> DEFINE t == s \ {x}
           c == {x} \X (1..w[x])
<1>1. IsFiniteSet(Weights) /\ w[x] \in Nat /\ w[x] \in Int /\ 1 \in Int /\ w[x] >= 1
  <2>1. IsFiniteSet(Weights)
    <3>1. 1 \in Int /\ 5 \in Int
      OBVIOUS
    <3> QED BY <3>1, FS_Interval DEF Weights
  <2>2. w[x] \in Weights
    OBVIOUS
  <2> DEFINE a == w[x]
  <2> HIDE DEF a
  <2>3. a \in Weights => a \in Nat /\ a \in Int /\ 1 \in Int /\ a >= 1
    BY DEF Weights
  <2> QED BY <2>1, <2>2, <2>3 DEF a
<1>2. IsFiniteSet(t)
  BY FS_RemoveElement
<1>3. ASSUME NEW u, IsFiniteSet(u) PROVE IsFiniteSet(Dots(w, u)) /\ Cardinality(Dots(w, u)) \in Nat
  <2>1. IsFiniteSet(u \X Weights)
    BY <1>1, <1>3, FS_Product
  <2>2. Dots(w, u) \in SUBSET (u \X Weights)
    BY DEF Dots
  <2> QED BY <2>1, <2>2, FS_Subset, FS_CardinalityType
<1>4. IsFiniteSet(c) /\ Cardinality(c) = w[x]
  <2>1. IsFiniteSet(1..w[x]) /\ Cardinality(1..w[x]) = w[x]
    BY <1>1, FS_Interval
  <2>2. IsFiniteSet({x}) /\ Cardinality({x}) = 1
    BY FS_Singleton
  <2>3. IsFiniteSet(c) /\ Cardinality(c) = Cardinality({x}) * Cardinality(1..w[x])
    BY <2>1, <2>2, FS_Product
  <2> QED BY <1>1, <2>1, <2>2, <2>3
<1>5. Dots(w, s) = Dots(w, t) \cup c /\ Dots(w, t) \cap c = {}
  <2>1. ASSUME NEW p PROVE p \in Dots(w, s) <=> p \in Dots(w, t) \/ p \in c
    <3>1. \A n : n \in Weights /\ n <= w[x] <=> n \in 1..w[x]
      BY DEF Weights
    <3> QED BY <3>1 DEF Dots
  <2>2. ASSUME NEW p \in Dots(w, t), p \in c PROVE FALSE
    BY <2>2 DEF Dots
  <2> QED BY <2>1, <2>2
<1>6. Cardinality(Dots(w, s)) = Cardinality(Dots(w, t)) + Cardinality(c) - 0
  <2>1. Cardinality({}) = 0
    BY FS_EmptySet
  <2>2. IsFiniteSet(Dots(w, t))
    BY <1>2, <1>3
  <2> HIDE DEF c, t
  <2>3. Cardinality(Dots(w, t) \cup c) = Cardinality(Dots(w, t)) + Cardinality(c) - Cardinality(Dots(w, t) \cap c)
    BY ONLY <2>2, <1>4, FS_Union
  <2> QED BY ONLY <1>5, <2>1, <2>3
<1>7. Cardinality(Dots(w, t)) \in Nat /\ Cardinality(Dots(w, s)) \in Nat
  BY <1>2, <1>3
<1> QED BY <1>1, <1>4, <1>6, <1>7

(* What a sum, a fold over a set, is. *)
Sum(w, s) == Cardinality(Dots(w, s))

SumsUp(S, w, f) ==
  f = [s \in SUBSET S |-> IF s = {} THEN 0 ELSE LET x == CHOOSE x \in s : TRUE IN w[x] + f[s \ {x}]]

LEMMA SumOfNone ==
  ASSUME NEW w
  PROVE  Sum(w, {}) = 0
<1>1. Dots(w, {}) = {}
  BY DEF Dots
<1> QED BY <1>1, FS_EmptySet DEF Sum

LEMMA SumsExist ==
  ASSUME NEW S, IsFiniteSet(S), NEW w, \A k \in S : w[k] \in Weights
  PROVE  \E f : SumsUp(S, w, f)
<1> DEFINE g == [s \in SUBSET S |-> Sum(w, s)]
<1>1. ASSUME NEW s \in SUBSET S
      PROVE  g[s] = IF s = {} THEN 0 ELSE LET x == CHOOSE x \in s : TRUE IN w[x] + g[s \ {x}]
  <2>1. CASE s = {}
    BY <2>1, SumOfNone
  <2>2. CASE s # {}
    <3> DEFINE x == CHOOSE x \in s : TRUE
    <3>1. x \in s
      BY <2>2
    <3> HIDE DEF x
    <3>2. IsFiniteSet(s)
      BY FS_Subset
    <3>3. Sum(w, s) = w[x] + Sum(w, s \ {x})
      BY <3>1, <3>2, DotsOfOne DEF Sum
    <3>4. s \ {x} \in SUBSET S
      OBVIOUS
    <3> QED BY <2>2, <3>3, <3>4 DEF x
  <2> QED BY <2>1, <2>2
<1>2. g = [s \in SUBSET S |-> IF s = {} THEN 0 ELSE LET x == CHOOSE x \in s : TRUE IN w[x] + g[s \ {x}]]
  <2> HIDE DEF g
  <2>1. g = [s \in SUBSET S |-> g[s]]
    BY DEF g
  <2> QED BY <1>1, <2>1
<1>3. SumsUp(S, w, g)
  <2> HIDE DEF g
  <2> QED BY <1>2 DEF SumsUp
<1> QED BY <1>3

LEMMA SumsAreSums ==
  ASSUME NEW S, IsFiniteSet(S), NEW w, \A k \in S : w[k] \in Weights, NEW f, SumsUp(S, w, f)
  PROVE  f[S] = Sum(w, S)
<1>1. \A s \in SUBSET S : f[s] = IF s = {} THEN 0 ELSE LET x == CHOOSE x \in s : TRUE IN w[x] + f[s \ {x}]
  BY DEF SumsUp
<1>2. \A s \in SUBSET S : IsFiniteSet(s) /\ Cardinality(s) \in Nat
  BY FS_Subset, FS_CardinalityType
<1> DEFINE Off == {n \in Nat : \E s \in SUBSET S : n = Cardinality(s) /\ f[s] # Sum(w, s)}
<1>3. Off = {}
  <2> SUFFICES ASSUME Off # {} PROVE FALSE
    OBVIOUS
  <2>1. PICK n \in Off : \A k \in Off : n <= k
    <3>1. Off \subseteq Nat
      OBVIOUS
    <3> HIDE DEF Off
    <3> QED BY <3>1, Smallest
  <2>2. PICK s \in SUBSET S : n = Cardinality(s) /\ f[s] # Sum(w, s)
    OBVIOUS
  <2>3. s # {}
    BY <1>1, <2>2, SumOfNone
  <2> DEFINE x == CHOOSE x \in s : TRUE
             t == s \ {x}
  <2>4. x \in s
    BY <2>3
  <2>5. f[s] = w[x] + f[t]
    BY <1>1, <2>3
  <2> HIDE DEF x
  <2>6. Sum(w, s) = w[x] + Sum(w, t)
    BY <1>2, <2>4, DotsOfOne DEF Sum
  <2>7. t \in SUBSET S /\ Cardinality(t) = n - 1 /\ Cardinality(t) \in Nat
    <3>1. Cardinality(t) = Cardinality(s) - 1
      BY <1>2, <2>4, FS_RemoveElement
    <3> QED BY <1>2, <2>2, <3>1
  <2>8. f[t] # Sum(w, t)
    BY <2>2, <2>5, <2>6
  <2>9. Cardinality(t) \in Off
    BY <2>7, <2>8
  <2> HIDE DEF Off, t
  <2>10. n <= Cardinality(t)
    BY <2>1, <2>9
  <2> QED BY <1>2, <2>2, <2>7, <2>10
<1>4. Cardinality(S) \in Nat /\ S \in SUBSET S
  BY <1>2
<1> QED BY <1>3, <1>4

LEMMA SumGrows ==
  ASSUME NEW i \in Int, NEW j \in Int, NEW w, NEW v, \A k \in i..j : w[k] \in Weights,
         \A k \in i..(j - 1) : v[k] = w[k]
  PROVE  Sum(w, i..j) = IF j < i THEN 0 ELSE Sum(v, i..(j - 1)) + w[j]
<1>1. CASE j < i
  <2>1. i..j = {}
    BY <1>1
  <2> QED BY <1>1, <2>1, SumOfNone
<1>2. CASE i <= j
  <2>1. j \in i..j /\ (i..j) \ {j} = i..(j - 1) /\ IsFiniteSet(i..j)
    BY <1>2, FS_Interval
  <2>2. Sum(w, i..j) = w[j] + Sum(w, i..(j - 1))
    BY <2>1, DotsOfOne DEF Sum
  <2>3. Sum(w, i..(j - 1)) = Sum(v, i..(j - 1))
    <3>1. \A k \in i..(j - 1) : w[k] = v[k]
      OBVIOUS
    <3>2. Dots(w, i..(j - 1)) = Dots(v, i..(j - 1))
      BY <3>1 DEF Dots
    <3> QED BY <3>2 DEF Sum
  <2>4. Sum(v, i..(j - 1)) \in Nat /\ w[j] \in Nat
    <3>1. IsFiniteSet(i..(j - 1)) /\ \A k \in i..(j - 1) : v[k] \in Weights
      <4>1. j - 1 \in Int /\ \A k \in i..(j - 1) : k \in i..j
        OBVIOUS
      <4> QED BY <4>1, FS_Interval
    <3>2. Sum(v, i..(j - 1)) \in Nat
      <4>1. CASE i..(j - 1) = {}
        BY <4>1, SumOfNone
      <4>2. CASE i..(j - 1) # {}
        BY <3>1, <4>2, DotsOfOne DEF Sum
      <4> QED BY <4>1, <4>2
    <3> QED BY <2>1, <3>2 DEF Weights
  <2> QED BY <1>2, <2>2, <2>3, <2>4
<1> QED BY <1>1, <1>2

LEMMA SumIsNat ==
  ASSUME NEW i \in Int, NEW j \in Int, NEW w, \A k \in i..j : w[k] \in Weights
  PROVE  Sum(w, i..j) \in Nat
<1>1. CASE i..j = {}
  BY <1>1, SumOfNone
<1>2. CASE i..j # {}
  <2>1. IsFiniteSet(i..j)
    BY FS_Interval
  <2> QED BY <1>2, <2>1, DotsOfOne DEF Sum
<1> QED BY <1>1, <1>2

LEMMA Widths ==
  ASSUME NEW c
  PROVE  Width(c) \in Weights /\ Columns(c) \in Weights /\ (c \notin Runes => Columns(c) = Width(c))
<1>1. Width(c) \in {1, 2, 3, 4, 5}
  BY DEF Width
<1> QED BY <1>1 DEF Columns, Weights

(* Bytes and columns are counted symbol by symbol. *)
LEMMA BytesAreSums ==
  ASSUME NEW data, NEW i \in Int, NEW j \in Int
  PROVE  Bytes(data, i, j) = Sum([k \in i..j |-> Width(data[k])], i..j)
<1> DEFINE S == i..j
           w == [k \in S |-> Width(data[k])]
           Body(f) == [s \in SUBSET S |->
                         IF s = {} THEN 0 ELSE LET x == CHOOSE x \in s : TRUE IN Width(data[x]) + f[s \ {x}]]
           iter == CHOOSE f : f = Body(f)
<1>1. Bytes(data, i, j) = iter[S]
  BY DEF Bytes, MapThenSumSet, MapThenFoldSet
<1>2. \A k \in S : w[k] \in Weights
  BY Widths
<1>3. IsFiniteSet(S)
  BY FS_Interval
<1>4. ASSUME NEW f PROVE SumsUp(S, w, f) <=> f = Body(f)
  <2>1. ASSUME NEW s \in SUBSET S
        PROVE  (IF s = {} THEN 0 ELSE LET x == CHOOSE x \in s : TRUE IN w[x] + f[s \ {x}])
               = (IF s = {} THEN 0 ELSE LET x == CHOOSE x \in s : TRUE IN Width(data[x]) + f[s \ {x}])
    <3> DEFINE x == CHOOSE x \in s : TRUE
    <3>1. s # {} => x \in S
      OBVIOUS
    <3> HIDE DEF x, S
    <3>2. s # {} => w[x] = Width(data[x])
      BY <3>1
    <3> HIDE DEF w
    <3> QED BY <3>2 DEF x
  <2> HIDE DEF S, w
  <2> QED BY <2>1 DEF SumsUp
<1> HIDE DEF S, w, Body
<1>5. iter = Body(iter)
  BY <1>2, <1>3, <1>4, SumsExist
<1> HIDE DEF iter
<1>6. SumsUp(S, w, iter)
  BY <1>4, <1>5
<1>7. iter[S] = Sum(w, S)
  BY <1>2, <1>3, <1>6, SumsAreSums
<1> QED BY <1>1, <1>7 DEF S, w

ColumnsOf(data, i, j) == MapThenSumSet(LAMBDA k : Columns(data[k]), i..j)

LEMMA ColumnsAreSums ==
  ASSUME NEW data, NEW i \in Int, NEW j \in Int
  PROVE  ColumnsOf(data, i, j) = Sum([k \in i..j |-> Columns(data[k])], i..j)
<1> DEFINE S == i..j
           w == [k \in S |-> Columns(data[k])]
           Body(f) == [s \in SUBSET S |->
                         IF s = {} THEN 0 ELSE LET x == CHOOSE x \in s : TRUE IN Columns(data[x]) + f[s \ {x}]]
           iter == CHOOSE f : f = Body(f)
<1>1. ColumnsOf(data, i, j) = iter[S]
  BY DEF ColumnsOf, MapThenSumSet, MapThenFoldSet
<1>2. \A k \in S : w[k] \in Weights
  BY Widths
<1>3. IsFiniteSet(S)
  BY FS_Interval
<1>4. ASSUME NEW f PROVE SumsUp(S, w, f) <=> f = Body(f)
  <2>1. ASSUME NEW s \in SUBSET S
        PROVE  (IF s = {} THEN 0 ELSE LET x == CHOOSE x \in s : TRUE IN w[x] + f[s \ {x}])
               = (IF s = {} THEN 0 ELSE LET x == CHOOSE x \in s : TRUE IN Columns(data[x]) + f[s \ {x}])
    <3> DEFINE x == CHOOSE x \in s : TRUE
    <3>1. s # {} => x \in S
      OBVIOUS
    <3> HIDE DEF x, S
    <3>2. s # {} => w[x] = Columns(data[x])
      BY <3>1
    <3> HIDE DEF w
    <3> QED BY <3>2 DEF x
  <2> HIDE DEF S, w
  <2> QED BY <2>1 DEF SumsUp
<1> HIDE DEF S, w, Body
<1>5. iter = Body(iter)
  BY <1>2, <1>3, <1>4, SumsExist
<1> HIDE DEF iter
<1>6. SumsUp(S, w, iter)
  BY <1>4, <1>5
<1>7. iter[S] = Sum(w, S)
  BY <1>2, <1>3, <1>6, SumsAreSums
<1> QED BY <1>1, <1>7 DEF S, w

LEMMA CountsGrow ==
  ASSUME NEW data, NEW i \in Int, NEW j \in Int
  PROVE  /\ Bytes(data, i, j) \in Nat
         /\ Bytes(data, i, j) = IF j < i THEN 0 ELSE Bytes(data, i, j - 1) + Width(data[j])
         /\ ColumnsOf(data, i, j) = IF j < i THEN 0 ELSE ColumnsOf(data, i, j - 1) + Columns(data[j])
         /\ ColumnsOf(data, i, j) \in Nat
<1> DEFINE w(l) == [k \in i..l |-> Width(data[k])]
           v(l) == [k \in i..l |-> Columns(data[k])]
<1>1. j - 1 \in Int
  OBVIOUS
<1>2. /\ Bytes(data, i, j) = Sum(w(j), i..j)
      /\ Bytes(data, i, j - 1) = Sum(w(j - 1), i..(j - 1))
  BY <1>1, BytesAreSums
<1>3. /\ ColumnsOf(data, i, j) = Sum(v(j), i..j)
      /\ ColumnsOf(data, i, j - 1) = Sum(v(j - 1), i..(j - 1))
  BY <1>1, ColumnsAreSums
<1>4. \A k \in i..j : w(j)[k] \in Weights /\ v(j)[k] \in Weights
  BY Widths
<1>5. \A k \in i..(j - 1) : w(j - 1)[k] = w(j)[k] /\ v(j - 1)[k] = v(j)[k]
  OBVIOUS
<1>6. i <= j => w(j)[j] = Width(data[j]) /\ v(j)[j] = Columns(data[j])
  OBVIOUS
<1> DEFINE a == w(j)
           b == w(j - 1)
           c == v(j)
           d == v(j - 1)
<1>7. /\ \A k \in i..j : a[k] \in Weights /\ c[k] \in Weights
      /\ \A k \in i..(j - 1) : b[k] \in Weights /\ d[k] \in Weights /\ b[k] = a[k] /\ d[k] = c[k]
  <2>1. \A k \in i..(j - 1) : k \in i..j
    OBVIOUS
  <2> HIDE DEF w, v
  <2> QED BY <1>4, <1>5, <2>1
<1> HIDE DEF w, v, a, b, c, d
<1>8. Sum(a, i..j) \in Nat /\ Sum(c, i..j) \in Nat
  BY <1>7, SumIsNat
<1>9. /\ Sum(a, i..j) = IF j < i THEN 0 ELSE Sum(b, i..(j - 1)) + a[j]
      /\ Sum(c, i..j) = IF j < i THEN 0 ELSE Sum(d, i..(j - 1)) + c[j]
  BY <1>7, SumGrows
<1> QED BY <1>2, <1>3, <1>6, <1>8, <1>9 DEF a, b, c, d

(* What is true of a and is passed on is true from there on. *)
LEMMA Upward ==
  ASSUME NEW a \in Nat, NEW b \in Nat, NEW S, a \in S, \A k \in a..(b - 1) : k \in S => k + 1 \in S
  PROVE  \A k \in a..b : k \in S
<1> DEFINE Off == {k \in a..b : k \notin S}
<1>1. ASSUME Off # {} PROVE FALSE
  <2>1. PICK k \in Off : \A l \in Off : k <= l
    <3>1. Off \subseteq Nat
      OBVIOUS
    <3> HIDE DEF Off
    <3> QED BY <1>1, <3>1, Smallest
  <2>2. k \in a..b /\ k \notin S /\ k # a
    BY <2>1
  <2>3. k - 1 \in a..(b - 1) /\ k - 1 + 1 = k /\ k - 1 \in a..b
    BY <2>2
  <2>4. k - 1 \notin Off
    BY <2>1, <2>3
  <2> QED BY <2>2, <2>3, <2>4
<1> QED BY <1>1

-----------------------------------------------------------------------------
(* A walk over a whole text, symbol by symbol: the position at each symbol. *)
Passed(p, c) ==
  IF c = "LF" THEN [line |-> p.line + 1, column |-> 1, offset |-> p.offset + 1]
  ELSE [p EXCEPT !.column = @ + Columns(c), !.offset = @ + Width(c)]

Walks(data, f) ==
  /\ f \in [1..(Len(data) + 1) -> Positions]
  /\ f[1] = StartPosition
  /\ \A k \in 1..Len(data) : f[k + 1] = Passed(f[k], data[k])

LEMMA Passing ==
  ASSUME NEW p \in Positions, NEW c
  PROVE  LET q == Passed(p, c) IN
         /\ q \in Positions
         /\ q.offset = p.offset + Width(c)
         /\ q.line = p.line + (IF c = "LF" THEN 1 ELSE 0)
         /\ q.column = IF c = "LF" THEN 1 ELSE p.column + Columns(c)
<1>1. p.line \in Nat /\ p.column \in Nat /\ p.offset \in Nat
  BY DEF Positions
<1>2. p = [line |-> p.line, column |-> p.column, offset |-> p.offset]
  BY DEF Positions
<1> DEFINE w == Width(c)
           u == Columns(c)
<1>3. w \in Nat /\ u \in Nat
  BY Widths DEF Weights
<1>4. c = "LF" => w = 1
  BY DEF Width, Quads, Stands
<1>5. Passed(p, c) = IF c = "LF" THEN [line |-> p.line + 1, column |-> 1, offset |-> p.offset + 1]
                     ELSE [line |-> p.line, column |-> p.column + u, offset |-> p.offset + w]
  <2>2. CASE c = "LF"
    BY <2>2 DEF Passed
  <2>3. CASE c # "LF"
    <3>1. Passed(p, c) = [p EXCEPT !.column = @ + u, !.offset = @ + w]
      BY <2>3 DEF Passed
    <3> HIDE DEF u, w
    <3>2. ASSUME NEW q, q = [p EXCEPT !.column = @ + u, !.offset = @ + w]
          PROVE  q = [line |-> p.line, column |-> p.column + u, offset |-> p.offset + w]
      BY <3>2 DEF Positions
    <3> QED BY <2>3, <3>1, <3>2
  <2> QED BY <2>2, <2>3
<1> HIDE DEF w, u
<1>6. CASE c = "LF"
  BY <1>1, <1>4, <1>5, <1>6 DEF Positions, w, u
<1>7. CASE c # "LF"
  <2>1. p.column + u \in Nat /\ p.offset + w \in Nat
    BY <1>1, <1>3
  <2>2. Passed(p, c) = [line |-> p.line, column |-> p.column + u, offset |-> p.offset + w]
    BY <1>5, <1>7
  <2> QED BY <1>1, <1>7, <2>1, <2>2 DEF Positions, w, u
<1> QED BY <1>6, <1>7

LEMMA WalkExists ==
  ASSUME NEW data \in Seq(Symbols)
  PROVE  \E f : Walks(data, f)
<1> DEFINE n == Len(data)
           S == 1..(n + 1)
           ends == {1}
           next == [k \in S |-> k - 1]
           size == [k \in S |-> k]
           result == [k \in S |-> StartPosition]
           comb == [k \in S |-> [p \in Positions |-> Passed(p, data[k - 1])]]
<1>1. n \in Nat
  BY LenProperties
<1> HIDE DEF n
<1>2. Ends(S, ends, next, size)
  <2>1. ASSUME NEW k \in S
        PROVE  /\ size[k] \in Nat
               /\ k \notin ends => next[k] \in S /\ size[next[k]] < size[k]
    BY <1>1
  <2> QED BY <2>1 DEF Ends
<1>3. result \in [S -> Positions]
  BY DEF StartPosition, Positions
<1>4. comb \in [S -> [Positions -> Positions]]
  <2>1. \A k \in S : \A p \in Positions : Passed(p, data[k - 1]) \in Positions
    BY Passing
  <2> QED BY <2>1
<1>5. PICK f \in [S -> Positions] : \A k \in S : f[k] = IF k \in ends THEN result[k] ELSE comb[k][f[next[k]]]
  <2> HIDE DEF S, ends, next, size, result, comb
  <2>1. Recurs(S, Positions, ends, next, result, comb)
    BY <1>2, <1>3, <1>4, Recursion
  <2> QED BY <2>1 DEF Recurs
<1>6. f[1] = StartPosition
  <2>1. 1 \in S /\ 1 \in ends
    BY <1>1
  <2>2. result[1] = StartPosition
    BY <2>1
  <2> HIDE DEF S, ends, result
  <2> QED BY <1>5, <2>1, <2>2
<1>7. ASSUME NEW k \in 1..n PROVE f[k + 1] = Passed(f[k], data[k])
  <2>1. k + 1 \in S /\ k + 1 \notin ends /\ k \in S /\ k + 1 - 1 = k
    BY <1>1
  <2>2. f[k + 1] = comb[k + 1][f[next[k + 1]]]
    BY <1>5, <2>1
  <2>3. next[k + 1] = k
    BY <2>1
  <2>4. f[k] \in Positions
    BY <1>5, <2>1
  <2> HIDE DEF S, next
  <2> QED BY <2>1, <2>2, <2>3, <2>4
<1> QED BY <1>5, <1>6, <1>7 DEF Walks, n

(* Its offsets are those of the bytes, and they grow. *)
LEMMA WalkOffsets ==
  ASSUME NEW data \in Seq(Symbols), NEW f, Walks(data, f)
  PROVE  /\ \A k \in 1..(Len(data) + 1) : f[k].offset = Bytes(data, 1, k - 1)
         /\ \A k \in 1..Len(data) : \A m \in (k + 1)..(Len(data) + 1) : f[k].offset + Width(data[k]) <= f[m].offset
<1> DEFINE n == Len(data)
<1>1. n \in Nat
  BY LenProperties
<1>2. \A k \in 1..(n + 1) : f[k] \in Positions /\ f[k].offset \in Nat
  BY DEF Walks, Positions
<1>3. ASSUME NEW k \in 1..n PROVE f[k + 1].offset = f[k].offset + Width(data[k])
  <2>1. f[k + 1] = Passed(f[k], data[k]) /\ f[k] \in Positions
    BY <1>1, <1>2 DEF Walks
  <2> QED BY <2>1, Passing
<1>4. ASSUME NEW k \in 1..(n + 1) PROVE f[k].offset = Bytes(data, 1, k - 1)
  <2> DEFINE T == {l \in 1..(n + 1) : f[l].offset = Bytes(data, 1, l - 1)}
  <2>1. 1 \in T
    <3>1. Bytes(data, 1, 0) = 0
      BY CountsGrow
    <3>2. f[1].offset = 0 /\ 1 - 1 = 0
      BY DEF Walks, StartPosition
    <3> QED BY <1>1, <3>1, <3>2
  <2>2. ASSUME NEW l \in 1..(n + 1 - 1), l \in T PROVE l + 1 \in T
    <3>1. l \in 1..n /\ l \in Int /\ l + 1 - 1 = l /\ ~ (l < 1) /\ l + 1 \in 1..(n + 1)
      BY <1>1
    <3>2. Bytes(data, 1, l) = Bytes(data, 1, l - 1) + Width(data[l])
      BY <3>1, CountsGrow
    <3> QED BY <1>3, <2>2, <3>1, <3>2
  <2>3. \A l \in 1..(n + 1) : l \in T
    <3>1. 1 \in Nat /\ n + 1 \in Nat
      BY <1>1
    <3> HIDE DEF T
    <3> QED BY <2>1, <2>2, <3>1, Upward
  <2> QED BY <2>3
<1>5. ASSUME NEW k \in 1..n, NEW m \in (k + 1)..(n + 1) PROVE f[k].offset + Width(data[k]) <= f[m].offset
  <2> DEFINE a == k + 1
             T == {l \in a..(n + 1) : f[a].offset <= f[l].offset}
  <2>1. a \in Nat /\ a \in 1..(n + 1) /\ n + 1 \in Nat /\ a <= n + 1
    BY <1>1
  <2> HIDE DEF a
  <2>2. a \in T
    BY <1>2, <2>1
  <2>3. ASSUME NEW l \in a..(n + 1 - 1), l \in T PROVE l + 1 \in T
    <3>1. l \in 1..n /\ l + 1 \in a..(n + 1) /\ l \in 1..(n + 1)
      BY <1>1, <2>1
    <3>2. f[l + 1].offset = f[l].offset + Width(data[l]) /\ Width(data[l]) \in Nat
      <4>1. Width(data[l]) \in Weights
        BY Widths
      <4> DEFINE v == Width(data[l])
      <4> HIDE DEF v
      <4>2. v \in Weights => v \in Nat
        BY DEF Weights
      <4>3. f[l + 1].offset = f[l].offset + v
        BY <1>3, <3>1 DEF v
      <4> QED BY <4>1, <4>2, <4>3 DEF v
    <3>3. f[l].offset \in Nat /\ f[a].offset \in Nat
      BY <1>2, <2>1, <3>1
    <3> QED BY <2>3, <3>1, <3>2, <3>3
  <2>4. \A l \in a..(n + 1) : l \in T
    <3> DEFINE b == n + 1
    <3>1. b \in Nat /\ \A l \in a..(b - 1) : l \in T => l + 1 \in T
      BY <2>1, <2>3
    <3> HIDE DEF T, b
    <3>2. \A l \in a..b : l \in T
      BY <2>1, <2>2, <3>1, Upward
    <3> QED BY <3>2 DEF b
  <2>5. f[a].offset = f[k].offset + Width(data[k])
    BY <1>3 DEF a
  <2> QED BY <2>4, <2>5 DEF a
<1> QED BY <1>4, <1>5

(* Bytes that announce others. *)
Announcing == Runes \cup Leads

LEMMA Announcers ==
  ASSUME NEW c
  PROVE  /\ RuneLen(c) \in 1..4 /\ (RuneLen(c) = 1 <=> c \notin Announcing)
         /\ c \in Runes => Columns(c) = 1 /\ Width(c) = RuneLen(c)
         /\ c \notin Runes => Columns(c) = Width(c)
         /\ RuneLen("rest") = 1 /\ "LF" \notin Announcing
<1>1. c \in Runes => Width(c) \in 2..3
  <2>1. "RUNE" \notin Quads /\ "LS" \notin Quads /\ "REPL" \notin Quads
    BY DEF Quads, Stands
  <2> QED BY <2>1 DEF Runes, Width
<1>2. c \in Runes => RuneLen(c) = Width(c)
  BY DEF RuneLen, Runes
<1>3. c \notin Runes => RuneLen(c) = CASE c = "LEAD2" -> 2 [] c = "LEAD3" -> 3 [] c = "LEAD4" -> 4 [] OTHER -> 1
  BY DEF RuneLen
<1>4. RuneLen("rest") = 1 /\ "LF" \notin Announcing
  BY DEF RuneLen, Announcing, Runes, Leads
<1>5. CASE c \in Runes
  BY <1>1, <1>2, <1>4, <1>5 DEF Columns, Announcing
<1>6. CASE c \notin Runes
  <2>1. Columns(c) = Width(c)
    BY <1>6 DEF Columns
  <2> QED BY <1>3, <1>4, <1>6, <2>1 DEF Announcing, Leads
<1> QED BY <1>5, <1>6

LEMMA Striding ==
  ASSUME NEW p \in Positions, NEW c, NEW end \in Nat
  PROVE  LET n == IF p.offset + RuneLen(c) > end THEN 1 ELSE RuneLen(c)
             q == Stride(p, c, end)
         IN /\ n \in Nat \ {0}
            /\ q = IF c = "LF" THEN [line |-> p.line + 1, column |-> 1, offset |-> p.offset + 1]
                   ELSE [line |-> p.line, column |-> p.column + 1, offset |-> p.offset + n]
            /\ q \in Positions /\ p.offset < q.offset
<1> DEFINE n == IF p.offset + RuneLen(c) > end THEN 1 ELSE RuneLen(c)
           q == Stride(p, c, end)
<1>1. /\ p.line \in Nat /\ p.column \in Nat /\ p.offset \in Nat
      /\ p = [line |-> p.line, column |-> p.column, offset |-> p.offset]
  BY DEF Positions
<1>2. n \in Nat \ {0}
  <2>1. RuneLen(c) \in 1..4
    BY Announcers
  <2> DEFINE l == RuneLen(c)
  <2> HIDE DEF l
  <2>2. l \in 1..4 => (IF p.offset + l > end THEN 1 ELSE l) \in Nat \ {0}
    BY <1>1
  <2> QED BY <2>1, <2>2 DEF l
<1>3. q = IF c = "LF" THEN [line |-> p.line + 1, column |-> 1, offset |-> p.offset + 1]
          ELSE [p EXCEPT !.column = @ + 1, !.offset = @ + n]
  BY DEF Stride
<1> HIDE DEF n, q
<1>4. ASSUME NEW r, r = [p EXCEPT !.column = @ + 1, !.offset = @ + n]
      PROVE  r = [line |-> p.line, column |-> p.column + 1, offset |-> p.offset + n]
  BY <1>4 DEF Positions
<1>5. q = IF c = "LF" THEN [line |-> p.line + 1, column |-> 1, offset |-> p.offset + 1]
          ELSE [line |-> p.line, column |-> p.column + 1, offset |-> p.offset + n]
  BY <1>3, <1>4
<1>6. q \in Positions /\ p.offset < q.offset
  <2>1. CASE c = "LF"
    BY <1>1, <1>5, <2>1 DEF Positions
  <2>2. CASE c # "LF"
    BY <1>1, <1>2, <1>5, <2>2 DEF Positions
  <2> QED BY <2>1, <2>2
<1> QED BY <1>2, <1>5, <1>6 DEF n, q

(* Where the symbols of a text begin, and how far PositionAt() goes. *)
Begins(data) == [k \in 1..Len(data) |-> Bytes(data, 1, k - 1)]

Goal(data, offset) ==
  LET size == Bytes(data, 1, Len(data)) IN IF offset > size THEN size ELSE offset

(* One round of the loop of PositionAt(), with its results, g. *)
WalkRound(data, end, p, g) ==
  IF p.offset >= end THEN p ELSE g[Stride(p, ByteAt(data, Begins(data), p.offset), end)]

LEMMA PositionAtIsALoop ==
  ASSUME NEW data \in Seq(Symbols), NEW offset, Goal(data, offset) \in Nat
  PROVE  \E g : /\ PositionAt(data, offset) = g[StartPosition]
                /\ \A p \in Positions : g[p] = WalkRound(data, Goal(data, offset), p, g)
<1> DEFINE end == Goal(data, offset)
           To(p) == Stride(p, ByteAt(data, Begins(data), p.offset), end)
           S == Positions
           ends == {p \in S : p.offset >= end}
           result == [p \in S |-> p]
           next == [p \in S |-> To(p)]
           size == [p \in S |-> IF p.offset >= end THEN 0 ELSE end - p.offset]
           Body(g) == [p \in S |-> WalkRound(data, end, p, g)]
           walk == CHOOSE g : g = Body(g)
<1>1. PositionAt(data, offset) = walk[StartPosition]
  BY DEF PositionAt, WalkRound, Begins, Goal
<1>2. end \in Nat /\ \A p \in S : p.offset \in Nat
  BY DEF Positions
<1> HIDE DEF end
<1>3. ASSUME NEW p \in S
      PROVE  /\ size[p] \in Nat
             /\ p \notin ends => next[p] \in S /\ size[next[p]] < size[p]
  <2> DEFINE q == To(p)
  <2>1. q \in S /\ p.offset < q.offset
    BY <1>2, Striding
  <2>2. next[p] = q
    OBVIOUS
  <2> HIDE DEF q
  <2>3. /\ size[p] = IF p.offset >= end THEN 0 ELSE end - p.offset
        /\ size[q] = IF q.offset >= end THEN 0 ELSE end - q.offset
        /\ p \notin ends => ~ (p.offset >= end)
    BY <2>1
  <2>4. p.offset \in Nat /\ q.offset \in Nat
    BY <1>2, <2>1
  <2> HIDE DEF size, next, ends, S
  <2> QED BY <1>2, <2>1, <2>2, <2>3, <2>4
<1>4. PICK g : \A p \in S : g[p] = IF p \in ends THEN result[p] ELSE g[next[p]]
  <2> HIDE DEF S, ends, next, result, size
  <2>1. Ends(S, ends, next, size)
    BY <1>3 DEF Ends
  <2>2. HasResults(S, ends, next, result)
    BY <2>1, LoopsEnd
  <2> QED BY <2>2 DEF HasResults
<1>5. ASSUME NEW h, NEW p \in S
      PROVE  WalkRound(data, end, p, h) = IF p \in ends THEN result[p] ELSE h[next[p]]
  BY DEF WalkRound
<1> DEFINE h == [p \in S |-> g[p]]
<1>6. h = Body(h)
  <2>1. \A p \in S : h[p] = WalkRound(data, end, p, h)
    <3>1. \A p \in S : h[p] = g[p] /\ (p \notin ends => next[p] \in S)
      BY <1>3
    <3> HIDE DEF S, ends, next, result, h
    <3> QED BY <1>4, <1>5, <3>1
  <2> HIDE DEF S
  <2> QED BY <2>1
<1>7. walk = Body(walk)
  <2> HIDE DEF Body
  <2> QED BY <1>6
<1>8. \A p \in S : walk[p] = WalkRound(data, end, p, walk)
  <2> HIDE DEF walk, S
  <2> QED BY <1>7
<1> QED BY <1>1, <1>8 DEF end

(* The bytes of a text: the first of a symbol, and the others. *)
LEMMA BytesOfSymbols ==
  ASSUME NEW data \in Seq(Symbols), NEW f, Walks(data, f), NEW k \in 1..Len(data)
  PROVE  /\ ByteAt(data, Begins(data), f[k].offset) = data[k]
         /\ \A o \in Nat : f[k].offset < o /\ o < f[k].offset + Width(data[k]) =>
              ByteAt(data, Begins(data), o) = "rest"
<1> DEFINE n == Len(data)
           b == Begins(data)
           At1(l) == f[l].offset
<1>1. n \in Nat /\ DOMAIN b = 1..n
  BY LenProperties DEF Begins
<1>2. ASSUME NEW l \in 1..n
      PROVE  b[l] = At1(l) /\ At1(l) \in Nat /\ Width(data[l]) \in Nat /\ Width(data[l]) > 0
  <2>1. l \in 1..(n + 1)
    BY <1>1
  <2>2. At1(l) = Bytes(data, 1, l - 1)
    BY <2>1, WalkOffsets
  <2>3. At1(l) \in Nat
    BY <2>1 DEF Walks, Positions
  <2>4. Width(data[l]) \in Nat /\ Width(data[l]) > 0
    <3>1. Width(data[l]) \in Weights
      BY Widths
    <3> DEFINE v == Width(data[l])
    <3> HIDE DEF v
    <3>2. v \in Weights => v \in Nat /\ v > 0
      BY DEF Weights
    <3> QED BY <3>1, <3>2 DEF v
  <2> QED BY <2>2, <2>3, <2>4 DEF Begins
<1>3. \A l, m \in 1..n : l < m => At1(l) + Width(data[l]) <= At1(m)
  <2> SUFFICES ASSUME NEW l \in 1..n, NEW m \in 1..n, l < m PROVE At1(l) + Width(data[l]) <= At1(m)
    OBVIOUS
  <2>1. m \in (l + 1)..(n + 1)
    BY <1>1
  <2> QED BY <2>1, WalkOffsets
<1> HIDE DEF n, b, At1
<1> DEFINE v == [l \in 1..n |-> Width(data[l])]
<1>4. \A l \in 1..n : b[l] = At1(l) /\ At1(l) \in Nat /\ v[l] \in Nat /\ v[l] > 0 /\ v[l] = Width(data[l])
  BY <1>2
<1>5. \A l, m \in 1..n : l < m => At1(l) + v[l] <= At1(m)
  BY <1>3
<1>6. k \in 1..n
  BY DEF n
<1> HIDE DEF v
<1>7. ASSUME NEW l \in 1..n, b[l] = At1(k) PROVE l = k
  <2>1. CASE l < k
    BY <1>4, <1>5, <1>6, <1>7, <2>1
  <2>2. CASE k < l
    BY <1>4, <1>5, <1>6, <1>7, <2>2
  <2> QED BY <1>1, <1>6, <2>1, <2>2
<1>8. ByteAt(data, b, At1(k)) = data[k]
  <2> DEFINE j == CHOOSE l \in DOMAIN b : b[l] = At1(k)
  <2>1. k \in DOMAIN b /\ b[k] = At1(k)
    BY <1>1, <1>4, <1>6
  <2>2. j \in DOMAIN b /\ b[j] = At1(k)
    BY <2>1
  <2> HIDE DEF j
  <2>3. j = k
    BY <1>1, <1>7, <2>2
  <2> QED BY <2>1, <2>3 DEF ByteAt, j
<1>9. ASSUME NEW o \in Nat, At1(k) < o, o < At1(k) + Width(data[k])
      PROVE  ByteAt(data, b, o) = "rest"
  <2>1. o < At1(k) + v[k]
    BY <1>4, <1>6, <1>9
  <2>2. ASSUME NEW l \in 1..n, b[l] = o PROVE FALSE
    <3>1. CASE l < k
      BY <1>4, <1>5, <1>6, <1>9, <2>2, <3>1
    <3>2. CASE k < l
      BY <1>4, <1>5, <1>6, <2>1, <2>2, <3>2
    <3>3. CASE l = k
      BY <1>4, <1>6, <1>9, <2>2, <3>3
    <3> QED BY <1>1, <1>6, <3>1, <3>2, <3>3
  <2> QED BY <1>1, <2>2 DEF ByteAt
<1> QED BY <1>8, <1>9 DEF At1, b

(* PositionAt() crosses a symbol that is no stray lead byte, if end is not  *)
(* inside it, and comes to where the walk is. *)
LEMMA Across ==
  ASSUME NEW data \in Seq(Symbols), NEW f, Walks(data, f), NEW end \in Nat, NEW g,
         \A p \in Positions : g[p] = WalkRound(data, end, p, g),
         NEW k \in 1..Len(data), data[k] \notin Leads, f[k].offset + Width(data[k]) <= end
  PROVE  g[f[k]] = g[f[k + 1]]
<1> DEFINE c == data[k]
           q == f[k]
           w == Width(c)
           Byte(o) == ByteAt(data, Begins(data), o)
           P(d) == [line |-> q.line, column |-> q.column + d, offset |-> q.offset + d]
<1>1. /\ q \in Positions /\ q.line \in Nat /\ q.column \in Nat /\ q.offset \in Nat
      /\ q = [line |-> q.line, column |-> q.column, offset |-> q.offset]
      /\ f[k + 1] \in Positions
  <2>1. k \in 1..(Len(data) + 1) /\ k + 1 \in 1..(Len(data) + 1)
    BY LenProperties
  <2>2. q \in Positions /\ f[k + 1] \in Positions
    BY <2>1 DEF Walks
  <2> HIDE DEF q
  <2> QED BY <2>2 DEF Positions
<1>2. f[k + 1] = Passed(q, c)
  BY DEF Walks
<1>3. w \in Nat /\ w > 0 /\ q.offset + w <= end
  <2>1. w \in Weights /\ q.offset + w <= end
    BY Widths
  <2> HIDE DEF w, q
  <2> QED BY <2>1 DEF Weights
<1>4. /\ Byte(q.offset) = c
      /\ \A o \in Nat : q.offset < o /\ o < q.offset + w => Byte(o) = "rest"
  BY BytesOfSymbols
<1>5. ASSUME NEW p \in Positions, ~ (p.offset >= end) PROVE g[p] = g[Stride(p, Byte(p.offset), end)]
  BY <1>5 DEF WalkRound
<1>6. /\ RuneLen(c) \in 1..4 /\ (RuneLen(c) = 1 <=> c \notin Announcing) /\ RuneLen("rest") = 1
      /\ c \in Runes => Columns(c) = 1 /\ w = RuneLen(c)
      /\ c \notin Runes => Columns(c) = w /\ RuneLen(c) = 1
      /\ "LF" \notin Runes
  BY Announcers DEF Announcing
<1>7. f[k + 1] = IF c = "LF" THEN [line |-> q.line + 1, column |-> 1, offset |-> q.offset + 1]
                 ELSE [line |-> q.line, column |-> q.column + Columns(c), offset |-> q.offset + w]
  <2> DEFINE u == Columns(c)
             r == f[k + 1]
  <2>1. r = IF c = "LF" THEN [line |-> q.line + 1, column |-> 1, offset |-> q.offset + 1]
            ELSE [q EXCEPT !.column = @ + u, !.offset = @ + w]
    BY <1>2 DEF Passed
  <2> HIDE DEF q, u, w, c, r
  <2>2. ASSUME NEW x, x = [q EXCEPT !.column = @ + u, !.offset = @ + w]
        PROVE  x = [line |-> q.line, column |-> q.column + u, offset |-> q.offset + w]
    BY <1>1, <2>2 DEF Positions
  <2> QED BY <2>1, <2>2 DEF u, r
<1> HIDE DEF q, w, c, Byte
<1>8. ~ (q.offset >= end)
  BY <1>1, <1>3
<1>9. CASE c = "LF"
  <2>1. Stride(q, c, end) = [line |-> q.line + 1, column |-> 1, offset |-> q.offset + 1]
    BY <1>9 DEF Stride
  <2> QED BY <1>1, <1>4, <1>5, <1>7, <1>8, <1>9, <2>1 DEF q
<1>10. CASE c \in Runes
  <2> DEFINE l == RuneLen(c)
  <2>1. c # "LF" /\ Columns(c) = 1 /\ w = l
    BY <1>6, <1>10
  <2>2. Stride(q, c, end) = [line |-> q.line, column |-> q.column + 1,
                             offset |-> q.offset + (IF q.offset + l > end THEN 1 ELSE l)]
    BY <1>1, <2>1, Striding
  <2> HIDE DEF l
  <2>3. ~ (q.offset + l > end)
    BY <1>1, <1>3, <2>1
  <2>4. Stride(q, c, end) = f[k + 1]
    BY <1>7, <2>1, <2>2, <2>3
  <2> QED BY <1>1, <1>4, <1>5, <1>8, <2>4 DEF q
<1>11. CASE c \notin Runes /\ c # "LF"
  <2>1. ASSUME NEW d \in 0..(w - 1) PROVE g[P(d)] = g[P(d + 1)]
    <3> DEFINE p == P(d)
               b == Byte(p.offset)
               l == RuneLen(b)
    <3>1. d \in Nat /\ d < w /\ q.offset + d \in Nat /\ q.column + d \in Nat
      BY <1>1, <1>3
    <3>2. p \in Positions /\ p.offset = q.offset + d /\ p.column = q.column + d /\ p.line = q.line
      BY <1>1, <3>1 DEF Positions
    <3> HIDE DEF p
    <3>3. b = c \/ b = "rest"
      <4>1. CASE d = 0
        <5>1. p.offset = q.offset
          BY <1>1, <3>2, <4>1
        <5> QED BY <1>4, <5>1
      <4>2. CASE d # 0
        <5>1. p.offset \in Nat /\ q.offset < p.offset /\ p.offset < q.offset + w
          BY <1>1, <1>3, <3>1, <3>2, <4>2
        <5> QED BY <1>4, <5>1
      <4> QED BY <4>1, <4>2
    <3> HIDE DEF b
    <3>4. b # "LF" /\ l = 1
      BY <1>6, <1>11, <3>3
    <3>5. Stride(p, b, end) = [line |-> p.line, column |-> p.column + 1,
                               offset |-> p.offset + (IF p.offset + l > end THEN 1 ELSE l)]
      BY <3>2, <3>4, Striding
    <3> HIDE DEF l
    <3>6. (IF p.offset + l > end THEN 1 ELSE l) = 1
      BY <3>4
    <3>7. Stride(p, b, end) = P(d + 1)
      <4>1. q.column + d + 1 = q.column + (d + 1) /\ q.offset + d + 1 = q.offset + (d + 1)
        BY <1>1, <3>1
      <4> QED BY <3>2, <3>5, <3>6, <4>1
    <3>8. ~ (p.offset >= end)
      BY <1>1, <1>3, <3>1, <3>2
    <3>9. g[p] = g[P(d + 1)]
      BY <1>5, <3>2, <3>7, <3>8 DEF b
    <3> QED BY <3>9 DEF p
  <2>2. g[P(w)] = g[P(0)]
    <3> DEFINE T == {d \in 0..w : g[P(d)] = g[P(0)]}
    <3> HIDE DEF P
    <3>1. 0 \in T
      BY <1>3
    <3>2. ASSUME NEW d \in 0..(w - 1), d \in T PROVE d + 1 \in T
      BY <1>3, <2>1, <3>2
    <3>3. \A d \in 0..w : d \in T
      <4>1. 0 \in Nat
        OBVIOUS
      <4> HIDE DEF T
      <4> QED BY <1>3, <3>1, <3>2, <4>1, Upward
    <3>4. w \in 0..w
      BY <1>3
    <3> QED BY <3>3, <3>4
  <2>3. P(0) = q
    BY <1>1
  <2>4. P(w) = f[k + 1]
    BY <1>6, <1>7, <1>11
  <2> HIDE DEF P
  <2> QED BY <2>2, <2>3, <2>4 DEF q
<1> QED BY <1>9, <1>10, <1>11

(* No stray lead byte comes before the symbol k, and p is where it begins. *)
Even(data, k)         == \A r \in 1..(k - 1) : data[r] \notin Leads
Begun(data, f, k, p) == p = f[k] /\ Even(data, k)

(* Positions that PositionAt() agrees with: those of the walk as long as it *)
(* met no stray lead byte, and the one behind the first byte of a symbol.   *)
Lies(data, f, p) ==
  \/ \E m \in 1..(Len(data) + 1) : Begun(data, f, m, p)
  \/ \E m \in 1..Len(data) : /\ data[m] # "LF" /\ Even(data, m)
                             /\ p = [f[m] EXCEPT !.offset = @ + 1, !.column = @ + 1]

LEMMA PositionAtWalks ==
  ASSUME NEW data \in Seq(Symbols), NEW f, Walks(data, f), NEW p, Lies(data, f, p)
  PROVE  PositionAt(data, p.offset) = p
<1> DEFINE n == Len(data)
           o == p.offset
           size == f[n + 1].offset
<1>1. n \in Nat
  BY LenProperties
<1>2. \A k \in 1..(n + 1) : f[k] \in Positions /\ f[k].offset \in Nat /\ f[k].column \in Nat
  BY DEF Walks, Positions
<1>3. \A k \in 1..n : \A m \in (k + 1)..(n + 1) :
        /\ Width(data[k]) \in Nat /\ Width(data[k]) >= 1
        /\ f[k].offset + Width(data[k]) <= f[m].offset
  <2>1. \A k : Width(data[k]) \in Weights
    BY Widths
  <2>2. \A v \in Weights : v \in Nat /\ v >= 1
    BY DEF Weights
  <2> QED BY <2>1, <2>2, WalkOffsets
<1>4. \A k \in 1..n : f[k].offset < size
  <2> SUFFICES ASSUME NEW k \in 1..n PROVE f[k].offset < size
    OBVIOUS
  <2> DEFINE v == Width(data[k])
  <2>1. v \in Nat /\ v >= 1 /\ f[k].offset + v <= f[n + 1].offset
    <3>1. n + 1 \in (k + 1)..(n + 1)
      BY <1>1
    <3> QED BY <1>3, <3>1
  <2>2. f[k].offset \in Nat /\ f[n + 1].offset \in Nat
    BY <1>1, <1>2
  <2> HIDE DEF v
  <2> QED BY <2>1, <2>2
<1>5. size = Bytes(data, 1, n) /\ size \in Nat
  <2>1. n + 1 \in 1..(n + 1) /\ n + 1 - 1 = n
    BY <1>1
  <2> QED BY <1>2, <2>1, WalkOffsets
<1> HIDE DEF size
<1>6. ASSUME o \in Nat, o <= size
      PROVE  \E g : /\ PositionAt(data, o) = g[StartPosition]
                    /\ \A q \in Positions : g[q] = WalkRound(data, o, q, g)
  <2>1. Goal(data, o) = o
    <3> HIDE DEF o
    <3> QED BY <1>5, <1>6 DEF Goal, n
  <2> HIDE DEF o
  <2> QED BY <1>6, <2>1, PositionAtIsALoop
<1> HIDE DEF o
<1>7. ASSUME NEW m \in 1..(n + 1), Even(data, m), o \in Nat, f[m].offset <= o, NEW g,
             PositionAt(data, o) = g[StartPosition], \A q \in Positions : g[q] = WalkRound(data, o, q, g)
      PROVE  PositionAt(data, o) = g[f[m]]
  <2> DEFINE T == {l \in 1..m : PositionAt(data, o) = g[f[l]]}
  <2>1. 1 \in T
    BY <1>1, <1>7 DEF Walks
  <2>2. ASSUME NEW l \in 1..(m - 1), l \in T PROVE l + 1 \in T
    <3>1. l \in 1..n /\ l \in 1..(n + 1) /\ m \in (l + 1)..(n + 1) /\ l + 1 \in 1..m
      BY <1>1
    <3>2. data[l] \notin Leads
      BY <1>7 DEF Even
    <3>3. f[l].offset + Width(data[l]) <= o
      <4> DEFINE v == Width(data[l])
      <4>1. v \in Nat /\ f[l].offset + v <= f[m].offset
        BY <1>3, <3>1
      <4>2. f[l].offset \in Nat /\ f[m].offset \in Nat
        BY <1>2, <3>1
      <4> HIDE DEF v
      <4>3. f[l].offset + v <= o
        BY <1>7, <4>1, <4>2
      <4> QED BY <4>3 DEF v
    <3>4. g[f[l]] = g[f[l + 1]]
      BY <1>7, <3>1, <3>2, <3>3, Across DEF n
    <3> QED BY <2>2, <3>1, <3>4
  <2>3. \A l \in 1..m : l \in T
    <3>1. 1 \in Nat /\ m \in Nat
      BY <1>1
    <3> HIDE DEF T
    <3> QED BY <2>1, <2>2, <3>1, Upward
  <2>4. m \in 1..m
    BY <1>1
  <2> QED BY <2>3, <2>4
<1>8. ASSUME NEW m \in 1..(n + 1), Begun(data, f, m, p) PROVE PositionAt(data, o) = p
  <2>1. p = f[m] /\ Even(data, m) /\ o \in Nat /\ o = f[m].offset /\ f[m] \in Positions
    BY <1>2, <1>8 DEF o, Begun
  <2>2. o <= size
    <3>1. m \in 1..n \/ m = n + 1
      BY <1>1
    <3>2. CASE m \in 1..n
      BY <1>4, <1>5, <2>1, <3>2
    <3>3. CASE m = n + 1
      BY <1>5, <2>1, <3>3 DEF size
    <3> QED BY <3>1, <3>2, <3>3
  <2>3. PICK g : /\ PositionAt(data, o) = g[StartPosition]
                 /\ \A q \in Positions : g[q] = WalkRound(data, o, q, g)
    BY <1>6, <2>1, <2>2
  <2>4. f[m].offset <= o /\ f[m].offset >= o
    BY <2>1
  <2>5. PositionAt(data, o) = g[f[m]]
    BY <1>7, <2>1, <2>3, <2>4
  <2>6. g[f[m]] = f[m]
    BY <2>1, <2>3, <2>4 DEF WalkRound
  <2> QED BY <2>1, <2>5, <2>6
<1>9. ASSUME NEW m \in 1..n, data[m] # "LF", Even(data, m),
             p = [f[m] EXCEPT !.offset = @ + 1, !.column = @ + 1]
      PROVE  PositionAt(data, o) = p
  <2>1. /\ m \in 1..(n + 1) /\ f[m] \in Positions /\ f[m].offset \in Nat /\ f[m].column \in Nat
    BY <1>1, <1>2
  <2>2. /\ f[m] = [line |-> f[m].line, column |-> f[m].column, offset |-> f[m].offset]
        /\ o = f[m].offset + 1
        /\ p = [line |-> f[m].line, column |-> f[m].column + 1, offset |-> f[m].offset + 1]
    BY <1>9, <2>1 DEF Positions, o
  <2>3. /\ o \in Nat /\ o <= size /\ f[m].offset <= o /\ ~ (f[m].offset >= o)
        /\ f[m].line \in Nat
    BY <1>4, <1>5, <2>1, <2>2 DEF Positions
  <2>4. PICK g : /\ PositionAt(data, o) = g[StartPosition]
                 /\ \A q \in Positions : g[q] = WalkRound(data, o, q, g)
    BY <1>6, <2>3
  <2>5. PositionAt(data, o) = g[f[m]]
    BY <1>7, <1>9, <2>1, <2>3, <2>4
  <2> DEFINE l == RuneLen(data[m])
             q == f[m]
  <2>6. Stride(q, data[m], o) = [line |-> q.line, column |-> q.column + 1,
                                 offset |-> q.offset + (IF q.offset + l > o THEN 1 ELSE l)]
    BY <1>9, <2>1, <2>3, Striding
  <2>7. l \in 1..4
    BY Announcers
  <2>8. ByteAt(data, Begins(data), q.offset) = data[m]
    BY BytesOfSymbols DEF n
  <2>9. g[q] = g[Stride(q, data[m], o)]
    BY <2>1, <2>3, <2>4, <2>8 DEF WalkRound
  <2> HIDE DEF l, q
  <2>10. (IF q.offset + l > o THEN 1 ELSE l) = 1
    BY <2>1, <2>2, <2>7 DEF q
  <2>11. Stride(q, data[m], o) = p
    BY <2>2, <2>6, <2>10 DEF q
  <2>12. p \in Positions /\ p.offset = o /\ p.offset >= o
    BY <2>1, <2>2, <2>3 DEF Positions
  <2>13. g[p] = p
    BY <2>4, <2>12 DEF WalkRound
  <2> QED BY <2>5, <2>9, <2>11, <2>13 DEF q
<1> QED BY <1>8, <1>9 DEF Lies, o, n

-----------------------------------------------------------------------------
(* A scanner that counts along with the walk. *)
Placed(data, f, s) ==
  s \in [i : 1..(Len(data) + 1), pos : Positions] /\ Begun(data, f, s.i, s.pos)

Smooth(data, i, j) == \A r \in i..j : RuneLen(data[r]) = 1

Newlines(data, i, j) == {k \in i..j : data[k] = "LF"}

NewlineAt(data, i, j) ==
  /\ Newlines(data, i, j) = Newlines(data, i, j - 1) \cup (IF data[j] = "LF" THEN {j} ELSE {})
  /\ IsFiniteSet(Newlines(data, i, j - 1)) /\ Cardinality(Newlines(data, i, j - 1)) \in Nat
  /\ j \notin Newlines(data, i, j - 1)
  /\ data[j] = "LF" => Max(Newlines(data, i, j)) = j
  /\ Newlines(data, i, j - 1) # {} => Max(Newlines(data, i, j - 1)) \in i..(j - 1)

LEMMA NewlinesGrow ==
  ASSUME NEW data, NEW i \in Nat \ {0}, NEW j \in Nat, i <= j
  PROVE  NewlineAt(data, i, j)
<1> DEFINE T == Newlines(data, i, j - 1)
<1>1. Newlines(data, i, j) = T \cup (IF data[j] = "LF" THEN {j} ELSE {})
  BY DEF Newlines
<1>2. IsFiniteSet(T) /\ Cardinality(T) \in Nat
  <2>1. IsFiniteSet(i..(j - 1)) /\ T \in SUBSET (i..(j - 1))
    BY FS_Interval DEF Newlines
  <2> QED BY <2>1, FS_Subset, FS_CardinalityType
<1>3. j \notin T
  BY DEF Newlines
<1>4. ASSUME data[j] = "LF" PROVE Max(Newlines(data, i, j)) = j
  <2> DEFINE S == Newlines(data, i, j)
  <2>1. j \in S /\ \A y \in S : y \in Int /\ y <= j
    BY <1>4 DEF Newlines
  <2> HIDE DEF S
  <2>2. \A x \in S : (\A y \in S : x >= y) => x = j
    BY <2>1
  <2>3. j \in S /\ \A y \in S : j >= y
    BY <2>1
  <2>4. Max(S) = j
    BY <2>2, <2>3 DEF Max
  <2> QED BY <2>4 DEF S
<1>5. ASSUME T # {} PROVE Max(T) \in i..(j - 1)
  <2>1. T \subseteq 1..j /\ T \subseteq i..(j - 1)
    BY <1>5 DEF Newlines
  <2> HIDE DEF T
  <2>2. Max(T) \in T
    BY <1>5, <2>1, MaxIsIn
  <2> QED BY <2>1, <2>2
<1> QED BY <1>1, <1>2, <1>3, <1>4, <1>5 DEF NewlineAt

LEMMA AdvanceRight ==
  ASSUME NEW data \in Seq(Symbols), NEW f, Walks(data, f), NEW s, Placed(data, f, s),
         NEW j \in s.i..(Len(data) + 1), Smooth(data, s.i, j - 1)
  PROVE  Placed(data, f, AdvanceTo(data, s, j))
<1> DEFINE n == Len(data)
           i == s.i
           p == s.pos
           N(l) == Newlines(data, i, l - 1)
           B(l) == Bytes(data, i, l - 1)
           C(l) == IF N(l) = {} THEN p.column + B(l) ELSE 1 + Bytes(data, Max(N(l)) + 1, l - 1)
           P(l) == [line |-> p.line + Cardinality(N(l)), column |-> C(l), offset |-> p.offset + B(l)]
<1>1. n \in Nat /\ i \in Nat /\ i >= 1 /\ i <= n + 1 /\ j \in Nat /\ i <= j /\ j <= n + 1
  BY LenProperties DEF Placed
<1>2. p = f[i] /\ \A k \in 1..(n + 1) : f[k] \in Positions
  BY DEF Placed, Begun, Walks
<1>3. AdvanceTo(data, s, j) = [i |-> j, pos |-> P(j)]
  BY DEF AdvanceTo, Newlines
<1>4. p \in Positions /\ p.line \in Nat /\ p.column \in Nat /\ p.offset \in Nat
      /\ p = [line |-> p.line, column |-> p.column, offset |-> p.offset]
  BY <1>1, <1>2 DEF Positions
<1> HIDE DEF n, i, p
<1>5. P(i) = f[i]
  <2>1. N(i) = {} /\ Cardinality(N(i)) = 0
    <3>1. N(i) = {}
      BY <1>1 DEF Newlines
    <3> QED BY <3>1, FS_EmptySet
  <2>2. B(i) = 0
    BY <1>1, CountsGrow
  <2>3. C(i) = p.column + 0
    BY <2>1, <2>2
  <2> HIDE DEF N, B, C
  <2>4. P(i) = [line |-> p.line, column |-> p.column, offset |-> p.offset]
    <3>1. p.line + 0 = p.line /\ p.column + 0 = p.column /\ p.offset + 0 = p.offset
      BY <1>4
    <3> QED BY <2>1, <2>2, <2>3, <3>1
  <2> QED BY <1>2, <1>4, <2>4
<1>6. ASSUME NEW l \in i..(j - 1), P(l) = f[l] PROVE P(l + 1) = f[l + 1]
  <2> DEFINE c == data[l]
             q == f[l]
  <2>1. l \in Nat /\ l \in 1..n /\ i <= l /\ l \in Int /\ l + 1 - 1 = l /\ ~ (l < i)
        /\ l \in 1..(n + 1) /\ l + 1 \in 1..(n + 1) /\ l \in i..(j - 1)
    BY <1>1
  <2>2. f[l + 1] = Passed(q, c) /\ q \in Positions /\ f[l + 1] \in Positions
    BY <1>2, <2>1 DEF Walks, n
  <2>3. /\ f[l + 1].offset = q.offset + Width(c)
        /\ f[l + 1].line = q.line + (IF c = "LF" THEN 1 ELSE 0)
        /\ f[l + 1].column = IF c = "LF" THEN 1 ELSE q.column + Columns(c)
        /\ f[l + 1] = [line |-> f[l + 1].line, column |-> f[l + 1].column, offset |-> f[l + 1].offset]
    <3>1. f[l + 1] = [line |-> f[l + 1].line, column |-> f[l + 1].column, offset |-> f[l + 1].offset]
      BY <2>2 DEF Positions
    <3> HIDE DEF c, q
    <3> QED BY <2>2, <3>1, Passing
  <2>4. Columns(c) = Width(c)
    <3>1. RuneLen(c) = 1
      BY <2>1 DEF Smooth, i
    <3> QED BY <3>1, Announcers DEF Announcing
  <2>5. q.line = p.line + Cardinality(N(l)) /\ q.column = C(l) /\ q.offset = p.offset + B(l)
    <3> HIDE DEF q, N, B, C
    <3> QED BY <1>6 DEF q
  <2>6. B(l + 1) = B(l) + Width(c) /\ B(l) \in Nat /\ Width(c) \in Nat
    <3>1. Bytes(data, i, l) = Bytes(data, i, l - 1) + Width(data[l]) /\ Bytes(data, i, l - 1) \in Nat
      BY <1>1, <2>1, CountsGrow
    <3>2. Width(c) \in Weights
      BY Widths
    <3> DEFINE w == Width(c)
    <3> HIDE DEF w
    <3>3. w \in Weights => w \in Nat
      BY DEF Weights
    <3> QED BY <2>1, <3>1, <3>2, <3>3 DEF w
  <2>7. /\ N(l + 1) = N(l) \cup (IF c = "LF" THEN {l} ELSE {})
        /\ IsFiniteSet(N(l)) /\ Cardinality(N(l)) \in Nat /\ l \notin N(l)
        /\ c = "LF" => Max(N(l + 1)) = l
        /\ N(l) # {} => Max(N(l)) \in i..(l - 1)
    <3>1. N(l + 1) = Newlines(data, i, l) /\ N(l) = Newlines(data, i, l - 1)
      BY <2>1
    <3>2. i \in Nat \ {0} /\ l \in Nat /\ i <= l
      BY <1>1, <2>1
    <3>3. NewlineAt(data, i, l)
      BY <3>2, NewlinesGrow
    <3> HIDE DEF N
    <3> QED BY <3>1, <3>3 DEF NewlineAt
  <2>8. p.offset + B(l + 1) = f[l + 1].offset
    BY <1>4, <2>3, <2>5, <2>6
  <2>9. p.line + Cardinality(N(l + 1)) = f[l + 1].line
    <3>1. Cardinality(N(l + 1)) = Cardinality(N(l)) + (IF c = "LF" THEN 1 ELSE 0)
      <4>1. CASE c = "LF"
        <5>1. N(l + 1) = N(l) \cup {l}
          BY <2>7, <4>1
        <5> HIDE DEF N
        <5> QED BY <2>7, <4>1, <5>1, FS_AddElement
      <4>2. CASE c # "LF"
        <5>1. N(l + 1) = N(l)
          BY <2>7, <4>2
        <5> HIDE DEF N
        <5> QED BY <2>7, <4>2, <5>1
      <4> QED BY <4>1, <4>2
    <3> HIDE DEF N
    <3> QED BY <1>4, <2>3, <2>5, <2>7, <3>1
  <2>10. C(l + 1) = f[l + 1].column
    <3>1. CASE c = "LF"
      <4>1. N(l + 1) # {} /\ Max(N(l + 1)) = l
        BY <2>7, <3>1
      <4>2. Bytes(data, l + 1, l) = 0
        BY <2>1, CountsGrow
      <4>3. C(l + 1) = 1 + 0
        <5> HIDE DEF N
        <5> QED BY <2>1, <4>1, <4>2
      <4> QED BY <2>3, <3>1, <4>3
    <3>2. CASE c # "LF" /\ N(l) = {}
      <4>1. N(l + 1) = {}
        BY <2>7, <3>2
      <4>2. C(l + 1) = p.column + B(l + 1) /\ C(l) = p.column + B(l)
        BY <3>2, <4>1
      <4> HIDE DEF N, B, C
      <4> QED BY <1>4, <2>3, <2>4, <2>5, <2>6, <3>2, <4>2
    <3>3. CASE c # "LF" /\ N(l) # {}
      <4> DEFINE m == Max(N(l)) + 1
      <4>1. N(l + 1) = N(l) /\ m \in Int /\ ~ (l < m)
        <5>1. N(l + 1) = N(l)
          BY <2>7, <3>3
        <5>2. Max(N(l)) \in i..(l - 1)
          BY <2>7, <3>3
        <5> HIDE DEF N
        <5> QED BY <1>1, <2>1, <5>1, <5>2
      <4>2. C(l + 1) = 1 + Bytes(data, m, l) /\ C(l) = 1 + Bytes(data, m, l - 1)
        <5> HIDE DEF N
        <5> QED BY <2>1, <3>3, <4>1
      <4> HIDE DEF m
      <4>3. Bytes(data, m, l) = Bytes(data, m, l - 1) + Width(data[l]) /\ Bytes(data, m, l - 1) \in Nat
        BY <2>1, <4>1, CountsGrow
      <4> HIDE DEF N, B, C
      <4> QED BY <2>3, <2>4, <2>5, <2>6, <3>3, <4>2, <4>3
    <3> QED BY <3>1, <3>2, <3>3
  <2> HIDE DEF N, B, C
  <2> QED BY <2>3, <2>8, <2>9, <2>10
<1>7. P(j) = f[j]
  <2> DEFINE T == {l \in i..j : P(l) = f[l]}
  <2>1. i \in T
    <3> HIDE DEF P
    <3> QED BY <1>1, <1>5
  <2>2. \A l \in i..(j - 1) : l \in T => l + 1 \in T
    <3>1. \A l \in i..(j - 1) : l + 1 \in i..j
      BY <1>1
    <3> HIDE DEF P
    <3> QED BY <1>6, <3>1
  <2>3. \A l \in i..j : l \in T
    <3> HIDE DEF T
    <3> QED BY <1>1, <2>1, <2>2, Upward
  <2>4. j \in i..j
    BY <1>1
  <2> HIDE DEF P
  <2> QED BY <2>3, <2>4
<1> HIDE DEF P
<1>8. j \in 1..(n + 1) /\ f[j] \in Positions
  BY <1>1, <1>2
<1>9. AdvanceTo(data, s, j) = [i |-> j, pos |-> f[j]]
  BY <1>3, <1>7
<1>10. Even(data, j)
  <2> SUFFICES ASSUME NEW r \in 1..(j - 1) PROVE data[r] \notin Leads
    BY DEF Even
  <2>1. r \in 1..(i - 1) \/ r \in i..(j - 1)
    BY <1>1
  <2>2. CASE r \in 1..(i - 1)
    BY <2>2 DEF Placed, Begun, Even, i
  <2>3. CASE r \in i..(j - 1)
    <3>1. RuneLen(data[r]) = 1
      BY <2>3 DEF Smooth, i
    <3> QED BY <3>1, Announcers DEF Announcing
  <2> QED BY <2>1, <2>2, <2>3
<1> QED BY <1>8, <1>9, <1>10 DEF Placed, Begun, n

LEMMA AdvanceOne ==
  ASSUME NEW data \in Seq(Symbols), NEW f, Walks(data, f), NEW s, Placed(data, f, s),
         s.i <= Len(data), data[s.i] \notin Announcing
  PROVE  Placed(data, f, Advance(data, s)) /\ Advance(data, s).i = s.i + 1
<1> DEFINE j == s.i + 1
<1>1. j \in s.i..(Len(data) + 1) /\ j - 1 = s.i /\ s.i \in Int /\ \A r \in s.i..s.i : r = s.i
  BY LenProperties DEF Placed
<1>2. Smooth(data, s.i, j - 1)
  <2>1. RuneLen(data[s.i]) = 1
    BY Announcers
  <2> QED BY <1>1, <2>1 DEF Smooth
<1> HIDE DEF j
<1>3. Placed(data, f, AdvanceTo(data, s, j))
  BY <1>1, <1>2, AdvanceRight
<1> QED BY <1>3, Advances DEF Advance, j

(* What a string is made of. *)
OneLine(data, i, j) == \A r \in i..j : data[r] # "LF" /\ data[r] \notin Leads

LEMMA AdvanceText ==
  ASSUME NEW data \in Seq(Symbols), NEW f, Walks(data, f), NEW s, Placed(data, f, s),
         NEW j \in s.i..(Len(data) + 1), OneLine(data, s.i, j - 1)
  PROVE  Placed(data, f, AdvanceInText(data, s, j))
<1> DEFINE n == Len(data)
           i == s.i
           p == s.pos
           B(l) == Bytes(data, i, l - 1)
           C(l) == ColumnsOf(data, i, l - 1)
           P(l) == [line |-> p.line, column |-> p.column + C(l), offset |-> p.offset + B(l)]
           y == AdvanceInText(data, s, j)
<1>1. n \in Nat /\ i \in Nat /\ i >= 1 /\ i <= n + 1 /\ j \in Nat /\ i <= j /\ j <= n + 1
  BY LenProperties DEF Placed
<1>2. p = f[i] /\ \A k \in 1..(n + 1) : f[k] \in Positions
  BY DEF Placed, Begun, Walks
<1>4. p \in Positions /\ p.line \in Nat /\ p.column \in Nat /\ p.offset \in Nat
      /\ p = [line |-> p.line, column |-> p.column, offset |-> p.offset]
  BY <1>1, <1>2 DEF Positions
<1>3. y = [i |-> j, pos |-> P(j)]
  <2>1. y = [i |-> j, pos |-> y.pos] /\ y.pos = [p EXCEPT !.offset = @ + B(j), !.column = @ + C(j)]
    BY DEF AdvanceInText, ColumnsOf
  <2> HIDE DEF y, p, B, C
  <2>2. y.pos = [line |-> p.line, column |-> p.column + C(j), offset |-> p.offset + B(j)]
    BY <1>4, <2>1 DEF Positions
  <2> QED BY <2>1, <2>2
<1> HIDE DEF n, i, p, y
<1>5. P(i) = f[i]
  <2>1. B(i) = 0 /\ C(i) = 0
    BY <1>1, CountsGrow
  <2> HIDE DEF B, C
  <2>2. p.column + 0 = p.column /\ p.offset + 0 = p.offset
    BY <1>4
  <2> QED BY <1>2, <1>4, <2>1, <2>2
<1>6. ASSUME NEW l \in i..(j - 1), P(l) = f[l] PROVE P(l + 1) = f[l + 1]
  <2> DEFINE c == data[l]
             q == f[l]
  <2>1. l \in Nat /\ l \in 1..n /\ l \in Int /\ l + 1 - 1 = l /\ ~ (l < i)
        /\ l \in 1..(n + 1) /\ l + 1 \in 1..(n + 1) /\ l \in i..(j - 1)
    BY <1>1
  <2>2. f[l + 1] = Passed(q, c) /\ q \in Positions /\ f[l + 1] \in Positions
    BY <1>2, <2>1 DEF Walks, n
  <2>3. c # "LF"
    BY <2>1 DEF i, OneLine
  <2>4. /\ f[l + 1].offset = q.offset + Width(c)
        /\ f[l + 1].line = q.line + 0
        /\ f[l + 1].column = q.column + Columns(c)
        /\ f[l + 1] = [line |-> f[l + 1].line, column |-> f[l + 1].column, offset |-> f[l + 1].offset]
    <3>1. f[l + 1] = [line |-> f[l + 1].line, column |-> f[l + 1].column, offset |-> f[l + 1].offset]
      BY <2>2 DEF Positions
    <3> HIDE DEF c, q
    <3> QED BY <2>2, <2>3, <3>1, Passing
  <2>5. q.line = p.line /\ q.column = p.column + C(l) /\ q.offset = p.offset + B(l)
    <3> HIDE DEF q, B, C
    <3> QED BY <1>6 DEF q
  <2>6. /\ B(l + 1) = B(l) + Width(c) /\ C(l + 1) = C(l) + Columns(c)
        /\ B(l) \in Nat /\ C(l) \in Nat
    <3>1. /\ Bytes(data, i, l) = Bytes(data, i, l - 1) + Width(data[l]) /\ Bytes(data, i, l - 1) \in Nat
          /\ ColumnsOf(data, i, l) = ColumnsOf(data, i, l - 1) + Columns(data[l])
          /\ ColumnsOf(data, i, l - 1) \in Nat
      BY <1>1, <2>1, CountsGrow
    <3> QED BY <2>1, <3>1
  <2>7. Width(c) \in Nat /\ Columns(c) \in Nat
    <3>1. Width(c) \in Weights /\ Columns(c) \in Weights
      BY Widths
    <3>2. \A w \in Weights : w \in Nat
      BY DEF Weights
    <3> QED BY <3>1, <3>2
  <2> HIDE DEF B, C
  <2>8. p.offset + B(l + 1) = f[l + 1].offset /\ p.column + C(l + 1) = f[l + 1].column /\ p.line = f[l + 1].line
    <3> DEFINE v == Width(c)
               h == Columns(c)
               g == f[l + 1]
    <3>1. g.offset = q.offset + v /\ g.line = q.line + 0 /\ g.column = q.column + h
      BY <2>4
    <3>2. B(l + 1) = B(l) + v /\ C(l + 1) = C(l) + h /\ B(l) \in Nat /\ C(l) \in Nat /\ v \in Nat /\ h \in Nat
      BY <2>6, <2>7
    <3> HIDE DEF v, h, g, q, c
    <3>3. p.line \in Nat /\ p.column \in Nat /\ p.offset \in Nat
      BY <1>4
    <3>4. p.offset + B(l + 1) = g.offset
      BY ONLY <2>5, <3>1, <3>2, <3>3
    <3>5. p.column + C(l + 1) = g.column
      BY ONLY <2>5, <3>1, <3>2, <3>3
    <3>6. p.line = g.line
      BY ONLY <2>5, <3>1, <3>3
    <3> QED BY <3>4, <3>5, <3>6 DEF g
  <2> QED BY <2>4, <2>8
<1>7. P(j) = f[j]
  <2> DEFINE T == {l \in i..j : P(l) = f[l]}
  <2>1. i \in T
    <3> HIDE DEF P
    <3> QED BY <1>1, <1>5
  <2>2. \A l \in i..(j - 1) : l \in T => l + 1 \in T
    <3>1. \A l \in i..(j - 1) : l + 1 \in i..j
      BY <1>1
    <3> HIDE DEF P
    <3> QED BY <1>6, <3>1
  <2>3. \A l \in i..j : l \in T
    <3> HIDE DEF T
    <3> QED BY <1>1, <2>1, <2>2, Upward
  <2>4. j \in i..j
    BY <1>1
  <2> HIDE DEF P
  <2> QED BY <2>3, <2>4
<1> HIDE DEF P
<1>8. j \in 1..(n + 1) /\ f[j] \in Positions
  BY <1>1, <1>2
<1>9. y = [i |-> j, pos |-> f[j]]
  BY <1>3, <1>7
<1>10. Even(data, j)
  <2> SUFFICES ASSUME NEW r \in 1..(j - 1) PROVE data[r] \notin Leads
    BY DEF Even
  <2>1. r \in 1..(i - 1) \/ r \in i..(j - 1)
    BY <1>1
  <2> QED BY <2>1 DEF Placed, Begun, Even, OneLine, i
<1> QED BY <1>8, <1>9, <1>10 DEF Placed, Begun, n, y

LEMMA PlacedHere ==
  ASSUME NEW data \in Seq(Symbols), NEW f, Walks(data, f), NEW s, Placed(data, f, s)
  PROVE  /\ Here(data, s) = IF s.i <= Len(data) THEN data[s.i] ELSE "end"
         /\ Here(data, s) \notin Announcing \cup {"end"} =>
              Placed(data, f, Advance(data, s)) /\ Advance(data, s).i = s.i + 1
         /\ s.i \in Nat /\ s.i \in 1..(Len(data) + 1) /\ Lies(data, f, s.pos)
<1>1. Here(data, s) = IF s.i <= Len(data) THEN data[s.i] ELSE "end"
  BY DEF Here, Symbol
<1>2. ASSUME Here(data, s) \notin Announcing \cup {"end"}
      PROVE  Placed(data, f, Advance(data, s)) /\ Advance(data, s).i = s.i + 1
  <2>1. s.i <= Len(data) /\ data[s.i] \notin Announcing
    BY <1>1, <1>2
  <2> QED BY <2>1, AdvanceOne
<1>3. s.i \in 1..(Len(data) + 1) /\ Len(data) \in Nat
  BY LenProperties DEF Placed
<1>4. Lies(data, f, s.pos)
  BY <1>3 DEF Lies, Placed
<1> QED BY <1>1, <1>2, <1>3, <1>4

LEMMA NoRune ==
  /\ "end" \notin Announcing \cup Digits \cup Quads \cup {"LF", "\\", "u"}
  /\ Announcing \cap (Digits \cup Quads \cup Punctuation \cup Literals
                       \cup {"-", ".", "e", "+", "\\", "u", "LF", Quote}) = {}
  /\ \A c \in Digits \cup Quads \cup {"\\", "u"} : RuneLen(c) = 1
<1>1. Quote \notin Announcing
  BY Zenon DEF Quote, Announcing, Runes, Leads
<1>2. "\\" \notin Announcing
  BY Zenon DEF Announcing, Runes, Leads
<1>3. /\ "end" \notin Announcing \cup Digits \cup Quads \cup {"LF", "\\", "u"}
      /\ Announcing \cap (Digits \cup Quads \cup Punctuation \cup Literals
                           \cup {"-", ".", "e", "+", "\\", "u", "LF", Quote}) = {}
  BY <1>1, <1>2, HexDigits DEF Announcing, Runes, Leads, Digits, Quads, Punctuation, Literals
<1> QED BY <1>3, Announcers

(* Numbers. *)
LEMMA DigitsPlaced ==
  ASSUME NEW data \in Seq(Symbols), NEW f, Walks(data, f), NEW s, Placed(data, f, s)
  PROVE  Placed(data, f, DigitsEnd(data, s))
<1> DEFINE e == DigitsEnd(data, s).i
           m == Min({j \in s.i..Len(data) : data[j] \notin Digits} \cup {Len(data) + 1})
<1>1. Stop(data, s.i, e)
  BY DigitsStop, PlacedHere
<1>2. DigitsEnd(data, s) = AdvanceTo(data, s, e)
  <2>1. DigitsEnd(data, s) = AdvanceTo(data, s, m)
    BY DEF DigitsEnd
  <2> HIDE DEF m
  <2>2. AdvanceTo(data, s, m).i = m
    BY DEF AdvanceTo
  <2> QED BY <2>1, <2>2
<1> HIDE DEF e
<1>3. e \in s.i..(Len(data) + 1) /\ Smooth(data, s.i, e - 1)
  BY <1>1, NoRune DEF Stop, Smooth
<1> QED BY <1>2, <1>3, AdvanceRight

LEMMA NumberPlaced ==
  ASSUME NEW data \in Seq(Symbols), NEW f, Walks(data, f), NEW s, Placed(data, f, s)
  PROVE  \E e : /\ Placed(data, f, e)
                /\ LET v == ScanNumber(data, s) IN v.kind \in {"number", "error"} /\ v.pos = s.pos /\ v.end = e
<1> DEFINE t == IF Here(data, s) = "-" THEN Advance(data, s) ELSE s
           r == Unsigned(data, t)
           q == Fraction(data, r)
           x == Exponent(data, q)
           u == Sign(data, Advance(data, q.end))
<1>1. Placed(data, f, t)
  BY NoRune, PlacedHere
<1> HIDE DEF t
<1>2. Placed(data, f, r.end)
  <2>1. CASE Here(data, t) = "0"
    <3>1. r.end = Advance(data, t)
      BY <2>1 DEF Unsigned
    <3>2. Here(data, t) \notin Announcing \cup {"end"}
      BY <2>1 DEF Announcing, Runes, Leads
    <3> QED BY <1>1, <3>1, <3>2, PlacedHere
  <2>2. CASE Here(data, t) \in Digits \ {"0"}
    <3>1. r.end = DigitsEnd(data, t)
      BY <2>2 DEF Unsigned, Good
    <3> QED BY <1>1, <3>1, DigitsPlaced
  <2>3. CASE Here(data, t) \notin Digits
    <3>1. r = Bad(t)
      BY <2>3 DEF Unsigned, Digits
    <3>2. r.end = t
      BY <3>1 DEF Bad
    <3> QED BY <1>1, <3>2
  <2> QED BY <2>1, <2>2, <2>3
<1> HIDE DEF r
<1>3. Placed(data, f, q.end)
  <2> DEFINE y == Advance(data, r.end)
  <2>1. CASE ~ r.ok \/ Here(data, r.end) # "."
    BY <1>2, <2>1 DEF Fraction
  <2>2. CASE r.ok /\ Here(data, r.end) = "."
    <3>1. Placed(data, f, y)
      <4>1. Here(data, r.end) \notin Announcing \cup {"end"}
        BY <2>2 DEF Announcing, Runes, Leads
      <4> QED BY <1>2, <4>1, PlacedHere
    <3> HIDE DEF y
    <3>2. q = Bad(y) \/ q = Good(DigitsEnd(data, y))
      BY <2>2 DEF Fraction, y
    <3>3. q.end = y \/ q.end = DigitsEnd(data, y)
      BY <3>2 DEF Bad, Good
    <3> QED BY <3>1, <3>3, DigitsPlaced
  <2> QED BY <2>1, <2>2
<1> HIDE DEF q
<1>4. Placed(data, f, x.end)
  <2> DEFINE y == Advance(data, q.end)
  <2>1. CASE ~ q.ok \/ Here(data, q.end) # "e"
    BY <1>3, <2>1 DEF Exponent
  <2>2. CASE q.ok /\ Here(data, q.end) = "e"
    <3>1. Placed(data, f, y)
      <4>1. Here(data, q.end) \notin Announcing \cup {"end"}
        BY <2>2 DEF Announcing, Runes, Leads
      <4> QED BY <1>3, <4>1, PlacedHere
    <3> HIDE DEF y
    <3>2. Placed(data, f, u)
      <4>1. u = IF Here(data, y) \in {"+", "-"} THEN Advance(data, y) ELSE y
        BY DEF Sign, y
      <4>2. Here(data, y) \in {"+", "-"} => Here(data, y) \notin Announcing \cup {"end"}
        BY DEF Announcing, Runes, Leads
      <4> HIDE DEF u
      <4> QED BY <3>1, <4>1, <4>2, PlacedHere
    <3>3. x = Power(data, u)
      BY <2>2 DEF Exponent
    <3> HIDE DEF u, x
    <3>4. x = Good(DigitsEnd(data, u)) \/ x = Bad(u)
      BY <3>3 DEF Power
    <3>5. x.end = u \/ x.end = DigitsEnd(data, u)
      BY <3>4 DEF Bad, Good
    <3> QED BY <3>2, <3>5, DigitsPlaced
  <2> QED BY <2>1, <2>2
<1> DEFINE v == ScanNumber(data, s)
           d == SubSeq(data, s.i, x.end.i - 1)
<1>5. v = IF x.ok THEN Token("number", d, s, x.end) ELSE Error("EInvalidNumber", s.pos, x.end)
  BY DEF ScanNumber, Number, Integer, q, r, t
<1> HIDE DEF x, d
<1>6. v.kind \in {"number", "error"} /\ v.pos = s.pos /\ v.end = x.end
  <2> HIDE DEF v
  <2> QED BY <1>5 DEF Token, Error
<1> QED BY <1>4, <1>6

(* Errors in strings. *)
Blames(data, f, v) == Lies(data, f, v.pos) /\ Lies(data, f, v.end.pos)

LEMMA EscapeBlame ==
  ASSUME NEW data \in Seq(Symbols), NEW f, Walks(data, f), NEW s, Placed(data, f, s)
  PROVE  /\ ScanUnicode(data, s).kind = "error" => Blames(data, f, ScanUnicode(data, s))
         /\ At(data, s) => Lies(data, f, OneByte(data, s).pos)
<1>1. ASSUME NEW a, Placed(data, f, a) PROVE Blames(data, f, BadEscape(a))
  BY <1>1, PlacedHere DEF BadEscape, Error, Blames
<1>2. ASSUME NEW a, Placed(data, f, a), ~ Short(data, a) PROVE Placed(data, f, Advance(data, a))
  <2>1. Here(data, a) \notin Announcing \cup {"end"}
    BY <1>2, NoRune DEF Short
  <2> QED BY <1>2, <2>1, PlacedHere
<1>3. ASSUME ScanUnicode(data, s).kind = "error" PROVE Blames(data, f, ScanUnicode(data, s))
  <2> DEFINE t == Advance(data, s)
             u == AdvanceTo(data, t, t.i + 2)
             r == ScanUnicode(data, s)
  <2>1. \A c, y : Rune(c, y).kind # "error"
    BY DEF Rune
  <2>2. CASE Short(data, s)
    <3>1. r = BadEscape(s)
      BY <2>2 DEF ScanUnicode
    <3> QED BY <1>1, <3>1
  <2>3. CASE ~ Short(data, s)
    <3>1. r = Surrogate(data, Here(data, s), t)
      BY <1>3, <2>1, <2>3 DEF ScanUnicode
    <3>2. Placed(data, f, t)
      BY <1>2, <2>3
    <3> HIDE DEF t
    <3>3. CASE ~ (Here(data, t) = "\\" /\ After(data, t) = "u")
      <4>1. r = BadEscape(t)
        BY <3>1, <3>3 DEF Surrogate
      <4> QED BY <1>1, <3>2, <4>1
    <3>4. CASE Here(data, t) = "\\" /\ After(data, t) = "u"
      <4>1. r = Pair(data, Here(data, s), u)
        BY <3>1, <3>4 DEF Surrogate
      <4>2. Placed(data, f, u)
        <5> DEFINE i == t.i
        <5>1. i \in Nat /\ Len(data) \in Nat
          BY <3>2, PlacedHere, LenProperties
        <5> HIDE DEF i
        <5>2. i + 1 <= Len(data) /\ data[i] = "\\" /\ data[i + 1] = "u"
          BY <3>4, <5>1, NoRune DEF Here, After, Symbol, i
        <5> DEFINE j == i + 2
        <5>3. j \in i..(Len(data) + 1) /\ Smooth(data, i, j - 1)
          BY <5>1, <5>2, NoRune DEF Smooth
        <5> HIDE DEF j
        <5>4. Placed(data, f, AdvanceTo(data, t, j))
          BY <3>2, <5>3, AdvanceRight DEF i
        <5> QED BY <5>4 DEF i, j
      <4> HIDE DEF u
      <4>3. r = BadEscape(u) \/ (~ Short(data, u) /\ r = BadEscape(Advance(data, u)))
        BY <1>3, <2>1, <4>1 DEF Pair
      <4> HIDE DEF r
      <4> QED BY <1>1, <1>2, <4>2, <4>3 DEF r
    <3> QED BY <3>3, <3>4
  <2> QED BY <2>2, <2>3
<1>4. ASSUME At(data, s) PROVE Lies(data, f, OneByte(data, s).pos)
  <2>1. s.i \in 1..Len(data)
    BY <1>4, PlacedHere DEF At
  <2>2. CASE data[s.i] = "LF"
    <3>1. OneByte(data, s) = Advance(data, s)
      BY <2>2 DEF OneByte
    <3>2. Placed(data, f, Advance(data, s))
      BY <2>1, <2>2, AdvanceOne, NoRune
    <3> QED BY <3>1, <3>2, PlacedHere
  <2>3. CASE data[s.i] # "LF"
    <3> DEFINE y == OneByte(data, s)
    <3>1. y = [s EXCEPT !.pos.offset = @ + 1, !.pos.column = @ + 1]
      BY <2>3 DEF OneByte
    <3> HIDE DEF y
    <3>2. y.pos = [s.pos EXCEPT !.offset = @ + 1, !.column = @ + 1]
      BY <3>1 DEF Placed, Positions
    <3> QED BY <2>1, <2>3, <3>2 DEF Lies, Placed, Begun, y
  <2> QED BY <2>2, <2>3
<1> QED BY <1>3, <1>4

(* What a scan from s tells: where the token begins and ends, or positions *)
(* to blame. *)
Tells(data, f, s, v) ==
  IF v.kind = "error" THEN Blames(data, f, v) ELSE Begun(data, f, s.i, v.pos) /\ Placed(data, f, v.end)

LEMMA ErrorTells ==
  ASSUME NEW data \in Seq(Symbols), NEW f, Walks(data, f), NEW s, NEW p, NEW q, Lies(data, f, p), Lies(data, f, q.pos),
         NEW code
  PROVE  Tells(data, f, s, Error(code, p, q))
BY DEF Error, Tells, Blames

LEMMA EscapeTells ==
  ASSUME NEW data \in Seq(Symbols), NEW f, Walks(data, f), NEW s, Placed(data, f, s), NEW e, Placed(data, f, e),
         NEW decoded, Escape(data, s, e, decoded).kind # "more"
  PROVE  Tells(data, f, s, Escape(data, s, e, decoded))
<1> DEFINE r == Escape(data, s, e, decoded)
           z == Advance(data, e)
           u == ScanUnicode(data, z)
           c == data[e.i]
           b == OneByte(data, e)
<1>1. ASSUME NEW i, NEW d, NEW h PROVE More(i, d, h).kind = "more"
  BY DEF More
<1>2. \/ ~ At(data, e) /\ r = Error("EUnclosedString", s.pos, e)
      \/ r = More(e.i + 1, Append(decoded, Simple[c]), TRUE)
      \/ At(data, e) /\ c = "u" /\ r = Unicode(u, decoded)
      \/ At(data, e) /\ r = Error("EInvalidEscape", b.pos, b)
  BY DEF Escape
<1>3. Lies(data, f, s.pos) /\ Lies(data, f, e.pos)
  BY PlacedHere
<1> HIDE DEF r, z, u, c, b
<1>4. CASE r = Error("EUnclosedString", s.pos, e)
  BY <1>3, <1>4, ErrorTells DEF r
<1>5. CASE r = More(e.i + 1, Append(decoded, Simple[c]), TRUE)
  BY <1>1, <1>5 DEF r
<1>6. CASE At(data, e) /\ c = "u" /\ r = Unicode(u, decoded)
  <2>1. u.kind = "error" /\ r = u
    <3>1. u.kind # "error" => r = More(u.end.i, Append(decoded, u.rune), TRUE)
      BY <1>6 DEF Unicode
    <3>2. r.kind # "more"
      BY DEF r
    <3> QED BY <1>1, <1>6, <3>1, <3>2 DEF Unicode
  <2>2. Placed(data, f, z)
    <3>1. Here(data, e) \notin Announcing \cup {"end"}
      BY <1>6, NoRune DEF c, Here, Symbol, At
    <3> QED BY <3>1, PlacedHere DEF z
  <2>3. Blames(data, f, u)
    BY <2>1, <2>2, EscapeBlame DEF u
  <2> QED BY <2>1, <2>3 DEF Tells, r
<1>7. CASE At(data, e) /\ r = Error("EInvalidEscape", b.pos, b)
  <2>1. Lies(data, f, b.pos)
    BY <1>7, EscapeBlame DEF b
  <2> QED BY <1>7, <2>1, ErrorTells DEF r
<1> QED BY <1>2, <1>4, <1>5, <1>6, <1>7

(* No item of a string has a newline or a stray lead byte in it. *)
LEMMA ItemLine ==
  ASSUME NEW data, NEW i \in Nat, NEW j \in Nat, NEW c, IsItem(data, i, j, c), NEW r \in i..j
  PROVE  data[r] \notin Leads \cup {"LF"}
<1>1. \A d \in Leads \cup {"LF"} :
        d \in Controls \cup Invalid /\ d \notin DOMAIN Simple /\ d \notin DOMAIN Stands \cup {"u", "D83D", "DE80", "\\"}
  <2> SUFFICES ASSUME NEW d \in Leads \cup {"LF"}
               PROVE  /\ d \in Controls \cup Invalid
                      /\ d \notin DOMAIN Simple /\ d \notin DOMAIN Stands \cup {"u", "D83D", "DE80", "\\"}
    OBVIOUS
  <2>1. d \in {"LF", "LEAD2", "LEAD3", "LEAD4"}
    BY DEF Leads
  <2>2. d \in Controls \cup Invalid
    BY <2>1 DEF Controls, Invalid, Leads
  <2>3. d \notin {"\\", "/", "b", "n", "u", "D83D", "DE80"}
    BY <2>1
  <2>4. d # Quote
    BY <2>2, Quotes
  <2>5. d \notin DOMAIN Stands
    BY <2>1, HexDigits
  <2> QED BY <2>2, <2>3, <2>4, <2>5, SimpleEscapes
<1>2. \/ j = i /\ c = data[i] /\ Plain(c)
      \/ j = i + 1 /\ IsEscape(data, i)
      \/ j = i + 2 /\ IsUnicode(data, i)
      \/ j = i + 5 /\ IsRocket(data, i)
  BY ItemForms
<1>3. CASE j = i /\ c = data[i] /\ Plain(c)
  <2>1. r = i
    BY <1>3
  <2> QED BY <1>1, <1>3, <2>1 DEF Plain
<1>4. CASE j = i + 1 /\ IsEscape(data, i)
  <2>1. r = i \/ r = i + 1
    BY <1>4
  <2> QED BY <1>1, <1>4, <2>1 DEF IsEscape
<1>5. CASE j = i + 2 /\ IsUnicode(data, i)
  <2>1. r = i \/ r = i + 1 \/ r = i + 2
    BY <1>5
  <2> QED BY <1>1, <1>5, <2>1 DEF IsUnicode
<1>6. CASE j = i + 5 /\ IsRocket(data, i)
  <2>1. r = i \/ r = i + 1 \/ r = i + 2 \/ r = i + 3 \/ r = i + 4 \/ r = i + 5
    BY <1>6
  <2> QED BY <1>1, <1>6, <2>1 DEF IsRocket
<1> QED BY <1>2, <1>3, <1>4, <1>5, <1>6

(* One round of the loop of scanString(), and the loop. *)
LEMMA RoundTells ==
  ASSUME NEW data \in Seq(Symbols), NEW f, Walks(data, f), NEW open, Placed(data, f, open), NEW x,
         x.i \in (open.i + 1)..(Len(data) + 1), OneLine(data, open.i, x.i - 1),
         StringRound(data, open, x).kind # "more"
  PROVE  Tells(data, f, open, StringRound(data, open, x))
<1> DEFINE i == x.i
           s == AdvanceInText(data, open, i)
           c == Here(data, s)
           content == IF x.hasEscape THEN x.decoded ELSE SubSeq(data, open.i + 1, i - 1)
           z == Advance(data, s)
           e == Escape(data, open, z, content)
           r == StringRound(data, open, x)
<1>1. Placed(data, f, s)
  <2>1. open.i \in Nat /\ Len(data) \in Nat
    BY PlacedHere, LenProperties
  <2>2. i \in open.i..(Len(data) + 1)
    BY <2>1
  <2> QED BY <2>2, AdvanceText DEF OneLine
<1>2. \/ r = Error("EUnclosedString", open.pos, s)
      \/ c = Quote /\ r = Token("string", content, open, z)
      \/ r = Error("EIllegalChar", s.pos, s)
      \/ c = "\\" /\ r = e
      \/ r = Error("EInvalidUTF8", s.pos, s)
      \/ \E u, w, h : r = More(u, w, h)
  BY DEF StringRound
<1>3. Lies(data, f, s.pos) /\ Lies(data, f, open.pos) /\ Begun(data, f, open.i, open.pos)
  BY <1>1, PlacedHere DEF Placed
<1> HIDE DEF s, c, content, e, r, z
<1>4. ASSUME c \in {Quote, "\\"} PROVE Placed(data, f, z)
  <2>1. Here(data, s) \notin Announcing \cup {"end"}
    BY <1>4, NoRune, Quotes DEF c
  <2> QED BY <1>1, <2>1, PlacedHere DEF z
<1>5. CASE c = Quote /\ r = Token("string", content, open, z)
  <2>1. r.kind = "string" /\ r.pos = open.pos /\ r.end = z
    BY <1>5 DEF Token
  <2> QED BY <1>3, <1>4, <1>5, <2>1 DEF Tells, r
<1>6. CASE c = "\\" /\ r = e
  <2>1. e.kind # "more"
    BY <1>6 DEF r
  <2> QED BY <1>4, <1>6, <2>1, EscapeTells DEF e, r
<1>7. ASSUME NEW u, NEW w, NEW h, r = More(u, w, h) PROVE FALSE
  BY <1>7 DEF More, r
<1>8. CASE r \in {Error("EUnclosedString", open.pos, s), Error("EIllegalChar", s.pos, s), Error("EInvalidUTF8", s.pos, s)}
  BY <1>3, <1>8, ErrorTells DEF r
<1> QED BY <1>2, <1>5, <1>6, <1>7, <1>8

LEMMA StringTells ==
  ASSUME NEW data \in Seq(Symbols), NEW f, Walks(data, f), NEW open, Placed(data, f, open),
         open.i <= Len(data), data[open.i] = Quote
  PROVE  Tells(data, f, open, ScanString(data, open))
<1> DEFINE o == open.i
           n == Len(data)
<1>1. o \in Nat \ {0} /\ o \in 1..n /\ n \in Nat
  BY PlacedHere, LenProperties
<1>2. PICK g : /\ ScanString(data, open) = g[Entry(o)]
               /\ \A x \in StringStates :
                    g[x] = LET r == StringRound(data, open, x) IN IF r.kind = "more" THEN g[r.at] ELSE r
  BY <1>1, ScanStringIsALoop
<1> HIDE DEF o, n
<1> DEFINE Reached(x) == x \in StringStates /\ x.i \in (o + 1)..(n + 1) /\ OneLine(data, o, x.i - 1)
           Fails == {k \in Nat : \E x : Reached(x) /\ k = n + 1 - x.i /\ ~ Tells(data, f, open, g[x])}
<1>3. Reached(Entry(o))
  <2>1. Entry(o).i = o + 1 /\ Entry(o) \in StringStates
    <3>1. o + 1 \in Nat \ {0} /\ <<>> \in Seq(Symbols)
      BY <1>1
    <3> QED BY <3>1 DEF Entry, StringStates
  <2>2. data[o] # "LF" /\ data[o] \notin Leads
    BY Quotes, NoRune DEF o, Controls, Announcing
  <2>3. OneLine(data, o, o + 1 - 1)
    BY <1>1, <2>2 DEF OneLine
  <2> QED BY <1>1, <2>1, <2>3
<1>4. ASSUME NEW x, Reached(x), \A y : Reached(y) /\ x.i < y.i => Tells(data, f, open, g[y])
      PROVE  Tells(data, f, open, g[x])
  <2> DEFINE r == StringRound(data, open, x)
             i == x.i
  <2>1. /\ g[x] = IF r.kind = "more" THEN g[r.at] ELSE r
        /\ Goes(data, o, x, r) \/ Closes(data, o, x, r) \/ Refuses(data, x, r)
    BY <1>1, <1>2, <1>4, RoundOfString DEF o
  <2>2. i \in Nat /\ i \in (o + 1)..(n + 1)
    BY <1>1, <1>4
  <2>3. r.kind # "more" => Tells(data, f, open, r)
    BY <1>4, RoundTells DEF o, n
  <2> HIDE DEF r, i
  <2>4. CASE r.kind # "more"
    BY <2>1, <2>3, <2>4
  <2>5. CASE r.kind = "more"
    <3> DEFINE y == r.at
               j == y.i
    <3>1. Goes(data, o, x, r)
      BY <2>1, <2>5 DEF Closes, Refuses
    <3>2. PICK d : y \in StringStates /\ j \in (i + 1)..(n + 1) /\ IsItem(data, i, j - 1, d)
      BY <3>1 DEF Goes, i, n
    <3> HIDE DEF y
    <3> HIDE DEF j
    <3>3. j \in Nat /\ j - 1 \in Nat /\ i < j /\ j \in (o + 1)..(n + 1)
      BY <1>1, <2>2, <3>2
    <3>4. OneLine(data, o, j - 1)
      <4> SUFFICES ASSUME NEW k \in o..(j - 1) PROVE data[k] # "LF" /\ data[k] \notin Leads
        BY DEF OneLine
      <4>1. k \in o..(i - 1) \/ k \in i..(j - 1)
        BY <1>1, <2>2, <3>3
      <4>2. OneLine(data, o, i - 1)
        BY <1>4 DEF i
      <4> QED BY <2>2, <3>2, <3>3, <4>1, <4>2, ItemLine DEF OneLine
    <3>5. Reached(y) /\ x.i < y.i
      BY <3>2, <3>3, <3>4 DEF i, j
    <3>6. Tells(data, f, open, g[y])
      BY <1>4, <3>5
    <3> QED BY <2>1, <2>5, <3>6 DEF y
  <2> QED BY <2>4, <2>5
<1>5. Fails = {}
  <2> SUFFICES ASSUME Fails # {} PROVE FALSE
    OBVIOUS
  <2>1. PICK k \in Fails : \A l \in Fails : k <= l
    <3>1. Fails \subseteq Nat
      OBVIOUS
    <3> HIDE DEF Fails
    <3> QED BY <3>1, Smallest
  <2>2. PICK x : Reached(x) /\ k = n + 1 - x.i /\ ~ Tells(data, f, open, g[x])
    OBVIOUS
  <2>3. ASSUME NEW y, Reached(y), x.i < y.i, ~ Tells(data, f, open, g[y]) PROVE FALSE
    <3> DEFINE l == n + 1 - y.i
    <3>1. x.i \in (o + 1)..(n + 1) /\ y.i \in (o + 1)..(n + 1)
      BY <2>2, <2>3
    <3>5. k = n + 1 - x.i /\ x.i < y.i
      BY <2>2, <2>3
    <3>2. l \in Nat /\ l < k
      <4> DEFINE a == x.i
                 b == y.i
      <4>1. a \in (o + 1)..(n + 1) /\ b \in (o + 1)..(n + 1) /\ k = n + 1 - a /\ a < b /\ l = n + 1 - b
        BY <3>1, <3>5
      <4> HIDE DEF a, b, l
      <4> QED BY ONLY <1>1, <4>1
    <3>3. l \in Fails
      BY <2>3, <3>2
    <3> HIDE DEF Fails, l
    <3>4. k <= l /\ k \in Int
      BY <2>1, <3>3 DEF Fails
    <3> QED BY <3>2, <3>4
  <2> HIDE DEF Reached
  <2> QED BY <1>4, <2>2, <2>3
<1>6. ASSUME ~ Tells(data, f, open, g[Entry(o)]) PROVE FALSE
  <2>1. n + 1 - Entry(o).i \in Nat
    BY <1>1 DEF Entry
  <2> HIDE DEF Reached
  <2> QED BY <1>3, <1>5, <1>6, <2>1
<1> QED BY <1>2, <1>6

(* A scan at s, and after the blanks before it. *)
LEMMA ScanTells ==
  ASSUME NEW data \in Seq(Symbols), NEW f, Walks(data, f), NEW s, Placed(data, f, s)
  PROVE  Tells(data, f, s, Scan(data, s))
<1> DEFINE c == Here(data, s)
           v == Scan(data, s)
           y == Advance(data, s)
           b == OneByte(data, s)
<1>1. /\ c = IF s.i <= Len(data) THEN data[s.i] ELSE "end"
      /\ c \notin Announcing \cup {"end"} => Placed(data, f, y)
      /\ Lies(data, f, s.pos)
      /\ Begun(data, f, s.i, s.pos)
  BY PlacedHere DEF Placed
<1>2. \/ c = "end" /\ v = [Token("EOF", <<>>, s, s) EXCEPT !.pos = s.pos]
      \/ c \in Punctuation /\ v = Token(c, <<>>, s, y)
      \/ c = Quote /\ v = ScanString(data, s)
      \/ c \in Literals /\ v = Token(c, <<c>>, s, y)
      \/ c \in Digits \cup {"-"} /\ v = ScanNumber(data, s)
      \/ c = "0041" /\ v = Error("EInvalidNumber", s.pos, b)
      \/ v = Error("EIllegalChar", s.pos, s)
  <2>1. v = LET w == Here(data, s) IN
            CASE w = "end" -> [Token("EOF", <<>>, s, s) EXCEPT !.pos = s.pos]
              [] w \in Punctuation -> Token(w, <<>>, s, Advance(data, s))
              [] w = Quote -> ScanString(data, s)
              [] w \in Literals -> Token(w, <<w>>, s, Advance(data, s))
              [] w \in Digits \cup {"-"} -> ScanNumber(data, s)
              [] w = "0041" -> Error("EInvalidNumber", s.pos, OneByte(data, s))
              [] OTHER -> Error("EIllegalChar", s.pos, s)
    BY DEF Scan
  <2> HIDE DEF v
  <2> QED BY <2>1
<1> SUFFICES Tells(data, f, s, v)
  OBVIOUS
<1> HIDE DEF c, v, y, b
<1>3. CASE c = "end" /\ v = [Token("EOF", <<>>, s, s) EXCEPT !.pos = s.pos]
  <2>1. v.kind = "EOF" /\ v.pos = s.pos /\ v.end = s
    BY ONLY <1>3 DEF Token
  <2> QED BY <1>1, <2>1 DEF Tells
<1>4. ASSUME c \in Punctuation \cup Literals, NEW d, v = Token(c, d, s, y) PROVE Tells(data, f, s, v)
  <2>1. v.kind = c /\ v.pos = s.pos /\ v.end = y
    BY ONLY <1>4 DEF Token
  <2>2. c \notin Announcing \cup {"end", "error"}
    BY <1>4 DEF Punctuation, Literals, Announcing, Runes, Leads
  <2> QED BY <1>1, <2>1, <2>2 DEF Tells
<1>5. CASE c = Quote /\ v = ScanString(data, s)
  <2>1. s.i <= Len(data) /\ data[s.i] = Quote
    BY <1>1, <1>5, Quotes
  <2> QED BY <1>5, <2>1, StringTells
<1>6. CASE c \in Digits \cup {"-"} /\ v = ScanNumber(data, s)
  <2>1. PICK e : Placed(data, f, e) /\ v.kind \in {"number", "error"} /\ v.pos = s.pos /\ v.end = e
    BY <1>6, NumberPlaced
  <2>2. Lies(data, f, e.pos)
    BY <2>1, PlacedHere
  <2> QED BY <1>1, <2>1, <2>2 DEF Tells, Blames
<1>7. CASE c = "0041" /\ v = Error("EInvalidNumber", s.pos, b)
  <2>1. At(data, s)
    BY <1>1, <1>7 DEF At
  <2>2. Lies(data, f, b.pos)
    BY <2>1, EscapeBlame DEF b
  <2> QED BY <1>1, <1>7, <2>2, ErrorTells
<1>8. CASE v = Error("EIllegalChar", s.pos, s)
  BY <1>1, <1>8, ErrorTells
<1> QED BY <1>2, <1>3, <1>4, <1>5, <1>6, <1>7, <1>8

(* Next() from s, with its token or its error at k. *)
NextAt(data, f, s, k, v) ==
  /\ Gap(data, s.i, k - 1) /\ NoBlank(data, k) /\ Yields(data, k, v)
  /\ Smooth(data, s.i, k - 1) =>
       IF v.kind = "error"
         THEN /\ Lies(data, f, v.pos)
              /\ data[k] # "/" \/ Smooth(data, k, Len(data)) => Lies(data, f, v.end.pos)
         ELSE Begun(data, f, k, v.pos) /\ Placed(data, f, v.end)

LEMMA NextTells ==
  ASSUME NEW data \in Seq(Symbols), NEW f, Walks(data, f), NEW s, Placed(data, f, s)
  PROVE  \E k \in s.i..(Len(data) + 1) : NextAt(data, f, s, k, Next(data, s))
<1> DEFINE n == Len(data)
           i == s.i
           r == SkipSpace(data, i)
           k == r.at
           v == Next(data, s)
           y == AdvanceTo(data, s, k)
           z == AdvanceTo(data, s, r.end)
<1>1. n \in Nat /\ i \in Nat /\ i \in 1..(n + 1)
  BY PlacedHere, LenProperties
<1>2. PICK l \in i..(n + 1) : Gap(data, i, l - 1) /\ NoBlank(data, l) /\ Yields(data, l, v)
  BY <1>1, NextOne
<1>3. k \in i..(n + 1) /\ Gap(data, i, k - 1) /\ NoBlank(data, k) /\ r.error \in BOOLEAN
      /\ (r.error => k <= n /\ data[k] = "/" /\ r.end \in k..(n + 1))
  BY <1>1, SkipGap DEF Skipped
<1>4. v = AfterSpace(data, s, r)
  BY DEF Next
<1> HIDE DEF r, v, i, n
<1> HIDE DEF k
<1>6. l = k
  <2>1. k \in 1..(n + 1) /\ l \in 1..(n + 1)
    BY <1>1, <1>2, <1>3
  <2> QED BY <1>1, <1>2, <1>3, <2>1, GapIsOne DEF n
<1>7. ASSUME Smooth(data, i, k - 1) PROVE Placed(data, f, y) /\ y.i = k
  <2>1. Placed(data, f, AdvanceTo(data, s, k))
    BY <1>3, <1>7, AdvanceRight DEF i, n
  <2>2. y.i = k
    BY DEF AdvanceTo, y
  <2> QED BY <2>1, <2>2 DEF y
<1> HIDE DEF y, z
<1>8. CASE r.error
  <2>1. v = Error("EIllegalChar", y.pos, z)
    BY <1>4, <1>8 DEF AfterSpace, y, z, k
  <2>2. v.kind = "error" /\ v.pos = y.pos /\ v.end = z
    BY ONLY <2>1 DEF Error
  <2>3. ASSUME Smooth(data, i, k - 1) PROVE Lies(data, f, y.pos)
    BY <1>7, <2>3, PlacedHere
  <2>4. ASSUME Smooth(data, i, k - 1), Smooth(data, k, n) PROVE Lies(data, f, z.pos)
    <3> DEFINE e == r.end
    <3>1. e \in i..(n + 1) /\ e \in k..(n + 1)
      BY <1>1, <1>3, <1>8
    <3> HIDE DEF e
    <3>2. Smooth(data, i, e - 1)
      <4> SUFFICES ASSUME NEW a \in i..(e - 1) PROVE RuneLen(data[a]) = 1
        BY DEF Smooth
      <4>1. a \in i..(k - 1) \/ a \in k..n
        BY <1>1, <1>3, <3>1
      <4> QED BY <2>4, <4>1 DEF Smooth
    <3>3. Placed(data, f, AdvanceTo(data, s, e))
      BY <3>1, <3>2, AdvanceRight DEF i, n
    <3> QED BY <3>3, PlacedHere DEF z, e
  <2>5. data[k] = "/"
    BY <1>3, <1>8
  <2> QED BY <1>2, <1>3, <1>6, <2>2, <2>3, <2>4, <2>5 DEF NextAt, i, n, v
<1>9. CASE ~ r.error
  <2>1. v = Scan(data, y)
    BY <1>4, <1>9 DEF AfterSpace, y, k
  <2>2. ASSUME Smooth(data, i, k - 1)
        PROVE  IF v.kind = "error" THEN Lies(data, f, v.pos) /\ Lies(data, f, v.end.pos)
               ELSE Begun(data, f, k, v.pos) /\ Placed(data, f, v.end)
    <3>1. Tells(data, f, y, v)
      BY <1>7, <2>1, <2>2, ScanTells
    <3> QED BY <1>7, <2>2, <3>1 DEF Tells, Blames
  <2> QED BY <1>2, <1>3, <1>6, <2>2 DEF NextAt, i, n, v
<1> QED BY <1>3, <1>8, <1>9

-----------------------------------------------------------------------------
(* Positions of the stream of tokens: the scanner has counted along with    *)
(* the walk f over the whole input, over the first n tokens and to what     *)
(* comes after them.                                                        *)
Locates(n, f) ==
  /\ \A k \in 1..n : Clear(k) => Begun(input, f, tokens[k].from, tokens[k].pos)
  /\ err.kind = "none" /\ Clear(n) /\ n = Len(tokens) => Placed(input, f, at)
  /\ err.kind = "none" /\ Clear(n) /\ n # Len(tokens) /\ ByteByByte(Resume(n + 1), Len(input)) =>
       Begun(input, f, Len(input) + 1, tokens[n + 1].pos)
  /\ err.kind # "none" /\ Clear(n) =>
       \E k \in 1..Len(input) :
         /\ Gap(input, Resume(n + 1), k - 1) /\ NoBlank(input, k)
         /\ ByteByByte(Resume(n + 1), k - 1) =>
              /\ Lies(input, f, err.pos)
              /\ input[k] # "/" \/ ByteByByte(k, Len(input)) => Lies(input, f, tokens[n + 1].pos)

Located == \A n \in Nat : \A f : Reading(n) /\ Walks(input, f) => Locates(n, f)

LEMMA OneMore ==
  ASSUME Inv, NEW t, tokens' = Append(tokens, t), input' = input
  PROVE  /\ Len(tokens) \in Nat /\ Len(tokens)' = Len(tokens) + 1
         /\ \A k \in 1..Len(tokens) : tokens'[k] = tokens[k]
         /\ tokens'[Len(tokens) + 1] = t
         /\ \A k \in 1..(Len(tokens) + 1) : Resume(k)' = Resume(k)
         /\ \A k \in 0..Len(tokens) : Clear(k)' <=> Clear(k)
         /\ \A i, j : ByteByByte(i, j)' <=> ByteByByte(i, j)
<1> DEFINE m == Len(tokens)
<1>1. PICK S : tokens \in Seq(S)
  BY DEF Inv
<1>2. m \in Nat
  BY <1>1, LenProperties
<1>3. /\ Len(tokens)' = m + 1
      /\ \A k \in 1..m : tokens'[k] = tokens[k]
      /\ tokens'[m + 1] = t
  BY <1>1, AppendOne
<1> HIDE DEF m
<1>4. ASSUME NEW k \in 1..(m + 1) PROVE Resume(k)' = Resume(k)
  <2>1. k # 1 => k - 1 \in 1..m
    BY <1>2
  <2> QED BY <1>3, <2>1 DEF Resume
<1>5. \A i, j : ByteByByte(i, j)' <=> ByteByByte(i, j)
  BY DEF ByteByByte
<1>6. ASSUME NEW k \in 0..m PROVE Clear(k)' <=> Clear(k)
  <2>1. \A j \in 1..k : tokens'[j] = tokens[j] /\ Resume(j)' = Resume(j)
    BY <1>2, <1>3, <1>4
  <2> QED BY <1>5, <2>1 DEF Clear
<1> QED BY <1>2, <1>3, <1>4, <1>5, <1>6 DEF m

LEMMA SameCount ==
  ASSUME Inv, NEW t, tokens' = Append(tokens, t), input' = input,
         NEW n \in Nat, Reading(n), NEW l \in Nat, Reading(l)'
  PROVE  /\ t.kind = "EOF" => l = n
         /\ t.kind # "EOF" => n = Len(tokens) /\ l = n + 1
<1> DEFINE m == Len(tokens)
<1>1. /\ m \in Nat
      /\ \A k \in 1..m : tokens'[k] = tokens[k]
      /\ tokens'[m + 1] = t /\ Len(tokens)' = m + 1
  BY OneMore
<1>2. n \in 0..m /\ \A k \in 1..m : tokens[k].kind = "EOF" <=> n < k
  BY DEF Reading
<1>3. l \in 0..(m + 1) /\ \A k \in 1..(m + 1) : tokens'[k].kind = "EOF" <=> l < k
  BY <1>1 DEF Reading
<1> HIDE DEF m
<1>4. \A k \in 1..m : n < k <=> l < k
  BY <1>1, <1>2, <1>3
<1>5. t.kind = "EOF" <=> l < m + 1
  BY <1>1, <1>3
<1>6. CASE t.kind = "EOF"
  <2>1. l \in 0..m
    BY <1>1, <1>3, <1>5, <1>6
  <2>2. ~ (n < l) /\ ~ (l < n)
    BY <1>1, <1>2, <1>4, <2>1
  <2> QED BY <1>1, <1>2, <1>6, <2>1, <2>2
<1>7. CASE t.kind # "EOF"
  <2>1. l = m + 1
    BY <1>1, <1>3, <1>5, <1>7
  <2>2. n = m
    BY <1>1, <1>2, <1>4, <2>1
  <2> QED BY <1>7, <2>1, <2>2 DEF m
<1> QED BY <1>6, <1>7

LEMMA FirstLocated == Init => Located
<1> SUFFICES ASSUME Init, NEW n \in Nat, NEW f, Reading(n), Walks(input, f)
             PROVE  Locates(n, f)
  BY DEF Located
<1>1. tokens = <<>> /\ Len(tokens) = 0 /\ err.kind = "none" /\ at = Start
  BY EmptySeq DEF Init
<1>2. n = 0
  BY <1>1 DEF Reading
<1>3. Placed(input, f, at)
  <2>1. Start \in [i : 1..(Len(input) + 1), pos : Positions] /\ Start.i = 1 /\ Start.pos = StartPosition
    <3>1. Len(input) \in Nat
      BY TokenStreamAssumption, LenProperties DEF Init
    <3> QED BY <3>1 DEF Start, StartPosition, Positions
  <2> QED BY <1>1, <2>1 DEF Placed, Begun, Even, Walks
<1> QED BY <1>1, <1>2, <1>3 DEF Locates

LEMMA Locating ==
  ASSUME Inv, Located, [Step]_vars
  PROVE  Located'
<1> SUFFICES ASSUME NEW l \in Nat, NEW f, Reading(l)', Walks(input, f)'
             PROVE  Locates(l, f)'
  BY DEF Located
<1> DEFINE m == Len(tokens)
           w == Len(input)
<1>1. PICK n \in Nat : Reading(n)
  BY DEF Inv
<1>2. /\ input \in Seq(Symbols) /\ w \in Nat
      /\ input' = input
  BY TokenStreamAssumption, LenProperties DEF Inv, Step, Closed, Failed, Returned, vars
<1>3. Walks(input, f)
  BY <1>2
<1>4. Locates(n, f)
  BY <1>1, <1>3 DEF Located
<1>5. CASE UNCHANGED vars
  <2>1. tokens' = tokens /\ err' = err /\ at' = at
    BY <1>5 DEF vars
  <2>2. Reading(l)
    BY <1>2, <2>1 DEF Reading, Resume
  <2>3. Locates(l, f)
    BY <1>3, <2>2 DEF Located
  <2> QED BY <1>2, <2>1, <2>3 DEF Locates, Clear, ByteByByte, Resume
<1>6. n \in 0..m
  BY <1>1 DEF Reading
<1>7. ASSUME NEW t, tokens' = Append(tokens, t)
      PROVE  /\ m \in Nat /\ Len(tokens)' = m + 1
             /\ \A k \in 1..m : tokens'[k] = tokens[k]
             /\ tokens'[m + 1] = t
             /\ \A k \in 1..(m + 1) : Resume(k)' = Resume(k)
             /\ \A k \in 0..m : Clear(k)' <=> Clear(k)
             /\ \A i, j : ByteByByte(i, j)' <=> ByteByByte(i, j)
             /\ t.kind = "EOF" => l = n
             /\ t.kind # "EOF" => n = m /\ l = n + 1
             /\ \A k \in 1..n : Clear(k)' => Begun(input, f, tokens'[k].from, tokens'[k].pos)
  <2>1. /\ m \in Nat /\ Len(tokens)' = m + 1
        /\ \A k \in 1..m : tokens'[k] = tokens[k]
        /\ tokens'[m + 1] = t
        /\ \A k \in 1..(m + 1) : Resume(k)' = Resume(k)
        /\ \A k \in 0..m : Clear(k)' <=> Clear(k)
        /\ \A i, j : ByteByByte(i, j)' <=> ByteByByte(i, j)
    BY <1>2, <1>7, OneMore
  <2>2. /\ t.kind = "EOF" => l = n
        /\ t.kind # "EOF" => n = m /\ l = n + 1
    BY <1>1, <1>2, <1>7, SameCount
  <2>3. \A k \in 1..n : Clear(k) => Begun(input, f, tokens[k].from, tokens[k].pos)
    BY <1>4 DEF Locates
  <2>4. \A k \in 1..n : k \in 1..m /\ k \in 0..m
    BY <1>6, <2>1
  <2> HIDE DEF m
  <2> QED BY <2>1, <2>2, <2>3, <2>4
<1> HIDE DEF m, w
<1>8. CASE Closed
  <2> DEFINE t == EOFToken([i |-> 1, pos |-> NoPosition])
  <2>1. tokens' = Append(tokens, t) /\ err.kind = "error" /\ err' = err
    BY <1>8 DEF Closed
  <2>2. t.kind = "EOF"
    BY DEF EOFToken, Token
  <2> HIDE DEF t
  <2>3. l = n /\ n # m /\ n + 1 \in 1..m /\ n + 1 \in 1..(m + 1)
    BY <1>1, <1>6, <1>7, <2>1, <2>2 DEF Reading, m
  <2>4. tokens'[n + 1] = tokens[n + 1] /\ Resume(n + 1)' = Resume(n + 1) /\ (Clear(n)' <=> Clear(n))
    BY <1>6, <1>7, <2>1, <2>3
  <2>5. ASSUME Clear(n)'
        PROVE  (\E k \in 1..Len(input) :
                  /\ Gap(input, Resume(n + 1), k - 1) /\ NoBlank(input, k)
                  /\ ByteByByte(Resume(n + 1), k - 1) =>
                       /\ Lies(input, f, err.pos)
                       /\ input[k] # "/" \/ ByteByByte(k, Len(input)) => Lies(input, f, tokens[n + 1].pos))'
    <3>1. PICK k \in 1..w :
            /\ Gap(input, Resume(n + 1), k - 1) /\ NoBlank(input, k)
            /\ ByteByByte(Resume(n + 1), k - 1) =>
                 /\ Lies(input, f, err.pos)
                 /\ input[k] # "/" \/ ByteByByte(k, w) => Lies(input, f, tokens[n + 1].pos)
      BY <1>4, <2>1, <2>4, <2>5 DEF Locates, w
    <3> QED BY <1>2, <1>7, <2>1, <2>4, <3>1 DEF w
  <2> QED BY <1>2, <1>7, <2>1, <2>2, <2>3, <2>5 DEF Locates
<1>9. ASSUME err.kind = "none", n = m, Clear(n)
      PROVE  \E k \in at.i..(w + 1) : NextAt(input, f, at, k, Next(input, at)) /\ at.i = Resume(n + 1) /\ at.i >= 1
  <2>1. Placed(input, f, at)
    BY <1>4, <1>9 DEF Locates, m
  <2>2. at.i = Resume(n + 1) /\ at.i \in 1..(w + 1)
    BY <1>1, <1>9 DEF Reading, m, w
  <2>3. \E k \in at.i..(w + 1) : NextAt(input, f, at, k, Next(input, at))
    BY <1>2, <1>3, <2>1, NextTells DEF w
  <2> QED BY <1>2, <2>2, <2>3
<1>10. CASE Failed
  <2> DEFINE t == Next(input, at)
             e == EOFToken(t.end)
  <2>1. /\ tokens' = Append(tokens, e) /\ err.kind = "none" /\ t.kind = "error"
        /\ err' = t
    BY <1>10 DEF Failed
  <2>2. e.kind = "EOF" /\ e.pos = t.end.pos
    BY DEF EOFToken, Token
  <2>3. n = m
    <3>1. at.i \in 1..(w + 1) /\ (n # m => at.i = w + 1)
      BY <1>1, <2>1 DEF Reading, m, w
    <3>2. PICK k \in at.i..(w + 1) : Yields(input, k, t)
      BY <1>2, <3>1, NextOne DEF w
    <3> HIDE DEF t
    <3>3. k <= w
      BY <2>1, <3>2 DEF Yields, w
    <3> QED BY <1>2, <3>1, <3>2, <3>3
  <2>4. l = n /\ tokens'[n + 1] = e /\ Resume(n + 1)' = Resume(n + 1) /\ (Clear(n)' <=> Clear(n))
    <3> HIDE DEF e
    <3> QED BY <1>6, <1>7, <2>1, <2>2, <2>3
  <2>5. ASSUME Clear(n)'
        PROVE  (\E k \in 1..Len(input) :
                  /\ Gap(input, Resume(n + 1), k - 1) /\ NoBlank(input, k)
                  /\ ByteByByte(Resume(n + 1), k - 1) =>
                       /\ Lies(input, f, err.pos)
                       /\ input[k] # "/" \/ ByteByByte(k, Len(input)) => Lies(input, f, tokens[n + 1].pos))'
    <3>1. PICK k \in at.i..(w + 1) : NextAt(input, f, at, k, t) /\ at.i = Resume(n + 1) /\ at.i >= 1
      BY <1>9, <2>1, <2>3, <2>4, <2>5
    <3> HIDE DEF t, e
    <3>2. k \in 1..w
      <4>1. at.i \in Int
        BY <1>1, <2>1 DEF Reading
      <4>2. k <= w
        BY <2>1, <3>1 DEF NextAt, Yields, w
      <4> QED BY <1>2, <3>1, <4>1, <4>2
    <3>3. /\ Gap(input, Resume(n + 1), k - 1) /\ NoBlank(input, k)
          /\ ByteByByte(Resume(n + 1), k - 1) =>
               /\ Lies(input, f, t.pos)
               /\ input[k] # "/" \/ ByteByByte(k, w) => Lies(input, f, t.end.pos)
      BY <2>1, <3>1 DEF NextAt, Smooth, ByteByByte, w
    <3>4. err'.pos = t.pos /\ tokens'[n + 1].pos = t.end.pos
      BY <2>1, <2>2, <2>4
    <3> QED BY <1>2, <1>7, <2>1, <2>4, <3>2, <3>3, <3>4 DEF w
  <2> HIDE DEF t, e
  <2> QED BY <1>2, <1>7, <2>1, <2>2, <2>4, <2>5 DEF Locates
<1>11. CASE Returned
  <2> DEFINE t == Next(input, at)
  <2>1. /\ tokens' = Append(tokens, t) /\ err.kind = "none" /\ t.kind # "error"
        /\ err' = err /\ at' = t.end
    BY <1>11 DEF Returned
  <2>2. ASSUME n = m, Clear(n)
        PROVE  \E k \in at.i..(w + 1) : NextAt(input, f, at, k, t) /\ at.i = Resume(n + 1) /\ at.i >= 1
    BY <1>9, <2>1, <2>2
  <2> HIDE DEF t
  <2>3. CASE t.kind = "EOF"
    <3>1. l = n /\ n # m + 1 /\ Len(tokens)' = m + 1 /\ n + 1 \in 1..(m + 1)
          /\ Resume(n + 1)' = Resume(n + 1) /\ (Clear(n)' <=> Clear(n))
      BY <1>6, <1>7, <2>1, <2>3
    <3>2. ASSUME Clear(n)', ByteByByte(Resume(n + 1), Len(input))'
          PROVE  Begun(input, f, Len(input) + 1, tokens[n + 1].pos)'
      <4>1. Clear(n) /\ ByteByByte(Resume(n + 1), w)
        BY <1>2, <1>7, <2>1, <3>1, <3>2 DEF w
      <4>2. CASE n = m
        <5>1. PICK k \in at.i..(w + 1) : NextAt(input, f, at, k, t) /\ at.i = Resume(n + 1) /\ at.i >= 1
          BY <2>2, <4>1, <4>2
        <5>2. k = w + 1
          BY <2>3, <5>1 DEF NextAt, Yields, w
        <5>3. Smooth(input, at.i, k - 1)
          <6>1. k - 1 = w
            BY <1>2, <5>2
          <6> QED BY <4>1, <5>1, <6>1 DEF Smooth, ByteByByte
        <5>4. Begun(input, f, k, t.pos)
          BY <2>1, <5>1, <5>3 DEF NextAt
        <5>5. tokens'[n + 1] = t
          BY <1>7, <2>1, <4>2
        <5> QED BY <1>2, <5>2, <5>4, <5>5 DEF w
      <4>3. CASE n # m
        <5>1. tokens'[n + 1] = tokens[n + 1]
          <6>1. n + 1 \in 1..m
            BY <1>6, <1>7, <2>1, <4>3
          <6> QED BY <1>7, <2>1, <6>1
        <5>2. Begun(input, f, w + 1, tokens[n + 1].pos)
          BY <1>4, <2>1, <4>1, <4>3 DEF Locates, m, w
        <5> QED BY <1>2, <5>1, <5>2 DEF w
      <4> QED BY <4>2, <4>3
    <3> QED BY <1>2, <1>7, <2>1, <3>1, <3>2 DEF Locates
  <2>4. CASE t.kind # "EOF"
    <3>1. n = m /\ l = n + 1 /\ tokens'[l] = t /\ Resume(l)' = Resume(l) /\ Len(tokens)' = l
      BY <1>7, <2>1, <2>4
    <3>2. ASSUME Clear(l)' PROVE Begun(input, f, t.from, t.pos) /\ Placed(input, f, t.end)
      <4>1. Clear(n)' /\ ByteByByte(Resume(l), tokens[l].from - 1)'
        <5>1. l \in 1..l /\ \A k \in 1..n : k \in 1..l
          BY <3>1
        <5>2. \A k \in 1..l : ByteByByte(Resume(k), tokens[k].from - 1)'
          BY <3>2 DEF Clear
        <5> QED BY <5>1, <5>2 DEF Clear
      <4>2. Clear(n) /\ ByteByByte(Resume(n + 1), t.from - 1)
        <5>1. Clear(n)
          BY <1>6, <1>7, <2>1, <4>1
        <5>2. \A r \in Resume(l)'..(tokens'[l].from - 1) : RuneLen(input'[r]) = 1
          BY <4>1 DEF ByteByByte
        <5>3. ByteByByte(Resume(l), t.from - 1)
          BY <1>2, <3>1, <5>2 DEF ByteByByte
        <5> QED BY <3>1, <5>1, <5>3
      <4>3. PICK k \in at.i..(w + 1) : NextAt(input, f, at, k, t) /\ at.i = Resume(n + 1) /\ at.i >= 1
        BY <2>2, <3>1, <4>2
      <4>4. t.from = k
        BY <2>1, <2>4, <4>3 DEF NextAt, Yields
      <4>5. Smooth(input, at.i, k - 1)
        BY <4>2, <4>3, <4>4 DEF Smooth, ByteByByte
      <4> QED BY <2>1, <4>3, <4>4, <4>5 DEF NextAt
    <3>3. ASSUME NEW k \in 1..l, Clear(k)' PROVE Begun(input', f, tokens'[k].from, tokens'[k].pos)
      <4>1. CASE k = l
        BY <1>2, <3>1, <3>2, <3>3, <4>1
      <4>2. CASE k # l
        <5>1. k \in 1..n
          BY <3>1, <4>2
        <5> QED BY <1>2, <1>7, <2>1, <3>3, <5>1
      <4> QED BY <4>1, <4>2
    <3>4. Clear(l)' => Placed(input', f, at')
      BY <1>2, <2>1, <3>2
    <3> QED BY <2>1, <3>1, <3>3, <3>4 DEF Locates
  <2> QED BY <2>3, <2>4
<1> QED BY <1>5, <1>8, <1>10, <1>11 DEF Step

LEMMA AlwaysLocated == Spec => [](Inv /\ Located)
<1>1. Init => Inv /\ Located
  BY Starts, FirstLocated
<1>2. Inv /\ Located /\ [Step]_vars => (Inv /\ Located)'
  BY Steps, Locating
<1> QED BY <1>1, <1>2, PTL DEF Spec

(* The line, the column and the offset that the scanner has counted up for  *)
(* each token, for an error and for what follows it, in an input of any     *)
(* length, are those that PositionAt() finds again by a walk over the whole *)
(* text, unless a comment before them holds a byte that announces others, a *)
(* rune's or a stray one; a token's are those of its first byte (lexer.go   *)
(* 91-96, position.go 7-36).                                                *)
THEOREM PositionsCorrect == Spec => []PositionsMatchOffsets
<1>1. ASSUME Inv, Located PROVE PositionsMatchOffsets
  <2> DEFINE w == Len(input)
  <2>1. PICK n \in Nat : Reading(n)
    BY <1>1 DEF Inv
  <2>2. input \in Seq(Symbols) /\ w \in Nat /\ Len(tokens) \in Nat
    BY <1>1, TokenStreamAssumption, LenProperties DEF Inv
  <2>3. PICK f : Walks(input, f)
    BY <2>2, WalkExists
  <2>4. Locates(n, f)
    BY <1>1, <2>1, <2>3 DEF Located
  <2>5. Scanned = 1..n /\ Rest = Resume(n + 1) /\ Cardinality(Scanned) = n
    <3>1. Scanned = 1..n /\ Rest = Resume(n + 1)
      BY <2>1, <2>2, ScannedSoFar
    <3>2. Cardinality(1..n) = n
      BY FS_Interval
    <3> QED BY <3>1, <3>2
  <2>6. \A p : Lies(input, f, p) => p = PositionAt(input, p.offset)
    BY <2>2, <2>3, PositionAtWalks
  <2>7. ASSUME NEW i \in 1..(w + 1), NEW p, Begun(input, f, i, p) PROVE p = PositionAt(input, BytesBefore(i))
    <3>1. Lies(input, f, p) /\ p = f[i]
      BY <2>7 DEF Lies, Begun
    <3>2. f[i].offset = Bytes(input, 1, i - 1)
      BY <2>2, <2>3, WalkOffsets
    <3> QED BY <2>6, <3>1, <3>2 DEF BytesBefore
  <2> HIDE DEF w
  <2>8. ASSUME NEW k \in Scanned, Clear(k)
        PROVE  tokens[k].pos = PositionAt(input, BytesBefore(tokens[k].from))
    <3>1. k \in 1..n /\ IsToken(input, tokens[k])
      BY <2>1, <2>5 DEF Reading
    <3>2. tokens[k].from \in 1..(w + 1)
      <4>1. tokens[k].from \in 0..w
        BY <2>2, <3>1 DEF IsToken, w
      <4>2. Gap(input, Resume(k), tokens[k].from - 1)
        BY <2>1, <3>1 DEF Reading
      <4>3. Resume(k) \in Nat \ {0}
        <5>1. k \in 1..(n + 1)
          BY <3>1
        <5> QED BY <2>1, <2>2, <5>1, ResumeIsNat DEF w
      <4>4. Resume(k) <= tokens[k].from
        BY <2>2, <4>1, <4>2, <4>3, GapBegins
      <4> QED BY <2>2, <4>1, <4>3, <4>4
    <3>3. Begun(input, f, tokens[k].from, tokens[k].pos)
      BY <2>4, <2>8, <3>1 DEF Locates
    <3> QED BY <2>7, <3>2, <3>3
  <2>9. ASSUME Ended, err.kind = "none", Clear(n), ByteByByte(Rest, w)
        PROVE  tokens[n + 1].pos = PositionAt(input, BytesBefore(w + 1))
    <3>1. n # Len(tokens)
      <4>1. tokens # <<>> /\ tokens[Len(tokens)].kind = "EOF"
        BY <2>9 DEF Ended
      <4>2. Len(tokens) \in 1..Len(tokens)
        BY <1>1, <2>2, <4>1, EmptySeq DEF Inv
      <4> QED BY <2>1, <4>1, <4>2 DEF Reading
    <3>2. Begun(input, f, w + 1, tokens[n + 1].pos)
      BY <2>4, <2>5, <2>9, <3>1 DEF Locates, w
    <3> QED BY <2>2, <2>7, <3>2
  <2>10. ASSUME err.kind = "error", Clear(n), NEW k \in 1..w, First(k), ByteByByte(Rest, k - 1)
         PROVE  /\ err.pos = PositionAt(input, err.pos.offset)
                /\ input[k] # "/" \/ ByteByByte(k, w) =>
                     tokens[n + 1].pos = PositionAt(input, tokens[n + 1].pos.offset)
    <3>1. PICK j \in 1..w :
            /\ Gap(input, Rest, j - 1) /\ NoBlank(input, j)
            /\ ByteByByte(Rest, j - 1) =>
                 /\ Lies(input, f, err.pos)
                 /\ input[j] # "/" \/ ByteByByte(j, w) => Lies(input, f, tokens[n + 1].pos)
      BY <2>4, <2>5, <2>10 DEF Locates, w
    <3>2. Gap(input, Rest, k - 1) /\ NoBlank(input, k)
      BY <2>10 DEF First, NoBlank, w
    <3>3. Rest \in Nat
      <4>1. n + 1 \in 1..(n + 1)
        OBVIOUS
      <4> QED BY <2>1, <2>2, <2>5, <4>1, ResumeIsNat DEF w
    <3>4. j = k
      <4>1. j \in 1..(w + 1) /\ k \in 1..(w + 1)
        BY <2>2
      <4> QED BY <2>2, <3>1, <3>2, <3>3, <4>1, GapIsOne DEF w
    <3> QED BY <2>6, <2>10, <3>1, <3>4
  <2> QED BY <2>5, <2>8, <2>9, <2>10 DEF PositionsMatchOffsets, w
<1> QED BY <1>1, AlwaysLocated, PTL

-----------------------------------------------------------------------------
(* Compact().  First, a number somewhere else, and what numbers are made of. *)
LEMMA NumberSymbols ==
  ASSUME NEW data, NEW i \in Nat, NEW j \in Nat, IsNumber(data, i, j)
  PROVE  /\ i <= j /\ data[i] \in Digits \cup {"-"}
         /\ \A k \in i..j : data[k] \in Digits \cup {"-", "+", ".", "e"}
<1>1. PICK s \in {i, i + 1}, f \in i..(j + 1), e \in i..(j + 1) :
        (s = i + 1 => data[i] = "-") /\ IsInt(data, s, f - 1) /\ IsFrac(data, f, e - 1) /\ IsExp(data, e, j)
  BY DEF IsNumber
<1>2. s <= f - 1 /\ \A k \in s..(f - 1) : data[k] \in Digits
  BY <1>1 DEF IsInt, Run
<1>3. f <= e /\ \A k \in f..(e - 1) : data[k] \in Digits \cup {"."}
  BY <1>1 DEF IsFrac, Run
<1>4. e <= j + 1 /\ \A k \in e..j : data[k] \in Digits \cup {"e", "+", "-"}
  BY <1>1 DEF IsExp, Run
<1>5. i <= j /\ data[i] \in Digits \cup {"-"}
  BY <1>1, <1>2, <1>3, <1>4
<1>6. ASSUME NEW k \in i..j PROVE data[k] \in Digits \cup {"-", "+", ".", "e"}
  <2>1. (k = i /\ s = i + 1) \/ k \in s..(f - 1) \/ k \in f..(e - 1) \/ k \in e..j
    BY <1>1, <1>6
  <2> QED BY <1>1, <1>2, <1>3, <1>4, <2>1
<1> QED BY <1>5, <1>6

LEMMA NumberElsewhere ==
  ASSUME NEW t, NEW i \in Nat, NEW j \in Nat, IsNumber(t, i, j), NEW u, NEW x, NEW y, Moved(t, i, j, u, x, y)
  PROVE  IsNumber(u, x, y)
<1> PICK d \in Int : x = i + d /\ y = j + d /\ \A k \in i..j : u[k + d] = t[k]
  BY DEF Moved
<1>1. PICK s \in {i, i + 1}, f \in i..(j + 1), e \in i..(j + 1) :
        (s = i + 1 => t[i] = "-") /\ IsInt(t, s, f - 1) /\ IsFrac(t, f, e - 1) /\ IsExp(t, e, j)
  BY DEF IsNumber
<1>2. s <= f - 1 /\ f <= e /\ i <= s /\ i <= j /\ s <= j
  BY <1>1 DEF IsInt, IsFrac, Run
<1>3. ASSUME NEW a \in i..(j + 1), NEW b \in Int, b <= j, Run(t, a, b) PROVE Run(u, a + d, b + d)
  <2> SUFFICES ASSUME NEW k \in (a + d)..(b + d) PROVE u[k] \in Digits
    BY <1>3 DEF Run
  <2> DEFINE l == k - d
  <2>1. l \in a..b /\ l \in i..j /\ l + d = k
    BY <1>3
  <2> HIDE DEF l
  <2> QED BY <1>3, <2>1 DEF Run
<1>4. IsInt(u, s + d, f - 1 + d)
  <2>1. Run(t, s, f - 1) /\ (t[s] = "0" => s = f - 1) /\ s \in i..(j + 1) /\ f - 1 \in Int /\ f - 1 <= j
    BY <1>1, <1>2 DEF IsInt
  <2>2. Run(u, s + d, f - 1 + d)
    BY <1>3, <2>1
  <2>3. u[s + d] = t[s]
    BY <1>1, <1>2
  <2> QED BY <2>1, <2>2, <2>3 DEF IsInt
<1>5. IsFrac(u, f + d, e - 1 + d)
  <2>1. CASE e - 1 = f - 1
    BY <2>1 DEF IsFrac
  <2>2. CASE f < e - 1 /\ t[f] = "." /\ Run(t, f + 1, e - 1)
    <3>1. f + 1 \in i..(j + 1) /\ e - 1 \in Int /\ e - 1 <= j /\ f \in i..j
      BY <1>1, <2>2
    <3>2. Run(u, f + 1 + d, e - 1 + d)
      BY <1>3, <2>2, <3>1
    <3>3. u[f + d] = "." /\ f + d < e - 1 + d /\ f + 1 + d = f + d + 1
      BY <2>2, <3>1
    <3> QED BY <3>2, <3>3 DEF IsFrac
  <2> QED BY <1>1, <2>1, <2>2 DEF IsFrac
<1>6. IsExp(u, e + d, j + d)
  <2>1. CASE j = e - 1
    BY <2>1 DEF IsExp
  <2>2. CASE e < j /\ t[e] = "e"
    <3>1. e \in i..j /\ e + 1 \in i..j /\ u[e + d] = "e" /\ u[e + 1 + d] = t[e + 1] /\ e + 1 + d = e + d + 1 /\ e + d < j + d
      BY <1>1, <2>2
    <3>2. CASE Run(t, e + 1, j)
      <4>1. Run(u, e + 1 + d, j + d)
        BY <1>3, <3>1, <3>2
      <4> QED BY <3>1, <4>1 DEF IsExp
    <3>3. CASE t[e + 1] \in {"+", "-"} /\ Run(t, e + 2, j)
      <4>1. e + 2 \in i..(j + 1) /\ e + 2 + d = e + d + 2
        BY <3>1
      <4>2. Run(u, e + 2 + d, j + d)
        BY <1>3, <3>3, <4>1
      <4> QED BY <3>1, <3>3, <4>1, <4>2 DEF IsExp
    <3> QED BY <1>1, <2>2, <3>2, <3>3 DEF IsExp
  <2> QED BY <1>1, <2>1, <2>2 DEF IsExp
<1> DEFINE S == s + d
           F == f + d
           E == e + d
<1>7. /\ S \in {x, x + 1} /\ F \in x..(y + 1) /\ E \in x..(y + 1)
      /\ S = x + 1 => u[x] = "-"
      /\ f - 1 + d = F - 1 /\ e - 1 + d = E - 1
  BY <1>1, <1>2
<1>8. IsInt(u, S, F - 1) /\ IsFrac(u, F, E - 1) /\ IsExp(u, E, y)
  BY <1>4, <1>5, <1>6, <1>7
<1> HIDE DEF S, F, E
<1> QED BY <1>7, <1>8 DEF IsNumber

(* A gap without a slash is white space. *)
LEMMA WhiteGap ==
  ASSUME NEW data, NEW i \in Nat, NEW j \in Nat, Gap(data, i, j - 1), \A k \in i..(j - 1) : data[k] # "/"
  PROVE  i <= j /\ \A k \in i..(j - 1) : data[k] \in White
<1>1. PICK cuts \in SUBSET (i..j) :
        /\ {i, j} \subseteq cuts
        /\ \A c \in cuts \ {j} : \E d \in cuts : Blank(data, c, d - 1)
  BY DEF Gap
<1>2. ASSUME NEW k \in i..(j - 1), k \in cuts PROVE data[k] \in White /\ k + 1 \in cuts
  <2>1. PICK d \in cuts : Blank(data, k, d - 1)
    BY <1>1, <1>2
  <2>2. d \in Int /\ d - 1 \in Int /\ k \in Int
    BY <1>1
  <2>3. data[k] \in White /\ d - 1 = k
    <3> DEFINE e == d - 1
    <3> HIDE DEF e
    <3>1. (data[k] \in White => e = k) /\ data[k] \in White \cup {"/"}
      BY <2>1, <2>2, BlankBegins DEF e
    <3> QED BY <1>2, <3>1 DEF e
  <2>4. d = k + 1
    BY <2>2, <2>3
  <2> QED BY <2>3, <2>4
<1>3. \A k \in i..j : k \in cuts
  BY <1>1, <1>2, Upward
<1> QED BY <1>1, <1>2, <1>3

(* Compact() after each symbol. *)
CompactStates == [out : Seq(Symbols), inString : BOOLEAN, escaped : BOOLEAN]
CompactBegin  == [out |-> <<>>, inString |-> FALSE, escaped |-> FALSE]

Pressed(r, c) == [InString(r, c) EXCEPT !.out = IF r.inString \/ c \notin White THEN Append(@, c) ELSE @]

Presses(src, f) ==
  /\ f \in [0..Len(src) -> CompactStates]
  /\ f[0] = CompactBegin
  /\ \A k \in 1..Len(src) : f[k] = Pressed(f[k - 1], src[k])

LEMMA PressOne ==
  ASSUME NEW r \in CompactStates, NEW c \in Symbols
  PROVE  LET q == Pressed(r, c) IN
         /\ q \in CompactStates
         /\ q.inString = IF r.inString THEN r.escaped \/ c # Quote ELSE c = Quote
         /\ q.escaped = IF r.inString THEN ~ r.escaped /\ c = "\\" ELSE r.escaped
         /\ q.out = IF r.inString \/ c \notin White THEN Append(r.out, c) ELSE r.out
<1> DEFINE o == IF r.inString \/ c \notin White THEN Append(r.out, c) ELSE r.out
           i == IF r.inString THEN r.escaped \/ c # Quote ELSE c = Quote
           e == IF r.inString THEN ~ r.escaped /\ c = "\\" ELSE r.escaped
<1>1. /\ r.out \in Seq(Symbols) /\ r.inString \in BOOLEAN /\ r.escaped \in BOOLEAN
      /\ r = [out |-> r.out, inString |-> r.inString, escaped |-> r.escaped]
  BY DEF CompactStates
<1>2. o \in Seq(Symbols)
  BY <1>1, AppendProperties
<1>3. i \in BOOLEAN /\ e \in BOOLEAN
  BY <1>1
<1>4. InString(r, c) = [out |-> r.out, inString |-> i, escaped |-> e]
  <2>1. CASE ~ r.inString
    BY <1>1, <2>1 DEF InString, CompactStates
  <2>2. CASE r.inString /\ r.escaped
    BY <1>1, <2>2 DEF InString, CompactStates
  <2>3. CASE r.inString /\ ~ r.escaped
    <3>1. InString(r, c) = [r EXCEPT !.escaped = (c = "\\"), !.inString = (c # Quote)]
      BY <2>3 DEF InString
    <3>2. ASSUME NEW p \in BOOLEAN, NEW q \in BOOLEAN
          PROVE  [r EXCEPT !.escaped = p, !.inString = q] = [out |-> r.out, inString |-> q, escaped |-> p]
      <4>1. DOMAIN r = {"out", "inString", "escaped"}
        BY <1>1
      <4>2. ASSUME NEW x, x = [r EXCEPT !.escaped = p, !.inString = q]
            PROVE  x = [out |-> r.out, inString |-> q, escaped |-> p]
        <5>1. x = [a \in {"out", "inString", "escaped"} |->
                     IF a = "inString" THEN q ELSE IF a = "escaped" THEN p ELSE r[a]]
          BY <4>1, <4>2
        <5> QED BY <5>1
      <4> QED BY <4>2
    <3>3. i = (c # Quote) /\ e = (c = "\\")
      BY <1>1, <2>3
    <3> HIDE DEF i, e
    <3> QED BY <3>1, <3>2, <3>3
  <2> QED BY <1>1, <2>1, <2>2, <2>3
<1> HIDE DEF i, e
<1>5. Pressed(r, c) = [out |-> o, inString |-> i, escaped |-> e]
  <2> DEFINE x == [out |-> r.out, inString |-> i, escaped |-> e]
  <2>1. Pressed(r, c) = [x EXCEPT !.out = IF r.inString \/ c \notin White THEN Append(@, c) ELSE @]
    BY <1>4 DEF Pressed
  <2>2. x.out = r.out
    OBVIOUS
  <2> QED BY <2>1
<1> HIDE DEF o
<1> QED BY <1>2, <1>3, <1>5 DEF CompactStates, o, i, e

LEMMA FoldOfCompact ==
  ASSUME NEW src \in Seq(Symbols)
  PROVE  \E f : Presses(src, f) /\ Compact(src) = f[Len(src)].out
<1> DEFINE n == Len(src)
           V == CompactStates
           S == SUBSET (1..n)
           comb == [k \in 1..n |-> [r \in V |-> Pressed(r, src[k])]]
           Body(f) == [s \in S |-> IF s = {} THEN CompactBegin ELSE Pressed(f[s \ {Max(s)}], src[Max(s)])]
           iter == CHOOSE f : f = Body(f)
           states == [k \in 0..n |-> iter[1..k]]
<1>1. n \in Nat /\ DOMAIN src = 1..n
  BY LenProperties
<1>2. Compact(src) = iter[1..n].out
  BY <1>1 DEF Compact, FoldLeft, MapThenFoldSet, Pressed, CompactBegin
<1> HIDE DEF n
<1>3. comb \in [1..n -> [V -> V]] /\ CompactBegin \in V
  <2>1. \A k \in 1..n : src[k] \in Symbols
    BY ElementOfSeq DEF n
  <2>2. \A k \in 1..n : \A r \in V : Pressed(r, src[k]) \in V
    BY <2>1, PressOne
  <2>3. CompactBegin \in V
    BY EmptySeq DEF CompactBegin, CompactStates
  <2> HIDE DEF V
  <2> QED BY <2>2, <2>3
<1> HIDE DEF V
<1>4. PICK g \in [S -> V] : \A s \in S : g[s] = IF s = {} THEN CompactBegin ELSE comb[Max(s)][g[s \ {Max(s)}]]
  <2> HIDE DEF comb
  <2>1. FoldsTo(n, V, CompactBegin, comb)
    BY <1>1, <1>3, FoldsEnd
  <2> QED BY <2>1 DEF FoldsTo
<1>5. ASSUME NEW s \in S PROVE g[s] = IF s = {} THEN CompactBegin ELSE Pressed(g[s \ {Max(s)}], src[Max(s)])
  <2>1. CASE s = {}
    BY <1>4, <2>1
  <2>2. CASE s # {}
    <3> DEFINE m == Max(s)
               v == g[s \ {m}]
    <3>1. m \in 1..n
      BY <1>1, <2>2, MaxIsIn
    <3>2. v \in V
      OBVIOUS
    <3>3. g[s] = comb[m][v]
      BY <1>4, <2>2
    <3> HIDE DEF m, v
    <3>4. comb[m][v] = Pressed(v, src[m])
      BY <3>1, <3>2
    <3> QED BY <2>2, <3>3, <3>4 DEF m, v
  <2> QED BY <2>1, <2>2
<1>6. g = Body(g)
  <2> HIDE DEF S
  <2> QED BY <1>5
<1>7. iter = Body(iter)
  <2> HIDE DEF Body
  <2> QED BY <1>6
<1>8. \A s \in S : iter[s] = IF s = {} THEN CompactBegin ELSE Pressed(iter[s \ {Max(s)}], src[Max(s)])
  <2> HIDE DEF iter, S
  <2> QED BY <1>7
<1> HIDE DEF iter
<1>9. states[0] = CompactBegin
  <2>1. 1..0 = {} /\ 1..0 \in S /\ states[0] = iter[1..0]
    BY <1>1
  <2> QED BY <1>8, <2>1
<1>10. ASSUME NEW k \in 1..n PROVE states[k] = Pressed(states[k - 1], src[k])
  <2>1. k \in Nat \ {0} /\ k - 1 \in 0..n /\ k \in 0..n
    BY <1>1
  <2>2. states[k] = iter[1..k] /\ states[k - 1] = iter[1..(k - 1)]
    BY <2>1
  <2>3. Max(1..k) = k /\ (1..k) \ {k} = 1..(k - 1) /\ 1..k # {}
    BY <2>1, MaxIsLast
  <2>4. 1..k \in S
    BY <1>1
  <2> HIDE DEF states, S
  <2> QED BY <1>8, <2>2, <2>3, <2>4
<1>11. states[n] = iter[1..n] /\ DOMAIN states = 0..n
  BY <1>1
<1>12. states = [k \in 0..n |-> states[k]]
  OBVIOUS
<1> HIDE DEF states
<1>13. \A k \in 0..n : states[k] \in V
  <2> DEFINE T == {k \in Nat : states[k] \in V}
  <2>1. ASSUME NEW k \in 0..(n - 1), states[k] \in V PROVE states[k + 1] \in V
    <3>1. k + 1 \in 1..n /\ k + 1 - 1 = k
      BY <1>1
    <3>2. src[k + 1] \in Symbols
      BY <3>1, ElementOfSeq DEF n
    <3> QED BY <1>10, <2>1, <3>1, <3>2, PressOne DEF V
  <2>2. 0 \in T /\ \A k \in 0..(n - 1) : k \in T => k + 1 \in T
    BY <1>3, <1>9, <2>1
  <2> HIDE DEF T
  <2>3. \A k \in 0..n : k \in T
    BY <1>1, <2>2, Upward
  <2> QED BY <2>3 DEF T
<1>14. Presses(src, states)
  <2>1. states \in [0..n -> V]
    BY <1>12, <1>13
  <2> QED BY <1>9, <1>10, <2>1 DEF Presses, n, V
<1> QED BY <1>2, <1>11, <1>14 DEF n

(* What is written stays: symbol k of the source is copied if it is the     *)
(* last one written after it. *)
Size(f, k)    == Len(f[k].out)
Outside(f, k) == ~ f[k].inString /\ ~ f[k].escaped
Inside(f, k)  == f[k].inString /\ ~ f[k].escaped
Copies(src, f, k)    == Size(f, k) = Size(f, k - 1) + 1 /\ f[k].out[Size(f, k)] = src[k]
Copied(src, f, i, j) == \A k \in i..j : Copies(src, f, k)

LEMMA PressedAt ==
  ASSUME NEW src \in Seq(Symbols), NEW f, Presses(src, f), NEW k \in 1..Len(src)
  PROVE  LET r == f[k - 1]
             q == f[k]
             c == src[k]
         IN
         /\ q.inString = IF r.inString THEN r.escaped \/ c # Quote ELSE c = Quote
         /\ q.escaped = IF r.inString THEN ~ r.escaped /\ c = "\\" ELSE r.escaped
         /\ r.inString \/ c \notin White => Copies(src, f, k)
         /\ ~ r.inString /\ c \in White => q.out = r.out
         /\ Size(f, k - 1) \in Nat /\ Size(f, k) \in Nat /\ Size(f, k - 1) <= Size(f, k)
         /\ \A x \in 1..Size(f, k - 1) : q.out[x] = r.out[x]
         /\ q.inString \in BOOLEAN /\ q.escaped \in BOOLEAN /\ r.inString \in BOOLEAN /\ r.escaped \in BOOLEAN
<1> DEFINE r == f[k - 1]
           q == f[k]
           c == src[k]
<1>1. r \in CompactStates /\ q \in CompactStates /\ c \in Symbols /\ q = Pressed(r, c)
  <2>1. Len(src) \in Nat
    BY LenProperties
  <2>2. k - 1 \in 0..Len(src) /\ k \in 0..Len(src)
    BY <2>1
  <2> QED BY <2>2, ElementOfSeq DEF Presses
<1>2. Size(f, k) = Len(q.out) /\ Size(f, k - 1) = Len(r.out)
  BY DEF Size
<1>3. Copies(src, f, k) <=> Len(q.out) = Len(r.out) + 1 /\ q.out[Len(q.out)] = c
  BY <1>2 DEF Copies
<1> HIDE DEF r, q, c
<1>4. /\ q.inString = IF r.inString THEN r.escaped \/ c # Quote ELSE c = Quote
      /\ q.escaped = IF r.inString THEN ~ r.escaped /\ c = "\\" ELSE r.escaped
      /\ q.out = IF r.inString \/ c \notin White THEN Append(r.out, c) ELSE r.out
  BY <1>1, PressOne
<1>5. /\ r.out \in Seq(Symbols) /\ q.out \in Seq(Symbols)
      /\ q.inString \in BOOLEAN /\ q.escaped \in BOOLEAN /\ r.inString \in BOOLEAN /\ r.escaped \in BOOLEAN
  BY <1>1 DEF CompactStates
<1>6. Len(r.out) \in Nat /\ Len(q.out) \in Nat
  BY <1>5, LenProperties
<1>7. /\ Len(Append(r.out, c)) = Len(r.out) + 1 /\ Append(r.out, c)[Len(r.out) + 1] = c
      /\ \A x \in 1..Len(r.out) : Append(r.out, c)[x] = r.out[x]
  BY <1>1, <1>5, AppendProperties
<1>8. r.inString \/ c \notin White => Copies(src, f, k)
  BY <1>3, <1>4, <1>7
<1>9. Len(r.out) <= Len(q.out) /\ \A x \in 1..Len(r.out) : q.out[x] = r.out[x]
  BY <1>4, <1>6, <1>7
<1> QED BY <1>2, <1>4, <1>5, <1>6, <1>8, <1>9 DEF r, q, c

LEMMA Sizes ==
  ASSUME NEW src \in Seq(Symbols), NEW f, Presses(src, f), NEW k \in 0..Len(src)
  PROVE  Size(f, k) \in Nat
<1>1. f[k] \in CompactStates
  BY DEF Presses
<1>2. f[k].out \in Seq(Symbols)
  BY <1>1 DEF CompactStates
<1> QED BY <1>2, LenProperties DEF Size

LEMMA WrittenStays ==
  ASSUME NEW src \in Seq(Symbols), NEW f, Presses(src, f), NEW k \in 0..Len(src), NEW l \in k..Len(src)
  PROVE  Size(f, k) <= Size(f, l) /\ \A x \in 1..Size(f, k) : f[l].out[x] = f[k].out[x]
<1> DEFINE n == Len(src)
           T == {m \in Nat : Size(f, k) <= Size(f, m) /\ \A x \in 1..Size(f, k) : f[m].out[x] = f[k].out[x]}
<1>1. n \in Nat /\ k \in Nat /\ l \in k..n /\ k \in 0..n
  BY LenProperties
<1>2. Size(f, k) \in Nat
  BY Sizes
<1>3. k \in T
  BY <1>1, <1>2
<1>4. ASSUME NEW m \in k..(n - 1), m \in T PROVE m + 1 \in T
  <2>1. m + 1 \in 1..n /\ m + 1 - 1 = m /\ m + 1 \in Nat
    BY <1>1
  <2>2. /\ Size(f, m) \in Nat /\ Size(f, m + 1) \in Nat /\ Size(f, m) <= Size(f, m + 1)
        /\ \A x \in 1..Size(f, m) : f[m + 1].out[x] = f[m].out[x]
    <3> DEFINE p == m + 1
    <3>1. p \in 1..Len(src) /\ p - 1 = m
      BY <2>1
    <3> HIDE DEF p
    <3>2. /\ Size(f, p - 1) \in Nat /\ Size(f, p) \in Nat /\ Size(f, p - 1) <= Size(f, p)
          /\ \A x \in 1..Size(f, p - 1) : f[p].out[x] = f[p - 1].out[x]
      BY <3>1, PressedAt
    <3> QED BY <3>1, <3>2 DEF p
  <2>3. Size(f, k) <= Size(f, m) /\ \A x \in 1..Size(f, k) : f[m].out[x] = f[k].out[x]
    BY <1>4
  <2> QED BY <1>2, <2>1, <2>2, <2>3
<1> HIDE DEF T
<1>5. \A m \in k..n : m \in T
  BY <1>1, <1>3, <1>4, Upward
<1> QED BY <1>1, <1>5 DEF T

(* What is copied stands in what is returned. *)
LEMMA CopiedMoves ==
  ASSUME NEW src \in Seq(Symbols), NEW f, Presses(src, f),
         NEW i \in 1..Len(src), NEW j \in i..Len(src), Copied(src, f, i, j)
  PROVE  /\ Moved(src, i, j, f[Len(src)].out, Size(f, i - 1) + 1, Size(f, j))
         /\ Size(f, j) = Size(f, i - 1) + (j - i + 1) /\ Size(f, j) <= Size(f, Len(src))
<1> DEFINE n == Len(src)
           a == Size(f, i - 1)
           text == f[n].out
           T == {m \in Nat : Size(f, m) = a + (m - i + 1)}
           h == i - 1
<1>1. n \in Nat /\ i \in 1..n /\ j \in i..n /\ h \in Nat /\ h \in 0..n /\ j \in 0..n /\ h + 1 = i
  BY LenProperties
<1>2. a \in Nat
  BY <1>1, Sizes
<1>3. h \in T
  <2>1. a = a + (h - i + 1)
    BY <1>1, <1>2
  <2> QED BY <1>1, <2>1
<1>4. ASSUME NEW m \in h..(j - 1), m \in T PROVE m + 1 \in T
  <2> DEFINE p == m + 1
  <2>1. p \in i..j /\ p - 1 = m /\ p \in Nat
    BY <1>1
  <2>2. Size(f, m) = a + (m - i + 1)
    BY <1>4
  <2> HIDE DEF p, a
  <2>3. Copies(src, f, p)
    BY <2>1 DEF Copied
  <2>4. Size(f, p) = Size(f, m) + 1
    BY <2>1, <2>3 DEF Copies
  <2>5. Size(f, p) = a + (p - i + 1)
    BY <1>1, <1>2, <2>1, <2>2, <2>4
  <2> QED BY <2>1, <2>5 DEF p, a
<1> HIDE DEF T
<1>5. \A m \in h..j : m \in T
  BY <1>1, <1>3, <1>4, Upward
<1>6. \A m \in h..j : Size(f, m) = a + (m - i + 1)
  BY <1>5 DEF T
<1>7. Size(f, j) <= Size(f, n)
  BY <1>1, WrittenStays
<1> DEFINE d == a + 1 - i
<1>8. d \in Int /\ a + 1 = i + d /\ Size(f, j) = j + d
  BY <1>1, <1>2, <1>6
<1>9. ASSUME NEW k \in i..j PROVE text[k + d] = src[k]
  <2>1. k \in h..j /\ k \in 0..n /\ n \in k..n
    BY <1>1
  <2>2. Size(f, k) = k + d
    BY <1>1, <1>2, <1>6, <2>1
  <2>3. Size(f, k) = Size(f, k - 1) + 1 /\ f[k].out[Size(f, k)] = src[k]
    BY DEF Copied, Copies
  <2>4. Size(f, k) \in 1..Size(f, k)
    <3>1. k - 1 \in 0..n
      BY <1>1
    <3>2. Size(f, k - 1) \in Nat
      BY <3>1, Sizes
    <3> QED BY <2>3, <3>2
  <2>5. f[n].out[Size(f, k)] = f[k].out[Size(f, k)]
    BY <2>1, <2>4, WrittenStays
  <2> QED BY <2>2, <2>3, <2>5
<1>10. Moved(src, i, j, text, a + 1, Size(f, j))
  <2> HIDE DEF d, text, a
  <2> QED BY <1>8, <1>9 DEF Moved
<1>11. Size(f, j) = a + (j - i + 1)
  BY <1>1, <1>6
<1> QED BY <1>7, <1>10, <1>11

(* Each symbol of a token is copied, and after it Compact() is outside of   *)
(* strings again. *)
LEMMA PlainInside ==
  ASSUME NEW src \in Seq(Symbols), NEW f, Presses(src, f), NEW k \in 1..Len(src), Inside(f, k - 1),
         src[k] \notin {Quote, "\\"}
  PROVE  Inside(f, k) /\ Copies(src, f, k)
<1>1. f[k - 1].inString /\ ~ f[k - 1].escaped
  BY DEF Inside
<1>2. /\ f[k].inString = (f[k - 1].escaped \/ src[k] # Quote)
      /\ f[k].escaped = (~ f[k - 1].escaped /\ src[k] = "\\")
      /\ Copies(src, f, k)
  BY <1>1, PressedAt
<1> QED BY <1>1, <1>2 DEF Inside

LEMMA EscapeInside ==
  ASSUME NEW src \in Seq(Symbols), NEW f, Presses(src, f), NEW k \in 1..Len(src), Inside(f, k - 1),
         k + 1 <= Len(src), src[k] = "\\"
  PROVE  Inside(f, k + 1) /\ Copies(src, f, k) /\ Copies(src, f, k + 1)
<1>1. f[k - 1].inString /\ ~ f[k - 1].escaped
  BY DEF Inside
<1>2. f[k].inString /\ f[k].escaped /\ Copies(src, f, k)
  <2>1. "\\" # Quote
    BY Quotes
  <2>2. /\ f[k].inString = (f[k - 1].escaped \/ src[k] # Quote)
        /\ f[k].escaped = (~ f[k - 1].escaped /\ src[k] = "\\")
        /\ Copies(src, f, k)
    BY <1>1, PressedAt
  <2> QED BY <1>1, <2>1, <2>2
<1> DEFINE l == k + 1
<1>3. l \in 1..Len(src) /\ l - 1 = k
  BY LenProperties
<1> HIDE DEF l
<1>4. f[l - 1].inString /\ f[l - 1].escaped
  BY <1>2, <1>3
<1>5. /\ f[l].inString = (f[l - 1].escaped \/ src[l] # Quote)
      /\ f[l].escaped = (~ f[l - 1].escaped /\ src[l] = "\\")
      /\ Copies(src, f, l)
  BY <1>3, <1>4, PressedAt
<1>6. Inside(f, l) /\ Copies(src, f, l)
  BY <1>4, <1>5 DEF Inside
<1> QED BY <1>2, <1>6 DEF l

LEMMA ItemInside ==
  ASSUME NEW src \in Seq(Symbols), NEW f, Presses(src, f), NEW i \in 1..Len(src), NEW j \in Int, j <= Len(src),
         NEW c, IsItem(src, i, j, c), Inside(f, i - 1)
  PROVE  i <= j /\ Inside(f, j) /\ Copied(src, f, i, j)
<1>1. Len(src) \in Nat
  BY LenProperties
<1> DEFINE hex == {"0041", "001F", "000B", "003C", "FFFD", "2028", "D83D", "DE80"}
<1>2. Quote \notin hex /\ "\\" \notin hex
  BY Zenon DEF Quote
<1>3. CASE j = i /\ src[i] = c /\ Plain(c)
  <2>1. src[i] \notin {Quote, "\\"}
    BY <1>3 DEF Plain
  <2>2. Inside(f, i) /\ Copies(src, f, i)
    BY <2>1, PlainInside
  <2> QED BY <1>3, <2>2 DEF Copied
<1>4. CASE j = i + 1 /\ src[i] = "\\"
  <2>1. Inside(f, i + 1) /\ Copies(src, f, i) /\ Copies(src, f, i + 1)
    BY <1>4, EscapeInside
  <2>2. \A k \in i..j : k = i \/ k = i + 1
    BY <1>4
  <2> QED BY <1>4, <2>1, <2>2 DEF Copied
<1>5. ASSUME NEW g \in 1..Len(src), g + 2 <= Len(src), Inside(f, g - 1), src[g] = "\\", src[g + 2] \notin {Quote, "\\"}
      PROVE  Inside(f, g + 2) /\ Copies(src, f, g) /\ Copies(src, f, g + 1) /\ Copies(src, f, g + 2)
  <2>1. Inside(f, g + 1) /\ Copies(src, f, g) /\ Copies(src, f, g + 1)
    <3>1. g + 1 <= Len(src)
      BY <1>1, <1>5
    <3> QED BY <1>5, <3>1, EscapeInside
  <2> DEFINE l == g + 2
  <2>2. l \in 1..Len(src) /\ l - 1 = g + 1 /\ src[l] \notin {Quote, "\\"}
    BY <1>1, <1>5
  <2> HIDE DEF l
  <2>3. Inside(f, l) /\ Copies(src, f, l)
    BY <2>1, <2>2, PlainInside
  <2> QED BY <2>1, <2>3 DEF l
<1>6. CASE j = i + 2 /\ src[i] = "\\" /\ src[i + 1] = "u" /\ <<src[j], c>> \in Hex
  <2>1. src[j] \notin {Quote, "\\"}
    <3>1. src[j] \in hex
      BY <1>6, Pairs
    <3> HIDE DEF hex
    <3> QED BY <1>2, <3>1
  <2>2. Inside(f, i + 2) /\ Copies(src, f, i) /\ Copies(src, f, i + 1) /\ Copies(src, f, i + 2)
    BY <1>5, <1>6, <2>1
  <2>3. \A k \in i..j : k = i \/ k = i + 1 \/ k = i + 2
    BY <1>6
  <2> QED BY <1>6, <2>2, <2>3 DEF Copied
<1>7. CASE /\ j = i + 5 /\ c = "rocket" /\ src[i] = "\\" /\ src[i + 1] = "u" /\ src[i + 2] = "D83D"
           /\ src[i + 3] = "\\" /\ src[i + 4] = "u" /\ src[j] = "DE80"
  <2>1. src[i + 2] \notin {Quote, "\\"} /\ src[j] \notin {Quote, "\\"}
    BY <1>2, <1>7
  <2>2. Inside(f, i + 2) /\ Copies(src, f, i) /\ Copies(src, f, i + 1) /\ Copies(src, f, i + 2)
    <3>1. i + 2 <= Len(src)
      BY <1>1, <1>7
    <3> QED BY <1>5, <1>7, <2>1, <3>1
  <2> DEFINE g == i + 3
  <2>3. g \in 1..Len(src) /\ g - 1 = i + 2 /\ g + 2 = j /\ src[g] = "\\" /\ g + 1 = i + 4
    BY <1>1, <1>7
  <2> HIDE DEF g
  <2>4. Inside(f, g + 2) /\ Copies(src, f, g) /\ Copies(src, f, g + 1) /\ Copies(src, f, g + 2)
    BY <1>5, <2>1, <2>2, <2>3
  <2>5. \A k \in i..j : k = i \/ k = i + 1 \/ k = i + 2 \/ k = g \/ k = g + 1 \/ k = g + 2
    BY <1>7 DEF g
  <2> QED BY <1>7, <2>2, <2>3, <2>4, <2>5 DEF Copied
<1> QED BY <1>3, <1>4, <1>6, <1>7 DEF IsItem

LEMMA TextInside ==
  ASSUME NEW src \in Seq(Symbols), NEW f, Presses(src, f), NEW i \in 1..Len(src), NEW j \in 1..Len(src),
         NEW held \in Seq(Symbols), Means(src, i, j - 1, held), Inside(f, i - 1)
  PROVE  i <= j /\ Inside(f, j - 1) /\ Copied(src, f, i, j - 1)
<1> DEFINE n == Len(held)
<1>1. n \in Nat /\ Len(src) \in Nat
  BY LenProperties
<1>2. PICK begins \in [1..(n + 1) -> i..(j - 1 + 1)] :
        /\ begins[1] = i /\ begins[n + 1] = j - 1 + 1
        /\ \A k \in 1..n : IsItem(src, begins[k], begins[k + 1] - 1, held[k])
  BY DEF Means
<1> HIDE DEF n
<1>3. \A k \in 1..(n + 1) : begins[k] \in i..j
  BY <1>2
<1> DEFINE T == {k \in Nat : Inside(f, begins[k] - 1) /\ Copied(src, f, i, begins[k] - 1)}
<1>4. 1 \in T
  BY <1>2 DEF Copied
<1>5. ASSUME NEW k \in 1..n, k \in T PROVE k + 1 \in T
  <2> DEFINE v == begins[k]
             w == begins[k + 1] - 1
  <2>1. v \in i..j /\ w \in Int /\ w <= j - 1 /\ IsItem(src, v, w, held[k])
    <3>1. k \in 1..(n + 1) /\ k + 1 \in 1..(n + 1)
      BY <1>1
    <3>2. begins[k + 1] \in i..j
      BY <1>3, <3>1
    <3> QED BY <1>2, <1>3, <3>1, <3>2
  <2>2. Inside(f, v - 1) /\ Copied(src, f, i, v - 1)
    BY <1>5
  <2> HIDE DEF T, v, w
  <2>3. v <= w /\ Inside(f, w) /\ Copied(src, f, v, w)
    <3>1. v \in 1..Len(src) /\ w <= Len(src)
      BY <1>1, <2>1
    <3> QED BY <2>1, <2>2, <3>1, ItemInside
  <2>4. Copied(src, f, i, w)
    <3>1. \A l \in i..w : l \in i..(v - 1) \/ l \in v..w
      BY <2>1
    <3> QED BY <2>2, <2>3, <3>1 DEF Copied
  <2> QED BY <2>3, <2>4 DEF T, w
<1> HIDE DEF T
<1>6. \A k \in 1..(n + 1) : k \in T
  <2> DEFINE m == n + 1
  <2>1. m \in Nat /\ m - 1 = n
    BY <1>1
  <2> HIDE DEF m
  <2>2. \A k \in 1..m : k \in T
    BY <1>4, <1>5, <2>1, Upward
  <2> QED BY <2>2 DEF m
<1>7. begins[n + 1] - 1 = j - 1 /\ n + 1 \in 1..(n + 1)
  BY <1>1, <1>2
<1>8. Inside(f, begins[n + 1] - 1) /\ Copied(src, f, i, begins[n + 1] - 1)
  BY <1>6, <1>7 DEF T
<1>9. i <= j
  BY <1>3, <1>7
<1> QED BY <1>7, <1>8, <1>9

LEMMA OneOutside ==
  ASSUME NEW src \in Seq(Symbols), NEW f, Presses(src, f), NEW k \in 1..Len(src), Outside(f, k - 1), src[k] # Quote
  PROVE  /\ Outside(f, k)
         /\ src[k] \notin White => Copies(src, f, k)
         /\ src[k] \in White => Size(f, k) = Size(f, k - 1)
<1>1. ~ f[k - 1].inString /\ ~ f[k - 1].escaped
  BY DEF Outside
<1>2. /\ f[k].inString = (src[k] = Quote) /\ f[k].escaped = f[k - 1].escaped
      /\ src[k] \notin White => Copies(src, f, k)
      /\ src[k] \in White => f[k].out = f[k - 1].out
  BY <1>1, PressedAt
<1> QED BY <1>1, <1>2 DEF Outside, Size

LEMMA GapDropped ==
  ASSUME NEW src \in Seq(Symbols), NEW f, Presses(src, f), NEW i \in 1..(Len(src) + 1), NEW j \in i..(Len(src) + 1),
         \A k \in i..(j - 1) : src[k] \in White, Outside(f, i - 1)
  PROVE  Outside(f, j - 1) /\ Size(f, j - 1) = Size(f, i - 1)
<1> DEFINE a == i - 1
           b == j - 1
           T == {k \in Nat : Outside(f, k) /\ Size(f, k) = Size(f, a)}
<1>1. Len(src) \in Nat /\ a \in Nat /\ b \in a..Len(src)
  BY LenProperties
<1>2. a \in T
  BY <1>1
<1>3. ASSUME NEW k \in a..(b - 1), k \in T PROVE k + 1 \in T
  <2> DEFINE l == k + 1
  <2>1. l \in 1..Len(src) /\ l - 1 = k /\ l \in i..(j - 1) /\ l \in Nat
    BY <1>1
  <2>2. Outside(f, k) /\ Size(f, k) = Size(f, a)
    BY <1>3
  <2> HIDE DEF l, a
  <2>3. src[l] \in White /\ src[l] # Quote
    <3>1. Quote \notin White
      BY Zenon DEF Quote, White
    <3> QED BY <2>1, <3>1
  <2>4. Outside(f, l) /\ Size(f, l) = Size(f, k)
    BY <2>1, <2>2, <2>3, OneOutside
  <2> QED BY <2>1, <2>2, <2>4 DEF l
<1> HIDE DEF T
<1>4. \A k \in a..b : k \in T
  <2>1. a \in Nat /\ b \in Nat
    BY <1>1
  <2> HIDE DEF a, b
  <2> QED BY <1>2, <1>3, <2>1, Upward
<1> QED BY <1>1, <1>4 DEF T

LEMMA RunCopied ==
  ASSUME NEW src \in Seq(Symbols), NEW f, Presses(src, f), NEW i \in 1..Len(src), NEW j \in i..Len(src),
         \A k \in i..j : src[k] \notin White \cup {Quote}, Outside(f, i - 1)
  PROVE  Copied(src, f, i, j) /\ Outside(f, j)
<1> DEFINE a == i - 1
           T == {k \in Nat : Outside(f, k)}
<1>1. Len(src) \in Nat /\ a \in Nat /\ j \in a..Len(src) /\ a + 1 = i
  BY LenProperties
<1>2. a \in T
  BY <1>1
<1>3. ASSUME NEW k \in a..(j - 1), k \in T PROVE k + 1 \in T /\ Copies(src, f, k + 1)
  <2> DEFINE l == k + 1
  <2>1. l \in 1..Len(src) /\ l - 1 = k /\ l \in i..j /\ l \in Nat
    BY <1>1
  <2> HIDE DEF l, a
  <2>2. Outside(f, l) /\ Copies(src, f, l)
    BY <1>3, <2>1, OneOutside
  <2> QED BY <2>1, <2>2 DEF l
<1> HIDE DEF T
<1>4. \A k \in a..j : k \in T
  <2>1. a \in Nat /\ j \in Nat
    BY <1>1
  <2> HIDE DEF a
  <2> QED BY <1>2, <1>3, <2>1, Upward
<1>5. ASSUME NEW k \in i..j PROVE Copies(src, f, k)
  <2> DEFINE l == k - 1
  <2>1. l \in a..(j - 1) /\ l \in a..j /\ l + 1 = k
    BY <1>1
  <2> HIDE DEF l, a
  <2> QED BY <1>3, <1>4, <2>1
<1> QED BY <1>1, <1>4, <1>5 DEF Copied, T

LEMMA TokenCopied ==
  ASSUME NEW src \in Seq(Symbols), NEW f, Presses(src, f), NEW t, IsToken(src, t), 1 <= t.from, Outside(f, t.from - 1)
  PROVE  Copied(src, f, t.from, t.to) /\ Outside(f, t.to)
<1> DEFINE i == t.from
           j == t.to
<1>1. i \in 1..Len(src) /\ j \in i..Len(src) /\ Len(src) \in Nat
  BY LenProperties DEF IsToken
<1>2. CASE \A k \in i..j : src[k] \notin White \cup {Quote}
  BY <1>1, <1>2, RunCopied
<1>3. CASE t.kind \in Punctuation \cup Literals
  <2>1. i = j /\ src[i] \in Punctuation \cup Literals
    BY <1>3 DEF IsToken
  <2>2. (Punctuation \cup Literals) \cap White = {}
    BY DEF Punctuation, Literals, White
  <2> QED BY <1>1, <1>2, <2>1, <2>2, Kinds
<1>4. CASE t.kind = "number"
  <2>1. IsNumber(src, i, j) /\ i \in Nat /\ j \in Nat
    BY <1>1, <1>4 DEF IsToken, Longest
  <2>2. \A k \in i..j : src[k] \in Digits \cup {"-", "+", ".", "e"}
    BY <2>1, NumberSymbols
  <2>3. /\ (Digits \cup {"-", "+", ".", "e"}) \cap White = {}
        /\ Quote \notin Digits \cup {"-", "+", ".", "e"}
    BY Zenon DEF Digits, White, Quote
  <2> QED BY <1>2, <2>2, <2>3
<1>5. CASE t.kind = "string"
  <2>1. /\ i < j /\ src[i] = Quote /\ src[j] = Quote
        /\ Means(src, i + 1, j - 1, t.data) /\ t.data \in Seq(Symbols)
    BY <1>5 DEF IsToken
  <2>2. ~ f[i - 1].inString /\ ~ f[i - 1].escaped
    BY DEF Outside
  <2>3. Inside(f, i) /\ Copies(src, f, i)
    <3>1. Quote \notin White
      BY Zenon DEF Quote, White
    <3>2. /\ f[i].inString = (src[i] = Quote) /\ f[i].escaped = f[i - 1].escaped
          /\ src[i] \notin White => Copies(src, f, i)
      BY <1>1, <2>2, PressedAt
    <3> QED BY <2>1, <2>2, <3>1, <3>2 DEF Inside
  <2> HIDE DEF i, j
  <2> DEFINE g == i + 1
  <2>4. g \in 1..Len(src) /\ j \in 1..Len(src) /\ g - 1 = i
    BY <1>1, <2>1
  <2> HIDE DEF g
  <2>5. Inside(f, j - 1) /\ Copied(src, f, g, j - 1)
    <3>1. Means(src, g, j - 1, t.data) /\ Inside(f, g - 1)
      BY <2>1, <2>3, <2>4 DEF g
    <3> QED BY <2>1, <2>4, <3>1, TextInside
  <2>6. Outside(f, j) /\ Copies(src, f, j)
    <3>1. f[j - 1].inString /\ ~ f[j - 1].escaped
      BY <2>5 DEF Inside
    <3>2. /\ f[j].inString = (f[j - 1].escaped \/ src[j] # Quote)
          /\ f[j].escaped = (~ f[j - 1].escaped /\ src[j] = "\\")
          /\ Copies(src, f, j)
      BY <2>4, <3>1, PressedAt
    <3>3. Quote # "\\"
      BY Quotes
    <3> QED BY <2>1, <3>1, <3>2, <3>3 DEF Outside
  <2>7. Copied(src, f, i, j)
    <3>1. \A k \in i..j : k = i \/ k \in g..(j - 1) \/ k = j
      BY <1>1 DEF g
    <3> QED BY <2>3, <2>5, <2>6, <3>1 DEF Copied
  <2> QED BY <2>6, <2>7 DEF i, j
<1> QED BY <1>3, <1>4, <1>5 DEF IsToken

(* A token that stands in another text is read from it, if no symbol of a   *)
(* number follows a number.                                                 *)
Follows(text, t, y) ==
  t.kind = "number" => y = Len(text) \/ text[y + 1] \notin Digits \cup {"-", "+", ".", "e"}

LEMMA TokenBegins ==
  ASSUME NEW data \in Seq(Symbols), NEW t, IsToken(data, t)
  PROVE  data[t.from] \in Punctuation \cup Literals \cup Digits \cup {"-", Quote}
<1>1. CASE t.kind \in Punctuation \cup Literals
  BY <1>1 DEF IsToken
<1>2. CASE t.kind = "number"
  <2>1. IsNumber(data, t.from, t.to) /\ t.from \in Nat /\ t.to \in Nat
    BY <1>2, LenProperties DEF IsToken, Longest
  <2> QED BY <2>1, NumberSymbols
<1>3. CASE t.kind = "string"
  BY <1>3 DEF IsToken
<1> QED BY <1>1, <1>2, <1>3 DEF IsToken

(* A scan that starts at the first symbol of a token is at it.              *)
LEMMA ScanHere ==
  ASSUME NEW text \in Seq(Symbols), NEW f, Walks(text, f), NEW s, Placed(text, f, s), s.i <= Len(text),
         text[s.i] \in Punctuation \cup Literals \cup Digits \cup {"-", Quote}
  PROVE  LET v == Next(text, s) IN
         /\ Yields(text, s.i, v)
         /\ v.kind # "error" => Placed(text, f, v.end)
<1> DEFINE v == Next(text, s)
           x == s.i
<1>1. x \in Nat /\ x \in 1..Len(text) /\ Len(text) \in Nat
  BY PlacedHere, LenProperties
<1>2. PICK k \in x..(Len(text) + 1) : NextAt(text, f, s, k, v)
  BY NextTells
<1> HIDE DEF v
<1>3. Gap(text, x, k - 1) /\ NoBlank(text, k) /\ Yields(text, k, v)
  BY <1>2 DEF NextAt
<1>4. NoBlank(text, x)
  <2> SUFFICES ASSUME NEW j \in x..Len(text), Blank(text, x, j) PROVE FALSE
    BY DEF NoBlank
  <2>1. j \in Int /\ x \in Int
    BY <1>1
  <2>2. text[x] \in White \cup {"/"}
    BY <2>1, BlankBegins
  <2>3. (Punctuation \cup Literals \cup Digits \cup {"-"}) \cap White = {} /\ Quote \notin White
    <3>1. (Punctuation \cup Literals \cup Digits \cup {"-"}) \cap White = {}
      BY DEF Punctuation, Literals, Digits, White
    <3>2. Quote \notin White
      BY Zenon DEF Quote, White
    <3> QED BY <3>1, <3>2
  <2> QED BY <2>2, <2>3, Kinds
<1> HIDE DEF x
<1>5. k = x
  <2>1. Gap(text, x, x - 1)
    BY <1>1, GapNone
  <2>2. k \in 1..(Len(text) + 1) /\ x \in 1..(Len(text) + 1)
    BY <1>1
  <2> QED BY <1>1, <1>3, <1>4, <2>1, <2>2, GapIsOne
<1>6. Smooth(text, x, k - 1)
  BY <1>1, <1>5 DEF Smooth
<1>7. v.kind # "error" => Placed(text, f, v.end)
  BY <1>2, <1>6 DEF NextAt, x
<1> QED BY <1>3, <1>5, <1>7 DEF v, x

LEMMA SameToken ==
  ASSUME NEW data \in Seq(Symbols), NEW t, IsToken(data, t), NEW text \in Seq(Symbols), NEW f, Walks(text, f),
         NEW s, Placed(text, f, s), NEW y \in s.i..Len(text),
         Moved(data, t.from, t.to, text, s.i, y), Follows(text, t, y)
  PROVE  LET v == Next(text, s) IN
         v.kind = t.kind /\ v.data = t.data /\ v.from = s.i /\ Placed(text, f, v.end) /\ v.end.i = y + 1
<1> DEFINE v == Next(text, s)
           x == s.i
           i == t.from
           j == t.to
<1>1. /\ x \in Nat /\ x \in 1..Len(text) /\ Len(text) \in Nat /\ y \in Nat /\ y \in x..Len(text)
      /\ i \in Nat /\ j \in Nat /\ i <= j
  BY PlacedHere, LenProperties DEF IsToken
<1>2. PICK d \in Int : x = i + d /\ y = j + d /\ \A k \in i..j : text[k + d] = data[k]
  BY DEF Moved
<1>3. text[x] = data[i] /\ text[y] = data[j]
  <2> HIDE DEF x, i, j
  <2>1. i \in i..j /\ j \in i..j
    BY <1>1
  <2>2. text[i + d] = data[i] /\ text[j + d] = data[j]
    BY <1>2, <2>1
  <2> QED BY <1>2, <2>2
<1>4. Yields(text, x, v) /\ (v.kind # "error" => Placed(text, f, v.end))
  <2>1. text[s.i] \in Punctuation \cup Literals \cup Digits \cup {"-", Quote}
    BY <1>3, TokenBegins
  <2> QED BY <1>1, <2>1, ScanHere
<1>5. \/ /\ v.kind \notin {"EOF", "error"} /\ v.from = x /\ v.end.i = v.to + 1 /\ IsToken(text, v)
      \/ v.kind = "error" /\ NoToken(text, x, v.code)
  BY <1>1, <1>4 DEF Yields
<1> HIDE DEF v, x, i, j
<1>6. ASSUME v.kind # "error", v.kind = t.kind, v.data = t.data, v.to = y
      PROVE  v.kind = t.kind /\ v.data = t.data /\ v.from = s.i /\ Placed(text, f, v.end) /\ v.end.i = y + 1
  BY <1>4, <1>5, <1>6 DEF x
<1>7. CASE t.kind \in Punctuation \cup Literals
  <2>1. /\ i = j /\ data[i] = t.kind /\ x = y
        /\ t.data = IF t.kind \in Literals THEN <<t.kind>> ELSE <<>>
    BY <1>1, <1>2, <1>7 DEF IsToken, i, j
  <2>2. v.kind # "error"
    BY <1>3, <1>5, <1>7, <2>1 DEF NoToken
  <2>3. IsToken(text, v) /\ v.from = x
    BY <1>5, <2>2
  <2>4. v.kind \notin {"string", "number"}
    <3>1. text[x] \notin Digits \cup {"-", Quote}
      BY <1>3, <1>7, <2>1, Kinds
    <3>2. CASE v.kind = "string"
      BY <2>3, <3>1, <3>2 DEF IsToken
    <3>3. CASE v.kind = "number"
      <4>1. IsNumber(text, x, v.to) /\ v.to \in Nat
        BY <1>1, <2>3, <3>3 DEF IsToken, Longest
      <4> QED BY <1>1, <3>1, <4>1, NumberSymbols
    <3> QED BY <3>2, <3>3
  <2>5. v.kind \in Punctuation \cup Literals
    BY <2>3, <2>4 DEF IsToken
  <2>6. v.to = x /\ v.kind = text[x] /\ v.data = IF v.kind \in Literals THEN <<v.kind>> ELSE <<>>
    BY <2>3, <2>5 DEF IsToken
  <2>7. v.kind = t.kind /\ v.data = t.data /\ v.to = y
    BY <1>3, <2>1, <2>6
  <2> QED BY <1>6, <2>2, <2>7 DEF v
<1>8. CASE t.kind = "number"
  <2>1. IsNumber(data, i, j) /\ t.data = SubSeq(data, i, j)
    BY <1>8 DEF IsToken, Longest, i, j
  <2>2. IsNumber(text, x, y)
    <3>1. Moved(data, i, j, text, x, y)
      BY DEF x, i, j
    <3> QED BY <1>1, <2>1, <3>1, NumberElsewhere
  <2>3. ASSUME y # Len(text) PROVE text[y + 1] \notin Digits \cup {"-", "+", ".", "e"} /\ y + 1 \in Nat
    BY <1>1, <1>8, <2>3 DEF Follows
  <2>4. Longest(text, x, y) /\ ~ Continued(text, x, y)
    <3>1. ASSUME NEW k \in (y + 1)..Len(text), IsNumber(text, x, k) PROVE FALSE
      <4>1. k \in Nat /\ y + 1 \in x..k /\ y # Len(text)
        BY <1>1
      <4>2. text[y + 1] \in Digits \cup {"-", "+", ".", "e"}
        BY <1>1, <3>1, <4>1, NumberSymbols
      <4> QED BY <2>3, <4>1, <4>2
    <3>2. ~ Continued(text, x, y)
      BY <1>1, <2>3 DEF Continued
    <3> QED BY <2>2, <3>1, <3>2 DEF Longest
  <2>5. v.kind # "error"
    BY <1>1, <1>5, <2>4 DEF NoToken, Cut
  <2>6. IsToken(text, v) /\ v.from = x
    BY <1>5, <2>5
  <2>7. text[x] \in Digits \cup {"-"}
    BY <1>1, <2>2, NumberSymbols
  <2>8. v.kind = "number"
    <3>1. v.kind \notin Punctuation \cup Literals
      BY <2>6, <2>7, Kinds DEF IsToken
    <3>2. v.kind # "string"
      BY <2>6, <2>7, Kinds DEF IsToken
    <3> QED BY <2>6, <3>1, <3>2 DEF IsToken
  <2>9. /\ v.to \in x..Len(text) /\ IsNumber(text, x, v.to) /\ \A k \in (v.to + 1)..Len(text) : ~ IsNumber(text, x, k)
        /\ v.data = SubSeq(text, x, v.to)
    BY <2>6, <2>8 DEF IsToken, Longest
  <2>10. v.to = y
    <3> DEFINE z == v.to
    <3>1. z \in x..Len(text) /\ IsNumber(text, x, z) /\ \A k \in (z + 1)..Len(text) : ~ IsNumber(text, x, k)
      BY <2>9
    <3> HIDE DEF z
    <3>2. ~ z < y
      BY <1>1, <2>2, <3>1
    <3>3. ~ y < z
      BY <1>1, <2>4, <3>1 DEF Longest
    <3>4. z = y
      BY <1>1, <3>1, <3>2, <3>3
    <3> QED BY <3>4 DEF z
  <2>11. SubSeq(text, x, y) = SubSeq(data, i, j)
    <3>1. SubSeq(text, x, y) = [k \in 1..(y - x + 1) |-> text[x + k - 1]]
      BY <1>1 DEF SubSeq
    <3>2. SubSeq(data, i, j) = [k \in 1..(j - i + 1) |-> data[i + k - 1]]
      BY <1>1 DEF SubSeq
    <3>3. y - x + 1 = j - i + 1
      BY <1>1, <1>2
    <3>4. ASSUME NEW k \in 1..(j - i + 1) PROVE text[x + k - 1] = data[i + k - 1]
      <4> DEFINE l == i + k - 1
      <4>1. l \in i..j /\ l + d = x + k - 1
        BY <1>1, <1>2
      <4> HIDE DEF l
      <4>2. text[l + d] = data[l]
        BY <1>2, <4>1
      <4> QED BY <4>1, <4>2 DEF l
    <3> QED BY <3>1, <3>2, <3>3, <3>4
  <2>12. v.kind = t.kind /\ v.data = t.data
    BY <1>8, <2>1, <2>8, <2>9, <2>10, <2>11
  <2> QED BY <1>6, <2>5, <2>10, <2>12 DEF v
<1>9. CASE t.kind = "string"
  <2>1. /\ i < j /\ data[i] = Quote /\ data[j] = Quote
        /\ Means(data, i + 1, j - 1, t.data) /\ t.data \in Seq(Symbols)
    BY <1>9 DEF IsToken, i, j
  <2>2. text[x] = Quote /\ text[y] = Quote /\ x < y
    BY <1>1, <1>2, <1>3, <2>1
  <2>3. Means(text, x + 1, y - 1, t.data)
    <3> DEFINE a == i + 1
               b == j - 1
               p == x + 1
               q == y - 1
    <3>1. a \in Nat /\ b \in Int /\ Means(data, a, b, t.data)
      BY <1>1, <2>1
    <3>2. p = a + d /\ q = b + d /\ \A k \in a..b : text[k + d] = data[k]
      BY <1>1, <1>2
    <3> HIDE DEF a, b, p, q
    <3>3. Moved(data, a, b, text, p, q)
      BY <3>2 DEF Moved
    <3>4. Means(text, p, q, t.data)
      BY <2>1, <3>1, <3>3, MeansElsewhere
    <3> QED BY <3>4 DEF p, q
  <2>4. x + 1 \in Nat /\ 1 <= x + 1 /\ y - 1 \in Int /\ y - 1 <= Len(text) /\ y \in (x + 1)..Len(text)
    BY <1>1, <2>2
  <2>5. IsText(text, x + 1, y - 1)
    BY <1>1, <2>1, <2>3, <2>4, MeansText
  <2>6. v.kind # "error"
    <3> SUFFICES ASSUME NoToken(text, x, v.code) PROVE FALSE
      BY <1>5
    <3> QED BY <2>2, <2>4, <2>5 DEF NoToken
  <2>7. IsToken(text, v) /\ v.from = x
    BY <1>5, <2>6
  <2>8. v.kind = "string"
    <3>1. v.kind \notin Punctuation \cup Literals
      BY <2>2, <2>7, Kinds DEF IsToken
    <3>2. v.kind # "number"
      <4> SUFFICES ASSUME v.kind = "number" PROVE FALSE
        OBVIOUS
      <4>1. IsNumber(text, x, v.to) /\ v.to \in Nat
        BY <1>1, <2>7 DEF IsToken, Longest
      <4> QED BY <1>1, <2>2, <4>1, QuotesAlone
    <3> QED BY <2>7, <3>1, <3>2 DEF IsToken
  <2>9. v.to = y /\ v.data = t.data
    <3> DEFINE z == v.to
               g == v.data
               h == t.data
               p == x + 1
    <3>1. z \in Nat /\ text[z] = Quote /\ Means(text, p, z - 1, g) /\ g \in Seq(Symbols)
      BY <1>1, <2>7, <2>8 DEF IsToken
    <3>2. p \in Nat /\ Means(text, p, y - 1, h) /\ h \in Seq(Symbols) /\ text[y] = Quote
      BY <2>1, <2>2, <2>3, <2>4
    <3> HIDE DEF z, g, h, p
    <3>3. z = y /\ g = h
      BY <1>1, <3>1, <3>2, MeansIsOne
    <3> QED BY <3>3 DEF z, g, h
  <2> QED BY <1>6, <1>9, <2>6, <2>8, <2>9 DEF v
<1> QED BY <1>7, <1>8, <1>9 DEF IsToken

(* Reading tokens again, one after the other. *)
RereadStates(text, w) == [ok : BOOLEAN, at : {s \in [i : 1..(Len(text) + 1), pos : Positions] : Placed(text, w, s)}]

RereadSteps(text, ts, g) ==
  /\ g[0] = RereadBegin
  /\ \A k \in 1..Len(ts) : g[k] = Reread(text, g[k - 1], ts[k])

LEMMA RereadOne ==
  ASSUME NEW text \in Seq(Symbols), NEW w, Walks(text, w), NEW r \in RereadStates(text, w),
         NEW t, t.kind \notin {"EOF", "error"}
  PROVE  Reread(text, r, t) \in RereadStates(text, w)
<1> DEFINE s == r.at
           u == Next(text, s)
<1>1. r.ok \in BOOLEAN /\ Placed(text, w, s) /\ s \in [i : 1..(Len(text) + 1), pos : Positions]
  BY DEF RereadStates
<1>2. PICK k \in s.i..(Len(text) + 1) : NextAt(text, w, s, k, u)
  BY <1>1, NextTells
<1>3. Reread(text, r, t) = IF r.ok /\ u.kind = t.kind /\ u.data = t.data /\ u.from = s.i
                           THEN [ok |-> TRUE, at |-> u.end] ELSE [ok |-> FALSE, at |-> s]
  BY DEF Reread, HasRead
<1> HIDE DEF u, s
<1>4. ASSUME u.kind = t.kind, u.from = s.i PROVE Placed(text, w, u.end)
  <2>1. u.from = k
    BY <1>2, <1>4 DEF NextAt, Yields
  <2>2. s.i \in Nat
    BY <1>1, PlacedHere
  <2>3. Smooth(text, s.i, k - 1)
    BY <1>4, <2>1, <2>2 DEF Smooth
  <2> QED BY <1>2, <1>4, <2>3 DEF NextAt
<1>5. \A z : Placed(text, w, z) => z \in {y \in [i : 1..(Len(text) + 1), pos : Positions] : Placed(text, w, y)}
  BY DEF Placed
<1>6. CASE r.ok /\ u.kind = t.kind /\ u.data = t.data /\ u.from = s.i
  BY <1>3, <1>4, <1>5, <1>6 DEF RereadStates
<1>7. CASE ~ (r.ok /\ u.kind = t.kind /\ u.data = t.data /\ u.from = s.i)
  BY <1>1, <1>3, <1>5, <1>7 DEF RereadStates
<1> QED BY <1>6, <1>7

LEMMA FoldOfRereads ==
  ASSUME NEW text \in Seq(Symbols), NEW S, NEW ts \in Seq(S), \A k \in 1..Len(ts) : ts[k].kind \notin {"EOF", "error"}
  PROVE  \E g : /\ RereadSteps(text, ts, g)
                /\ Rereads(text, ts) <=> g[Len(ts)].ok /\ g[Len(ts)].at.i = Len(text) + 1
<1> PICK w : Walks(text, w)
  BY WalkExists
<1> DEFINE n == Len(ts)
           V == RereadStates(text, w)
           D == SUBSET (1..n)
           comb == [k \in 1..n |-> [r \in V |-> Reread(text, r, ts[k])]]
           Body(f) == [s \in D |-> IF s = {} THEN RereadBegin ELSE Reread(text, f[s \ {Max(s)}], ts[Max(s)])]
           iter == CHOOSE f : f = Body(f)
           states == [k \in 0..n |-> iter[1..k]]
<1>1. n \in Nat /\ DOMAIN ts = 1..n
  BY LenProperties
<1>2. Rereads(text, ts) <=> iter[1..n].ok /\ iter[1..n].at.i = Len(text) + 1
  BY <1>1 DEF Rereads, AtTheEnd, FoldLeft, MapThenFoldSet
<1> HIDE DEF n
<1>3. comb \in [1..n -> [V -> V]] /\ RereadBegin \in V
  <2>1. \A k \in 1..n : \A r \in V : Reread(text, r, ts[k]) \in V
    BY RereadOne DEF n
  <2>2. RereadBegin \in V
    <3>1. Len(text) \in Nat /\ w[1] = StartPosition /\ StartPosition \in Positions
      BY LenProperties DEF Walks, StartPosition, Positions
    <3>2. Placed(text, w, Start) /\ Start \in [i : 1..(Len(text) + 1), pos : Positions]
      BY <3>1 DEF Placed, Begun, Even, Start
    <3> QED BY <3>2 DEF RereadBegin, RereadStates
  <2> HIDE DEF V
  <2> QED BY <2>1, <2>2
<1> HIDE DEF V
<1>4. PICK g \in [D -> V] : \A s \in D : g[s] = IF s = {} THEN RereadBegin ELSE comb[Max(s)][g[s \ {Max(s)}]]
  <2> HIDE DEF comb
  <2>1. FoldsTo(n, V, RereadBegin, comb)
    BY <1>1, <1>3, FoldsEnd
  <2> QED BY <2>1 DEF FoldsTo
<1>5. ASSUME NEW s \in D PROVE g[s] = IF s = {} THEN RereadBegin ELSE Reread(text, g[s \ {Max(s)}], ts[Max(s)])
  <2>1. CASE s = {}
    BY <1>4, <2>1
  <2>2. CASE s # {}
    <3> DEFINE m == Max(s)
               v == g[s \ {m}]
    <3>1. m \in 1..n
      BY <1>1, <2>2, MaxIsIn
    <3>2. v \in V
      OBVIOUS
    <3>3. g[s] = comb[m][v]
      BY <1>4, <2>2
    <3> HIDE DEF m, v
    <3>4. comb[m][v] = Reread(text, v, ts[m])
      BY <3>1, <3>2
    <3> QED BY <2>2, <3>3, <3>4 DEF m, v
  <2> QED BY <2>1, <2>2
<1>6. g = Body(g)
  <2> HIDE DEF D
  <2> QED BY <1>5
<1>7. iter = Body(iter)
  <2> HIDE DEF Body
  <2> QED BY <1>6
<1>8. \A s \in D : iter[s] = IF s = {} THEN RereadBegin ELSE Reread(text, iter[s \ {Max(s)}], ts[Max(s)])
  <2> HIDE DEF iter, D
  <2> QED BY <1>7
<1> HIDE DEF iter
<1>9. states[0] = RereadBegin
  <2>1. 1..0 = {} /\ 1..0 \in D /\ states[0] = iter[1..0]
    BY <1>1
  <2> QED BY <1>8, <2>1
<1>10. ASSUME NEW k \in 1..n PROVE states[k] = Reread(text, states[k - 1], ts[k])
  <2>1. k \in Nat \ {0} /\ k - 1 \in 0..n /\ k \in 0..n
    BY <1>1
  <2>2. states[k] = iter[1..k] /\ states[k - 1] = iter[1..(k - 1)]
    BY <2>1
  <2>3. Max(1..k) = k /\ (1..k) \ {k} = 1..(k - 1) /\ 1..k # {}
    BY <2>1, MaxIsLast
  <2>4. 1..k \in D
    BY <1>1
  <2> HIDE DEF states, D
  <2> QED BY <1>8, <2>2, <2>3, <2>4
<1>11. states[n] = iter[1..n]
  BY <1>1
<1> HIDE DEF states
<1>12. RereadSteps(text, ts, states)
  BY <1>9, <1>10 DEF RereadSteps, n
<1> QED BY <1>2, <1>11, <1>12 DEF n

(* Compact() over the tokens of the input. *)
LEMMA Compacting ==
  ASSUME NEW n \in Nat, Reading(n), input \in Seq(Symbols), Len(tokens) \in Nat, n # Len(tokens), err.kind = "none",
         NoComments, NEW f, Presses(input, f)
  PROVE  /\ \A k \in 1..n : /\ tokens[k].from \in 1..Len(input)
                            /\ Size(f, tokens[k].from - 1) = Size(f, Resume(k) - 1)
                            /\ Copied(input, f, tokens[k].from, tokens[k].to)
         /\ Size(f, Len(input)) = Size(f, Resume(n + 1) - 1)
         /\ Size(f, Resume(1) - 1) = 0
<1> DEFINE l == Len(input)
           T == {k \in Nat : Outside(f, Resume(k) - 1)}
<1>1. l \in Nat
  BY LenProperties
<1>2. Scanned = 1..n /\ Rest = Resume(n + 1)
  BY ScannedSoFar
<1>3. \A k \in 1..n : IsToken(input, tokens[k]) /\ Gap(input, Resume(k), tokens[k].from - 1)
  BY DEF Reading
<1>4. \A k \in 1..(n + 1) : Resume(k) \in Nat \ {0}
  BY <1>1, ResumeIsNat
<1>5. ASSUME NEW k \in 1..n, Outside(f, Resume(k) - 1)
      PROVE  /\ tokens[k].from \in 1..l /\ Size(f, tokens[k].from - 1) = Size(f, Resume(k) - 1)
             /\ Copied(input, f, tokens[k].from, tokens[k].to)
             /\ Outside(f, Resume(k + 1) - 1)
  <2> DEFINE t == tokens[k]
             i == Resume(k)
             j == t.from
  <2>1. IsToken(input, t) /\ Gap(input, i, j - 1) /\ i \in Nat \ {0}
    BY <1>2, <1>3, <1>4
  <2>2. j \in Nat /\ t.to \in j..l
    BY <2>1 DEF IsToken
  <2>3. \A x \in i..(j - 1) : input[x] # "/"
    BY <1>2 DEF NoComments, NoSlash
  <2>4. Resume(k + 1) - 1 = t.to
    <3>1. k + 1 # 1 /\ k + 1 - 1 = k
      OBVIOUS
    <3>2. Resume(k + 1) = t.to + 1
      BY <3>1 DEF Resume
    <3> QED BY <2>2, <3>2
  <2> HIDE DEF t, i, j
  <2>5. i <= j /\ \A x \in i..(j - 1) : input[x] \in White
    BY <2>1, <2>2, <2>3, WhiteGap
  <2>6. i \in 1..(l + 1) /\ j \in i..(l + 1) /\ j \in 1..l
    BY <1>1, <2>1, <2>2, <2>5
  <2>7. Outside(f, i - 1)
    BY <1>5 DEF i
  <2>8. Outside(f, j - 1) /\ Size(f, j - 1) = Size(f, i - 1)
    BY <2>5, <2>6, <2>7, GapDropped
  <2>9. Copied(input, f, j, t.to) /\ Outside(f, t.to)
    <3>1. 1 <= t.from /\ Outside(f, t.from - 1)
      BY <2>6, <2>8 DEF j
    <3> QED BY <2>1, <3>1, TokenCopied DEF j
  <2> QED BY <2>4, <2>6, <2>8, <2>9 DEF t, i, j
<1>6. Resume(1) - 1 = 0 /\ Outside(f, 0) /\ Size(f, 0) = 0
  <2>1. Resume(1) - 1 = 0
    BY DEF Resume
  <2>2. f[0] = CompactBegin
    BY DEF Presses
  <2>3. Len(<<>>) = 0
    OBVIOUS
  <2> QED BY <2>1, <2>2, <2>3 DEF Outside, Size, CompactBegin
<1>7. \A k \in 1..(n + 1) : Outside(f, Resume(k) - 1)
  <2> DEFINE b == n + 1
  <2>1. 1 \in T
    BY <1>6
  <2>2. \A k \in 1..n : k \in T => k + 1 \in T
    <3> HIDE DEF l
    <3> QED BY <1>5
  <2>3. b \in Nat /\ b - 1 = n
    OBVIOUS
  <2> HIDE DEF T, b
  <2>4. \A k \in 1..b : k \in T
    BY <2>1, <2>2, <2>3, Upward
  <2> QED BY <2>4 DEF T, b
<1>8. Size(f, l) = Size(f, Resume(n + 1) - 1)
  <2> DEFINE i == Resume(n + 1)
             j == l + 1
  <2>1. n + 1 \in 1..(n + 1)
    OBVIOUS
  <2>2. i \in Nat \ {0} /\ Outside(f, i - 1)
    BY <1>4, <1>7, <2>1
  <2>3. Gap(input, i, j - 1)
    BY <1>1 DEF Reading
  <2>4. \A x \in i..(j - 1) : input[x] # "/"
    BY <1>1, <1>2 DEF NoComments, NoSlash
  <2> HIDE DEF i
  <2>5. i <= j /\ \A x \in i..(j - 1) : input[x] \in White
    <3>1. j \in Nat
      BY <1>1
    <3> HIDE DEF j
    <3> QED BY <2>2, <2>3, <2>4, <3>1, WhiteGap
  <2>6. i \in 1..(l + 1) /\ j \in i..(l + 1)
    BY <1>1, <2>2, <2>5
  <2> HIDE DEF j
  <2>7. Size(f, j - 1) = Size(f, i - 1)
    BY <2>2, <2>5, <2>6, GapDropped
  <2>8. j - 1 = l
    BY <1>1 DEF j
  <2> QED BY <2>7, <2>8 DEF i
<1> QED BY <1>5, <1>6, <1>7, <1>8

LEMMA CompactRereads ==
  ASSUME NEW n \in Nat, Reading(n), input \in Seq(Symbols), NEW S, tokens \in Seq(S), n # Len(tokens), err.kind = "none",
         NoComments, ValuesApart
  PROVE  Rereads(Compact(input), SubSeq(tokens, 1, n))
<1> PICK f : Presses(input, f) /\ Compact(input) = f[Len(input)].out
  BY FoldOfCompact
<1> DEFINE l == Len(input)
           text == Compact(input)
           ts == SubSeq(tokens, 1, n)
           place(k) == Size(f, Resume(k) - 1) + 1
           m == Len(text)
<1>1. l \in Nat /\ Len(tokens) \in Nat /\ n <= Len(tokens) /\ n + 1 <= Len(tokens)
  BY LenProperties DEF Reading
<1>2. text \in Seq(Symbols) /\ m \in Nat /\ m = Size(f, l) /\ text = f[l].out
  <2>1. f[l] \in CompactStates
    BY <1>1 DEF Presses
  <2>2. text \in Seq(Symbols)
    BY <2>1 DEF CompactStates
  <2> HIDE DEF text
  <2> QED BY <2>2, LenProperties DEF Size, text
<1>3. Scanned = 1..n /\ Rest = Resume(n + 1)
  BY <1>1, ScannedSoFar
<1>4. \A k \in 1..n : IsToken(input, tokens[k]) /\ tokens[k].kind \notin {"EOF", "error"}
  <2>1. \A k \in 1..n : IsToken(input, tokens[k])
    BY DEF Reading
  <2>2. \A t : IsToken(input, t) => t.kind \notin {"EOF", "error"}
    BY Kinds DEF IsToken
  <2> QED BY <2>1, <2>2
<1>5. /\ \A k \in 1..n : /\ tokens[k].from \in 1..l
                         /\ Size(f, tokens[k].from - 1) = Size(f, Resume(k) - 1)
                         /\ Copied(input, f, tokens[k].from, tokens[k].to)
      /\ Size(f, l) = Size(f, Resume(n + 1) - 1)
      /\ Size(f, Resume(1) - 1) = 0
  BY <1>1, Compacting
<1>6. ts \in Seq(S) /\ Len(ts) = n /\ \A k \in 1..n : ts[k] = tokens[k]
  <2>1. \A k \in 1..n : tokens[k] \in S
    <3>1. \A k \in 1..Len(tokens) : tokens[k] \in S
      BY ElementOfSeq
    <3> QED BY <1>1, <3>1
  <2>2. /\ ts \in Seq(S) /\ Len(ts) = IF 1 <= n THEN n - 1 + 1 ELSE 0
        /\ \A k \in 1..(n - 1 + 1) : ts[k] = tokens[1 + k - 1]
    <3> HIDE DEF ts
    <3>1. ts = SubSeq(tokens, 1, n)
      BY DEF ts
    <3> QED BY ONLY <2>1, <3>1, SubSeqProperties, n \in Nat
  <2> HIDE DEF ts
  <2> QED BY <2>2
<1> HIDE DEF l, text, ts, m
<1>7. ASSUME NEW k \in 1..n
      PROVE  LET t == tokens[k]
                 y == place(k + 1) - 1
             IN
             /\ Moved(input, t.from, t.to, text, place(k), y)
             /\ place(k) \in 1..m /\ y \in place(k)..m
  <2> DEFINE t == tokens[k]
             i == t.from
             j == t.to
  <2>1. i \in 1..l /\ j \in i..l /\ Copied(input, f, i, j) /\ Size(f, i - 1) = Size(f, Resume(k) - 1)
    BY <1>1, <1>4, <1>5 DEF IsToken, l
  <2>2. Resume(k + 1) - 1 = j
    <3>1. k + 1 # 1 /\ k + 1 - 1 = k
      OBVIOUS
    <3>2. Resume(k + 1) = t.to + 1
      BY <3>1 DEF Resume
    <3> QED BY <2>1, <1>1, <3>2
  <2> HIDE DEF i, j, t
  <2>3. /\ Moved(input, i, j, text, Size(f, i - 1) + 1, Size(f, j))
        /\ Size(f, j) = Size(f, i - 1) + (j - i + 1) /\ Size(f, j) <= Size(f, l)
    BY <1>2, <2>1, CopiedMoves DEF l
  <2>4. Size(f, i - 1) \in Nat /\ Size(f, j) \in Nat
    <3>1. i - 1 \in 0..l /\ j \in 0..l
      BY <1>1, <2>1
    <3> QED BY <3>1, Sizes DEF l
  <2>5. place(k) = Size(f, i - 1) + 1 /\ place(k + 1) - 1 = Size(f, j)
    BY <2>1, <2>2, <2>4
  <2>6. place(k) \in 1..m /\ Size(f, j) \in place(k)..m
    <3> DEFINE a == Size(f, i - 1)
               b == Size(f, j)
    <3>1. a \in Nat /\ b \in Nat /\ b = a + (j - i + 1) /\ b <= m /\ place(k) = a + 1
      BY <1>2, <2>3, <2>4, <2>5
    <3> HIDE DEF a, b, place
    <3>2. place(k) \in 1..m /\ b \in place(k)..m
      BY <1>1, <1>2, <2>1, <3>1
    <3> QED BY <3>2 DEF b
  <2> HIDE DEF place
  <2> QED BY <2>3, <2>5, <2>6 DEF t, i, j
<1>8. place(1) = 1 /\ place(n + 1) = m + 1
  BY <1>2, <1>5
<1> HIDE DEF place
<1>9. ASSUME NEW k \in 1..n PROVE Follows(text, tokens[k], place(k + 1) - 1)
  <2> DEFINE y == place(k + 1) - 1
  <2>1. CASE k = n
    <3>1. y = m
      BY <1>2, <1>8, <2>1
    <3> QED BY <3>1 DEF Follows, m
  <2>2. CASE k # n
    <3> DEFINE c == k + 1
    <3>1. c \in 1..n /\ c \in 1..Len(tokens)
      BY <1>1, <2>2
    <3>2. tokens[c].kind # "EOF"
      BY <1>4, <3>1
    <3>3. tokens[k].kind \in Punctuation \/ tokens[c].kind \in Punctuation
      BY <1>3, <3>2 DEF ValuesApart
    <3>4. CASE tokens[k].kind \in Punctuation
      BY <3>4, Kinds DEF Follows
    <3>5. CASE tokens[c].kind \in Punctuation
      <4> HIDE DEF c
      <4>1. /\ Moved(input, tokens[c].from, tokens[c].to, text, place(c), place(c + 1) - 1)
            /\ place(c) \in 1..m
        BY <1>7, <3>1
      <4>2. /\ input[tokens[c].from] = tokens[c].kind /\ tokens[c].from = tokens[c].to
            /\ tokens[c].from \in Nat
        BY <1>4, <3>1, <3>5 DEF IsToken
      <4>3. text[place(c)] = tokens[c].kind
        <5>1. PICK d \in Int : /\ place(c) = tokens[c].from + d
                               /\ \A x \in tokens[c].from..tokens[c].to : text[x + d] = input[x]
          BY <4>1 DEF Moved
        <5>2. tokens[c].from \in tokens[c].from..tokens[c].to
          BY <4>2
        <5> QED BY <4>2, <5>1, <5>2
      <4>4. y + 1 = place(c)
        BY <1>2, <4>1 DEF c
      <4>5. Punctuation \cap (Digits \cup {"-", "+", ".", "e"}) = {}
        BY DEF Punctuation, Digits
      <4>6. text[y + 1] \notin Digits \cup {"-", "+", ".", "e"}
        BY <3>5, <4>3, <4>4, <4>5
      <4> QED BY <4>6 DEF Follows, y
    <3> QED BY <3>3, <3>4, <3>5
  <2> QED BY <2>1, <2>2
<1> PICK w : Walks(text, w)
  BY <1>2, WalkExists
<1>10. PICK g : /\ RereadSteps(text, ts, g)
                /\ Rereads(text, ts) <=> g[Len(ts)].ok /\ g[Len(ts)].at.i = Len(text) + 1
  <2>1. ts \in Seq(S) /\ \A k \in 1..Len(ts) : ts[k].kind \notin {"EOF", "error"}
    BY <1>4, <1>6
  <2>2. text \in Seq(Symbols)
    BY <1>2
  <2> QED BY ONLY <2>1, <2>2, FoldOfRereads
<1> DEFINE T == {k \in Nat : g[k].ok /\ Placed(text, w, g[k].at) /\ g[k].at.i = place(k + 1)}
<1>11. 0 \in T
  <2>1. g[0].ok /\ g[0].at = Start
    BY <1>10 DEF RereadSteps, RereadBegin
  <2>2. m \in Nat /\ w[1] = StartPosition /\ StartPosition \in Positions
    BY <1>2 DEF Walks, StartPosition, Positions
  <2>3. Start.i = 1 /\ Placed(text, w, Start)
    BY <2>2 DEF Placed, Begun, Even, Start, m
  <2>4. place(0 + 1) = 1
    BY <1>8
  <2> QED BY <2>1, <2>3, <2>4
<1>12. ASSUME NEW k \in 0..(n - 1), k \in T PROVE k + 1 \in T
  <2> DEFINE c == k + 1
             s == g[k].at
             t == tokens[c]
             v == Next(text, s)
             y == place(c + 1) - 1
  <2>1. c \in 1..n /\ c - 1 = k /\ c \in Nat
    OBVIOUS
  <2>2. g[k].ok /\ Placed(text, w, s) /\ s.i = place(c)
    BY <1>12
  <2>3. g[c] = Reread(text, g[k], t)
    <3> HIDE DEF c
    <3> QED BY <1>6, <1>10, <2>1 DEF RereadSteps, t
  <2> HIDE DEF T, c
  <2>4. IsToken(input, t) /\ Follows(text, t, y) /\ Moved(input, t.from, t.to, text, s.i, y) /\ y \in s.i..m /\ place(c) \in 1..m
    BY <1>4, <1>7, <1>9, <2>1, <2>2
  <2> HIDE DEF s, t, y
  <2>5. v.kind = t.kind /\ v.data = t.data /\ v.from = s.i /\ Placed(text, w, v.end) /\ v.end.i = y + 1
    BY <1>2, <2>2, <2>4, SameToken DEF m
  <2>6. g[c] = [ok |-> TRUE, at |-> v.end]
    <3> HIDE DEF v
    <3>1. Reread(text, g[k], t) = IF g[k].ok /\ v.kind = t.kind /\ v.data = t.data /\ v.from = s.i
                                  THEN [ok |-> TRUE, at |-> v.end] ELSE [ok |-> FALSE, at |-> s]
      BY DEF Reread, HasRead, v, s
    <3> QED BY <2>2, <2>3, <2>5, <3>1
  <2>7. y + 1 = place(c + 1)
    <3>1. place(c + 1) \in Int
      <4>1. c = n \/ c + 1 \in 1..n
        BY <2>1
      <4>2. c + 1 \in 1..n => place(c + 1) \in 1..m
        BY <1>7
      <4> QED BY <1>2, <1>8, <4>1, <4>2
    <3> QED BY <3>1 DEF y
  <2>8. g[c].ok /\ g[c].at = v.end
    BY <2>6
  <2>9. c \in T
    BY <2>1, <2>5, <2>7, <2>8 DEF T
  <2> QED BY <2>9 DEF c
<1> HIDE DEF T
<1>13. \A k \in 0..n : k \in T
  BY <1>11, <1>12, Upward
<1>14. g[n].ok /\ g[n].at.i = m + 1
  <2>1. n \in T
    BY <1>13
  <2> QED BY <1>8, <2>1 DEF T
<1>15. Rereads(text, ts)
  BY <1>6, <1>10, <1>14 DEF m
<1> QED BY <1>15 DEF text, ts

(* Whatever the text, if it has no comments and punctuation between any two *)
(* values, the scanner reads from what Compact() returns the tokens of the  *)
(* text, and nothing else (indent.go 15-41, lexer.go 10-104).               *)
THEOREM CompactKeeps == Spec => []CompactKeepsTokens
<1>1. ASSUME Inv PROVE CompactKeepsTokens
  <2> SUFFICES ASSUME Ended, err.kind = "none", NoComments, ValuesApart
               PROVE  Rereads(Compact(input), SubSeq(tokens, 1, Cardinality(Scanned)))
    BY DEF CompactKeepsTokens
  <2>1. PICK n \in Nat : Reading(n)
    BY <1>1 DEF Inv
  <2>2. PICK S : tokens \in Seq(S)
    BY <1>1 DEF Inv
  <2>3. input \in Seq(Symbols) /\ Len(tokens) \in Nat
    BY <1>1, <2>2, TokenStreamAssumption, LenProperties DEF Inv
  <2>4. n # Len(tokens)
    <3>1. tokens # <<>> /\ tokens[Len(tokens)].kind = "EOF"
      BY DEF Ended
    <3>2. Len(tokens) \in 1..Len(tokens)
      BY <2>2, <2>3, <3>1, EmptySeq
    <3> QED BY <2>1, <3>1, <3>2 DEF Reading
  <2>5. Cardinality(Scanned) = n
    <3>1. Scanned = 1..n
      BY <2>1, <2>3, ScannedSoFar
    <3> QED BY <3>1, FS_Interval
  <2> QED BY <2>1, <2>2, <2>3, <2>4, <2>5, CompactRereads
<1> QED BY <1>1, AlwaysReading, PTL

=============================================================================
