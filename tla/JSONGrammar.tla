---------------------------- MODULE JSONGrammar -----------------------------
(***************************************************************************)
(* The JSON grammar (RFC 8259) as sets of token sequences, generated rule   *)
(* by rule.  It is the reference the parser and the stream reader are       *)
(* compared with; it models no code.                                        *)
(*                                                                          *)
(* A value enclosed by d containers is admitted when d <= depth limit; the  *)
(* parameter b of the rules is what is left of that limit.                  *)
(***************************************************************************)
EXTENDS Integers, Sequences, FiniteSets

CONSTANTS
  ScalarTokens,   (* the tokens that are values by themselves               *)
  KeyTokens,      (* the tokens that may be object keys                     *)
  DistinctKeys    (* TRUE: no key may occur twice in one object             *)

Punct(k) == [kind |-> k, data |-> ""]

RECURSIVE Values(_, _), Elements(_, _), Members(_, _, _)

(* value = scalar / "[" [elements] "]" / "{" [members] "}", in n tokens. *)
Values(n, b) ==
  IF b < 0 \/ n < 1 THEN {}
  ELSE IF n = 1 THEN {<<t>> : t \in ScalarTokens}
  ELSE { <<Punct("[")>> \o e \o <<Punct("]")>> :
           e \in IF n = 2 THEN {<<>>} ELSE Elements(n - 2, b - 1) }
       \cup
       { <<Punct("{")>> \o m \o <<Punct("}")>> :
           m \in IF n = 2 THEN {<<>>} ELSE Members(n - 2, b - 1, {}) }

(* elements = value *("," value) *)
Elements(n, b) ==
  Values(n, b) \cup
  UNION { { v \o <<Punct(",")>> \o rest : v \in Values(i, b), rest \in Elements(n - i - 1, b) }
          : i \in 1..(n - 2) }

(* members = string ":" value *("," string ":" value), keys not in used. *)
Members(n, b, used) ==
  UNION { { <<k, Punct(":")>> \o v : v \in Values(n - 2, b) }
          \cup
          UNION { { <<k, Punct(":")>> \o v \o <<Punct(",")>> \o rest :
                      v \in Values(i, b), rest \in Members(n - i - 3, b, used \cup {k}) }
                  : i \in 1..(n - 4) }
          : k \in KeyTokens \ (IF DistinctKeys THEN used ELSE {}) }

Documents(maxLen, depth) == UNION { Values(n, depth) : n \in 1..maxLen }

=============================================================================
