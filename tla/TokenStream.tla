---------------------------- MODULE TokenStream -----------------------------
(***************************************************************************)
(* lexer.TokenStream: the tokens of an input that NewReader has read whole, *)
(* one per call of Next(), until the end of the input or an error.          *)
(***************************************************************************)
EXTENDS Lexer

CONSTANTS
  Inputs,      (* the inputs NewReader may have read                        *)
  MaxCalls     (* bound: calls of Next() after the last token               *)

(* Symbols must not run together into another symbol. *)
ASSUME TokenStreamAssumption ==
  /\ MaxCalls \in Nat
  /\ \A d \in Inputs : d \in Seq(Symbols)
  /\ \A d \in Inputs : \A k \in 1..(Len(d) - 1) :
       /\ d[k] = "\\" => d[k + 1] \notin Literals \cup {"trux"}
       /\ d[k] \in Digits \cup {"-", "+", ".", "e"} => d[k + 1] # "0041"

VARIABLES
  input,       (* lexer.data                                                *)
  at,          (* lexer.i and lexer.pos                                     *)
  err,         (* the error kept, or "none"                                 *)
  tokens,      (* the tokens returned, in order                             *)
  extra        (* calls made after the stream had ended                     *)

vars == <<input, at, err, tokens, extra>>

Start == [i |-> 1, pos |-> StartPosition]

NoPosition == [line |-> 0, column |-> 0, offset |-> 0]

EOFToken(s) == Token("EOF", <<>>, s, s)

Ended == tokens # <<>> /\ tokens[Len(tokens)].kind = "EOF"

Init ==
  /\ input \in Inputs
  /\ at = Start
  /\ err = [kind |-> "none"]
  /\ tokens = <<>>
  /\ extra = 0

Counted == extra' = IF Ended THEN extra + 1 ELSE extra

(* The error was kept: every later call answers EOF without scanning. *)
Closed ==
  /\ err.kind = "error" /\ extra < MaxCalls
  /\ tokens' = Append(tokens, EOFToken([i |-> 1, pos |-> NoPosition]))
  /\ Counted
  /\ UNCHANGED <<input, at, err>>

(* lexer.Next() returned an error: it is kept, the caller sees EOF. *)
Failed ==
  /\ err.kind = "none" /\ extra < MaxCalls
  /\ \E t \in {Next(input, at)} :
       /\ t.kind = "error"
       /\ at' = t.end
       /\ err' = t
       /\ tokens' = Append(tokens, EOFToken(t.end))
  /\ Counted
  /\ UNCHANGED input

Returned ==
  /\ err.kind = "none" /\ extra < MaxCalls
  /\ \E t \in {Next(input, at)} :
       /\ t.kind # "error"
       /\ at' = t.end
       /\ tokens' = Append(tokens, t)
  /\ Counted
  /\ UNCHANGED <<input, err>>

Step == Closed \/ Failed \/ Returned

Spec == Init /\ [][Step]_vars

=============================================================================
