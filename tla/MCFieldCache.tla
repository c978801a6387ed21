---------------------------- MODULE MCFieldCache ----------------------------
(***************************************************************************)
(* Model checking of FieldCache: three calls, and structs that embed others *)
(* beside and within each other.                                            *)
(***************************************************************************)
EXTENDS FieldList

F(name, required) == [name |-> name, typ |-> "int", required |-> required, hidden |-> FALSE, embedded |-> FALSE]
Hidden(f)         == [f EXCEPT !.hidden = TRUE]
Embedded(s)       == [F(<<>>, FALSE) EXCEPT !.typ = s, !.embedded = TRUE]

a == <<"a">>      A == <<"A">>      b == <<"b">>

AllStructs ==
  [inner |-> <<F(A, TRUE)>>,
   empty |-> <<Hidden(F(a, TRUE))>>,
   outer |-> <<F(a, FALSE), Embedded("inner"), Hidden(Embedded("outer")), F(b, FALSE)>>,
   twice |-> <<Embedded("outer"), Embedded("empty"), Embedded("inner"), F(b, TRUE)>>]
MCStructs == AllStructs

MCListed ==
  LET listed[s \in DOMAIN AllStructs] ==
        LET fields == AllStructs[s]
            all(t) == listed[t][Len(AllStructs[t])]
            given(i) ==
              IF fields[i].hidden THEN <<>>
              ELSE IF fields[i].embedded THEN Within(<<i>>, all(fields[i].typ))
              ELSE <<[name |-> fields[i].name, required |-> fields[i].required, index |-> <<i>>]>>
        IN [n \in 0..Len(fields) |-> FlattenSeq([i \in 1..n |-> given(i)])]
  IN listed

(* The field that an index leads to (reflect.Value.FieldByIndex).           *)
FieldByIndex(s, index) ==
  FoldLeft(LAMBDA at, i : AllStructs[at.typ][i], [typ |-> s], index)

(* The lists are those that the decoder takes its tables from.              *)
ASSUME ListsAreOrdered ==
  \A s \in DOMAIN AllStructs :
    LET fields == Ordered(AllStructs)[s]
    IN /\ Len(All(s)) = Len(fields)
       /\ \A i \in 1..Len(fields) :
            /\ All(s)[i].name = fields[i].name /\ All(s)[i].required = fields[i].required
            /\ FieldByIndex(s, All(s)[i].index) = fields[i]
       /\ IsTable(TableOf([i \in 1..Len(fields) |-> fields[i].name]), All(s))

=============================================================================
