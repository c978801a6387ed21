------------------------ MODULE StreamReaderProofs --------------------------
(***************************************************************************)
(* Proofs about StreamReader, for every input, with and without comments,   *)
(* and whatever Parse accepts (but the empty text).                         *)
(*                                                                          *)
(* What a call of Next() returns was read by earlier steps, one byte each:  *)
(* the invariant IInv says what the loops in progress have read so far, and *)
(* how the modes of the reader (started, array, first, done, err and where  *)
(* readNonSpace() returns to) go together.                                  *)
(***************************************************************************)
EXTENDS StreamReader, SequenceTheorems, TLAPS

Skips == {"skip", "slash", "line", "block"}

(* text is what the input holds from k on, and has been read. *)
Slice(k, text) ==
  /\ k \in Nat \ {0} /\ Len(text) \in Nat \ {0}
  /\ k + Len(text) - 1 <= offset
  /\ \A j \in 1..Len(text) : text[j] = input[k + j - 1]

(* Which combinations of the flags, the error and the place in the code     *)
(* there are. *)
Modes ==
  /\ err = "" <=> ~ done
  /\ pc # "idle" => ~ done
  /\ array => started
  /\ ~ array => first
  /\ pc = "idle" /\ started /\ ~ done => array
  /\ pc = "value" => started /\ (array => ~ first)
  /\ pc \in Skips =>
       /\ ret = "first" <=> ~ started
       /\ ret \in {"item", "next", "end"} <=> array
       /\ ret = "next" => ~ first

(* What the loops have read: the slash, the text of the value being read,   *)
(* the text of a single value that is still to be followed by nothing.      *)
SlashRead == pc = "slash" => offset >= 1 /\ input[offset] = "/"

Buffers ==
  /\ SlashRead
  /\ pc = "value" => Slice(from, out) /\ from + Len(out) - 1 = offset
  /\ pc \in Skips /\ ret = "tail" => Slice(from, current) /\ Parse(current)

(* The elements delivered, and the comma after each, end before k. *)
Behind(k)  == \A i \in 1..Len(delivered) : delivered[i].from + Len(delivered[i].text) < k
BehindHere == Behind(IF pc = "slash" THEN offset ELSE offset + 1)

AllSlices == \A i \in 1..Len(delivered) : Slice(delivered[i].from, delivered[i].text)
Ordered   == \A i, j \in 1..Len(delivered) :
               i < j => delivered[i].from + Len(delivered[i].text) < delivered[j].from

(* The elements delivered are slices in order; the next one can only begin  *)
(* after the comma. *)
Elements ==
  /\ first /\ ~done => delivered = <<>>
  /\ AllSlices
  /\ Ordered
  /\ pc \in Skips /\ ret = "next" => BehindHere
  /\ pc = "value" => Behind(from)

IInv == TypeOK /\ Modes /\ Buffers /\ Elements /\ CleanEnd /\ ValueIsCurrent

-----------------------------------------------------------------------------
AStep == Abstract!Next \/ UNCHANGED Abstract!vars

(* A step that changes neither the elements nor the verdict stutters. *)
LEMMA Stutters ==
  ASSUME UNCHANGED <<input, tail, delivered, done, err>>
  PROVE  AStep
BY DEF AStep, Verdict, Abstract!vars

(* Where the reader stands in its input. *)
LEMMA InputFacts ==
  ASSUME TypeOK
  PROVE  /\ Len(input) \in Nat /\ offset \in Nat /\ offset <= Len(input)
         /\ \A k \in 1..Len(input) : input[k] \in STRING
         /\ Len(delivered) \in Nat
         /\ \A i \in 1..Len(delivered) : delivered[i] \in ElementSet
         /\ ~ AtEnd => offset + 1 \in 1..Len(input) /\ Byte \in STRING /\ Byte = input[offset + 1]
<1>1. input \in Seq(STRING) /\ delivered \in Seq(ElementSet) /\ offset \in 0..Len(input)
  BY DEF TypeOK
<1>2. Len(input) \in Nat /\ Len(delivered) \in Nat
  BY <1>1, LenProperties
<1>3. /\ \A k \in 1..Len(input) : input[k] \in STRING
      /\ \A i \in 1..Len(delivered) : delivered[i] \in ElementSet
  BY <1>1, ElementOfSeq
<1>. QED  BY <1>1, <1>2, <1>3 DEF AtEnd, Byte

(* A step reads on, or stays where it is, in the same input. *)
Reads ==
  /\ input' = input /\ tail' = tail /\ previous' \in Previous
  /\ offset' \in Nat /\ offset <= offset' /\ offset' <= Len(input)

(* What the type invariant needs of a step that reads.                      *)
LEMMA ReadsFacts ==
  ASSUME TypeOK, Reads
  PROVE  /\ input' = input /\ tail' = tail /\ previous' \in Previous
         /\ offset' \in 0..Len(input')
<1>1. Len(input) \in Nat
  BY InputFacts
<1>2. /\ input' = input /\ tail' = tail /\ previous' \in Previous
      /\ offset' \in Nat /\ offset' <= Len(input)
  BY DEF Reads
<1>3. Len(input') = Len(input)
  BY <1>2
<1>4. offset' \in 0..Len(input')
  <2>. HIDE DEF Reads
  <2>1. DEFINE l == Len(input)
               m == Len(input')
               o == offset'
  <2>2. l \in Nat /\ o \in Nat /\ o <= l /\ m = l
    BY <1>1, <1>2, <1>3
  <2>. HIDE DEF l, m, o
  <2>3. o \in 0..m
    BY <2>2
  <2>. QED  BY <2>3 DEF o, m
<1>. QED  BY <1>2, <1>4

(* A slice of the input stays one while reading goes on.                    *)
LEMMA SliceKept ==
  ASSUME TypeOK, Reads, NEW k, NEW text, Slice(k, text)
  PROVE  /\ k + Len(text) - 1 <= offset'
         /\ \A j \in 1..Len(text) : text[j] = input'[k + j - 1]
BY InputFacts DEF Reads, Slice

(* So do the elements delivered, and they stay in order.                    *)
LEMMA ElementsKept ==
  ASSUME TypeOK, Reads, delivered' = delivered, AllSlices, Ordered
  PROVE  AllSlices' /\ Ordered'
<1>1. ASSUME NEW i \in 1..Len(delivered)
      PROVE  Slice(delivered[i].from, delivered[i].text)'
  <2>1. Slice(delivered[i].from, delivered[i].text)
    BY DEF AllSlices
  <2>2. /\ delivered[i].from + Len(delivered[i].text) - 1 <= offset'
        /\ \A j \in 1..Len(delivered[i].text) :
             delivered[i].text[j] = input'[delivered[i].from + j - 1]
    BY <2>1, SliceKept
  <2>. QED  BY <2>1, <2>2 DEF Slice
<1>. QED  BY <1>1 DEF AllSlices, Ordered

(* A text of one byte.                                                      *)
LEMMA Singleton ==
  ASSUME NEW b \in STRING
  PROVE  <<b>> \in Seq(STRING) /\ Len(<<b>>) = 1 /\ <<b>>[1] = b
<1>1. <<b>> \in Seq(STRING)
  <2>1. <<>> \in Seq(STRING) /\ <<b>> = Append(<<>>, b)
    OBVIOUS
  <2>. QED  BY <2>1, AppendProperties
<1>2. Len(<<b>>) = 1
  OBVIOUS
<1>3. <<b>>[1] = b
  OBVIOUS
<1>. QED  BY <1>1, <1>2, <1>3

(* finish(), wherever it is called from. *)
LEMMA FinishStep ==
  ASSUME IInv, pc # "idle", NEW e \in Errors, Finish(e), Reads,
         e = "EOF" => tail = "EOF" /\ offset' = Len(input)
  PROVE  IInv' /\ AStep
<1>1. TypeOK /\ Elements /\ ~ done
  BY DEF IInv, Modes
<1>2. /\ err' = e /\ current' = <<>> /\ done' = TRUE /\ result' = FALSE /\ pc' = "idle"
      /\ started' = started /\ array' = array /\ first' = first /\ ret' = ret
      /\ from' = from /\ out' = out /\ depth' = depth /\ inString' = inString
      /\ escaped' = escaped /\ delivered' = delivered
  BY DEF Finish, root, local
<1>3. TypeOK'
  <2>. <<>> \in Seq(STRING)
    OBVIOUS
  <2>. QED  BY <1>1, <1>2, ReadsFacts DEF TypeOK, PCs
<1>4. Modes' /\ CleanEnd' /\ ValueIsCurrent'
  <2>1. e # ""
    BY DEF Errors
  <2>. QED  BY <1>1, <1>2, <2>1, ReadsFacts DEF IInv, Modes, CleanEnd, ValueIsCurrent, Skips
<1>5. Buffers'
  BY <1>2 DEF Buffers, SlashRead, Skips
<1>6. Elements'
  BY <1>1, <1>2, ElementsKept DEF Elements, Skips
<1>7. Abstract!End
  BY <1>1, <1>2, ReadsFacts DEF Abstract!End, Abstract!Give, Verdict
<1>. QED  BY <1>3, <1>4, <1>5, <1>6, <1>7 DEF IInv, AStep, Abstract!Next

(* readValue() is entered at the byte b, which stands at k. *)
Begins(b, k) == offset' = k /\ k >= 1 /\ input[k] = b /\ Behind(k)

(* readValue() starts with the byte just read.                              *)
LEMMA ReadValueStep ==
  ASSUME IInv, pc \in Skips, NEW b \in STRING, NEW k \in Nat, ReadValue(b, k), Continue,
         NEW f \in BOOLEAN, started' = TRUE, array' = array, first' = f,
         ~ array <=> f, f => delivered = <<>>,
         Reads, Begins(b, k)
  PROVE  IInv' /\ AStep
<1>1. TypeOK /\ Modes /\ Elements /\ CleanEnd /\ ~ done
  BY DEF IInv, Modes, Skips
<1>2. /\ pc' = "value" /\ ret' = ret /\ from' = k /\ out' = <<b>>
      /\ depth' \in {0, 1} /\ inString' \in BOOLEAN /\ escaped' = FALSE
      /\ done' = done /\ current' = current /\ err' = err
      /\ result' = result /\ delivered' = delivered
  BY DEF ReadValue, Continue, caller
<1>3. TypeOK'
  <2>1. out' \in Seq(STRING)
    BY <1>2, Singleton
  <2>2. from' \in Nat /\ depth' \in Nat
    BY <1>2
  <2>. QED  BY <1>1, <1>2, <2>1, <2>2, ReadsFacts DEF TypeOK, PCs
<1>4. Modes' /\ CleanEnd' /\ ValueIsCurrent'
  BY <1>1, <1>2 DEF Modes, CleanEnd, ValueIsCurrent, Skips
<1>5. Buffers'
  <2>1. Len(out') = 1 /\ out'[1] = b
    BY <1>2, Singleton
  <2>2. input' = input /\ offset' = k /\ k >= 1 /\ input[k] = b
    BY DEF Reads, Begins
  <2>3. Slice(from, out)' /\ from' + Len(out') - 1 = offset'
    BY <1>2, <2>1, <2>2 DEF Slice
  <2>. QED  BY <1>2, <2>3 DEF Buffers, SlashRead, Skips
<1>6. Elements'
  <2>1. Behind(from)'
    BY <1>2 DEF Begins, Behind
  <2>. QED  BY <1>1, <1>2, <2>1, ElementsKept DEF Elements, Skips
<1>7. AStep
  BY <1>2, ReadsFacts, <1>1, Stutters
<1>. QED  BY <1>3, <1>4, <1>5, <1>6, <1>7 DEF IInv

(* The reader stays in readNonSpace(), or enters it, and gives nothing to   *)
(* its caller. *)
LEMMA SkipStep ==
  ASSUME IInv, ~ done, Continue, UNCHANGED local, Reads,
         pc' \in Skips, ret' \in Rets, started' \in BOOLEAN, array' \in BOOLEAN, first' \in BOOLEAN,
         Modes', SlashRead',
         ret' = "tail" => pc \in Skips /\ ret = "tail",
         first' => first,
         ret' = "next" => BehindHere'
  PROVE  IInv' /\ AStep
<1>1. TypeOK /\ Buffers /\ Elements /\ err = ""
  BY DEF IInv, Modes
<1>2. /\ from' = from /\ out' = out /\ depth' = depth /\ inString' = inString
      /\ escaped' = escaped /\ done' = done /\ current' = current /\ err' = err
      /\ result' = result /\ delivered' = delivered
  BY DEF Continue, caller, local
<1>3. TypeOK'
  <2>1. pc' \in PCs
    BY DEF Skips, PCs
  <2>. QED  BY <1>1, <1>2, <2>1, ReadsFacts DEF TypeOK
<1>4. CleanEnd' /\ ValueIsCurrent'
  BY <1>1, <1>2 DEF CleanEnd, ValueIsCurrent, Skips
<1>5. Buffers'
  <2>1. ASSUME ret' = "tail"
        PROVE  Slice(from, current)' /\ Parse(current')
    <3>1. Slice(from, current) /\ Parse(current)
      BY <2>1, <1>1 DEF Buffers
    <3>2. from + Len(current) - 1 <= offset' /\ \A j \in 1..Len(current) : current[j] = input'[from + j - 1]
      BY <3>1, <1>1, SliceKept
    <3>. QED  BY <3>1, <3>2, <1>2 DEF Slice
  <2>. QED  BY <2>1 DEF Buffers, Skips
<1>6. Elements'
  BY <1>1, <1>2, ElementsKept DEF Elements, Skips
<1>7. AStep
  BY <1>1, <1>2, ReadsFacts, Stutters
<1>. QED  BY <1>3, <1>4, <1>5, <1>6, <1>7 DEF IInv

(* readValue() goes on: the byte just read is kept. *)
LEMMA MoreStep ==
  ASSUME IInv, Reading, Take, Keep(Byte), More,
         depth' \in Nat, inString' \in BOOLEAN, escaped' \in BOOLEAN
  PROVE  IInv' /\ AStep
<1>1. /\ input' = input /\ tail' = tail /\ previous' = previous /\ ret' = ret
      /\ started' = started /\ array' = array /\ first' = first /\ done' = done
      /\ current' = current /\ err' = err /\ result' = result /\ delivered' = delivered
      /\ from' = from
  BY DEF Reading, More, Keep, Continue, caller, root
<1>2. /\ pc = "value" /\ pc' = "value" /\ offset' = offset + 1
      /\ out' = Append(out, Byte) /\ ~ AtEnd
  BY DEF Reading, More, Keep, Take
<1>3. TypeOK /\ Modes /\ Buffers /\ Elements /\ err = "" /\ ~ done
  BY <1>2 DEF IInv, Modes
<1>4. /\ offset \in Nat /\ offset + 1 \in 1..Len(input) /\ Byte \in STRING
      /\ Byte = input[offset + 1] /\ Len(input) \in Nat /\ out \in Seq(STRING)
  BY <1>2, <1>3, InputFacts DEF TypeOK
<1>5. Reads
  <2>1. previous \in Previous
    BY <1>3 DEF TypeOK
  <2>. QED  BY <2>1, <1>1, <1>2, <1>4 DEF Reads
<1>6. /\ out' \in Seq(STRING) /\ Len(out) \in Nat /\ Len(out') = Len(out) + 1
      /\ \A j \in 1..Len(out) : out'[j] = out[j]
      /\ out'[Len(out) + 1] = Byte
  BY <1>2, <1>4, AppendProperties, LenProperties
<1>7. TypeOK'
  BY <1>1, <1>2, <1>3, <1>5, <1>6, ReadsFacts DEF TypeOK, PCs
<1>8. Modes' /\ CleanEnd' /\ ValueIsCurrent'
  BY <1>1, <1>2, <1>3 DEF Modes, CleanEnd, ValueIsCurrent, Skips
<1>9. Buffers'
  <2>1. Slice(from, out) /\ from + Len(out) - 1 = offset
    BY <1>2, <1>3 DEF Buffers
  <2>2. ASSUME NEW j \in 1..Len(out')
        PROVE  out'[j] = input[from + j - 1]
    BY <1>4, <1>6, <2>1 DEF Slice
  <2>3. from' \in Nat \ {0} /\ Len(out') \in Nat \ {0} /\ from' + Len(out') - 1 = offset'
    <3>1. from \in Nat \ {0}
      BY <2>1 DEF Slice
    <3>2. from' = from /\ offset' = offset + 1 /\ Len(out') = Len(out) + 1
      BY <1>1, <1>2, <1>6
    <3>. QED  BY <1>4, <1>6, <2>1, <3>1, <3>2
  <2>4. Slice(from, out)'
    BY <1>1, <2>2, <2>3 DEF Slice
  <2>. QED  BY <1>2, <2>3, <2>4 DEF Buffers, SlashRead, Skips
<1>10. Elements'
  <2>1. Behind(from)'
    BY <1>1, <1>2, <1>3 DEF Elements, Behind
  <2>. QED  BY <1>1, <1>2, <1>3, <1>5, <2>1, ElementsKept DEF Elements, Skips
<1>11. AStep
  BY <1>1, Stutters
<1>. QED  BY <1>7, <1>8, <1>9, <1>10, <1>11 DEF IInv

(* text has been read from k on, when a step is over, and begins after what *)
(* was delivered before. *)
Found(k, text) ==
  /\ k \in Nat \ {0} /\ text \in Seq(STRING) /\ Len(text) \in Nat \ {0}
  /\ k + Len(text) - 1 <= offset'
  /\ \A j \in 1..Len(text) : text[j] = input[k + j - 1]
  /\ Behind(k)

(* A text found is the slice of the input that ElementStream asks for. *)
LEMMA FoundIsSlice ==
  ASSUME TypeOK, Reads, NEW k, NEW text, Found(k, text)
  PROVE  \E l \in 1..Len(input) : /\ k \in 1..Len(input) /\ k <= l
                                  /\ SubSeq(input, k, l) = text
<1>1. k \in Nat \ {0} /\ Len(text) \in Nat \ {0} /\ k + Len(text) - 1 <= Len(input)
      /\ Len(input) \in Nat
  BY InputFacts DEF Found, Reads
<1>. DEFINE l == k + Len(text) - 1
<1>2. l \in 1..Len(input) /\ k \in 1..Len(input) /\ k <= l /\ l \in Int /\ k \in Int
      /\ l - k + 1 = Len(text)
  BY <1>1
<1>. HIDE DEF l
<1>3. \A i \in k..l : input[i] \in STRING
  BY <1>2, InputFacts
<1>4. /\ SubSeq(input, k, l) \in Seq(STRING)
      /\ Len(SubSeq(input, k, l)) = Len(text)
      /\ \A i \in 1..Len(text) : SubSeq(input, k, l)[i] = input[k + i - 1]
  BY <1>1, <1>2, <1>3, SubSeqProperties
<1>5. SubSeq(input, k, l) = text
  <2>1. text \in Seq(STRING) /\ \A i \in 1..Len(text) : text[i] = input[k + i - 1]
    BY DEF Found
  <2>. QED  BY <1>4, <2>1, SeqEqual
<1>. QED  BY <1>2, <1>5

(* An element is delivered, and the reader goes on or has come to the end.  *)
LEMMA DeliverStep ==
  ASSUME TypeOK, AllSlices, Ordered, ~ done, Reads,
         NEW k, NEW text, Found(k, text), Parse(text),
         delivered' = Append(delivered, [from |-> k, text |-> text]),
         \/ done' = FALSE
         \/ done' = TRUE /\ err' = "EOF" /\ tail = "EOF"
  PROVE  /\ delivered' \in Seq(ElementSet) /\ AllSlices' /\ Ordered'
         /\ delivered' # <<>> /\ delivered'[Len(delivered')].text = text
         /\ AStep
<1>. DEFINE e == [from |-> k, text |-> text]
<1>1. e \in ElementSet /\ e.from = k /\ e.text = text
  BY DEF Found, ElementSet
<1>2. delivered \in Seq(ElementSet) /\ Len(delivered) \in Nat
  BY LenProperties DEF TypeOK
<1>3. /\ delivered' \in Seq(ElementSet) /\ delivered' # <<>>
      /\ Len(delivered') = Len(delivered) + 1
      /\ \A i \in 1..Len(delivered) : delivered'[i] = delivered[i]
      /\ delivered'[Len(delivered) + 1] = e
  BY <1>1, <1>2, AppendProperties
<1>. HIDE DEF e
<1>4. ASSUME NEW i \in 1..Len(delivered')
      PROVE  i \in 1..Len(delivered) \/ i = Len(delivered) + 1
  BY <1>2, <1>3
<1>5. ASSUME NEW i \in 1..Len(delivered')
      PROVE  Slice(delivered[i].from, delivered[i].text)'
  <2>1. CASE i \in 1..Len(delivered)
    <3>1. Slice(delivered[i].from, delivered[i].text)
      BY <2>1 DEF AllSlices
    <3>2. /\ delivered[i].from + Len(delivered[i].text) - 1 <= offset'
          /\ \A j \in 1..Len(delivered[i].text) :
               delivered[i].text[j] = input'[delivered[i].from + j - 1]
      BY <3>1, SliceKept
    <3>3. delivered'[i] = delivered[i]
      BY <1>3, <2>1
    <3>. QED  BY <3>1, <3>2, <3>3 DEF Slice
  <2>2. CASE i = Len(delivered) + 1
    <3>1. delivered'[i].from = k /\ delivered'[i].text = text
      BY <1>1, <1>3, <2>2
    <3>2. input' = input
      BY DEF Reads
    <3>. QED  BY <3>1, <3>2 DEF Slice, Found
  <2>. QED  BY <1>4, <2>1, <2>2
<1>6. ASSUME NEW i \in 1..Len(delivered'), NEW j \in 1..Len(delivered'), i < j
      PROVE  delivered'[i].from + Len(delivered'[i].text) < delivered'[j].from
  <2>1. i \in 1..Len(delivered) /\ delivered'[i] = delivered[i]
    BY <1>2, <1>3, <1>6
  <2>2. CASE j \in 1..Len(delivered)
    BY <1>3, <1>6, <2>1, <2>2 DEF Ordered
  <2>3. CASE j = Len(delivered) + 1
    BY <1>1, <1>3, <2>1, <2>3 DEF Found, Behind
  <2>. QED  BY <1>4, <2>2, <2>3
<1>7. AllSlices' /\ Ordered'
  BY <1>5, <1>6 DEF AllSlices, Ordered
<1>8. Abstract!Deliver
  <2>1. PICK l \in 1..Len(input) : /\ k \in 1..Len(input) /\ k <= l
                                   /\ SubSeq(input, k, l) = text
    BY FoundIsSlice
  <2>2. ASSUME NEW i \in 1..Len(delivered)
        PROVE  Abstract!Last(delivered[i]) < k
    <3>1. /\ delivered[i].from \in Nat /\ Len(delivered[i].text) \in Nat
          /\ delivered[i].from + Len(delivered[i].text) < k
      BY DEF AllSlices, Slice, Found, Behind
    <3>. QED  BY <3>1 DEF Abstract!Last, Found
  <2>3. delivered' = Append(delivered, [from |-> k, text |-> SubSeq(input, k, l)])
        /\ Parse(SubSeq(input, k, l))
    BY <2>1
  <2>4. Verdict = "open" /\ \E v \in {"open", "clean"} : Abstract!Give(v)
    BY DEF Verdict, Abstract!Give
  <2>5. input' = input /\ tail' = tail
    BY DEF Reads
  <2>. QED  BY <2>1, <2>2, <2>3, <2>4, <2>5 DEF Abstract!Deliver
<1>9. delivered'[Len(delivered')].text = text
  BY <1>1, <1>3
<1>. QED  BY <1>3, <1>7, <1>8, <1>9 DEF AStep, Abstract!Next

(* parseElement() on a text found, or on the empty text, which Parse        *)
(* refuses. *)
LEMMA ParsedStep ==
  ASSUME IInv, pc = "value", Reads, NEW k, NEW text,
         Parsed(k, text), text = <<>> \/ Found(k, text)
  PROVE  IInv' /\ AStep
<1>1. TypeOK /\ Modes /\ Elements /\ ~ done /\ started /\ err = "" /\ (array => ~ first)
  BY DEF IInv, Modes
<1>2. CASE ~ Parse(text)
  <2>1. Finish("parse error")
    BY <1>2 DEF Parsed
  <2>2. "parse error" \in Errors /\ "parse error" # "EOF" /\ pc # "idle"
    BY DEF Errors
  <2>. QED  BY <2>1, <2>2, FinishStep
<1>3. CASE Parse(text)
  <2>1. Found(k, text)
    BY <1>3, StreamAssumption
  <2>2. /\ started' = started /\ array' = array /\ first' = first /\ done' = done
        /\ err' = err /\ out' = out /\ depth' = depth /\ inString' = inString
        /\ escaped' = escaped /\ current' = text /\ from' = k
    BY <1>3 DEF Parsed, root
  <2>3. k \in Nat /\ text \in Seq(STRING)
    BY <2>1 DEF Found
  <2>4. CASE array
    <3>1. /\ result' = TRUE /\ pc' = "idle" /\ ret' = ret
          /\ delivered' = Append(delivered, [from |-> k, text |-> text])
      BY <1>3, <2>4 DEF Parsed
    <3>2. AllSlices /\ Ordered /\ done' = FALSE
      BY <1>1, <2>2 DEF Elements, TypeOK
    <3>3. /\ delivered' \in Seq(ElementSet) /\ AllSlices' /\ Ordered'
          /\ delivered' # <<>> /\ delivered'[Len(delivered')].text = text
          /\ AStep
      BY <1>1, <1>3, <2>1, <3>1, <3>2, DeliverStep
    <3>4. TypeOK'
      BY <1>1, <2>2, <2>3, <3>1, <3>3, ReadsFacts DEF TypeOK, PCs
    <3>5. Modes' /\ CleanEnd' /\ ValueIsCurrent'
      BY <1>1, <2>2, <2>4, <3>1, <3>2, <3>3 DEF Modes, CleanEnd, ValueIsCurrent, Skips
    <3>6. Buffers' /\ Elements'
      BY <1>1, <2>2, <2>4, <3>1, <3>3 DEF Buffers, SlashRead, Elements, Skips
    <3>. QED  BY <3>3, <3>4, <3>5, <3>6 DEF IInv
  <2>5. CASE ~ array
    <3>1. pc' = "skip" /\ ret' = "tail" /\ result' = result /\ delivered' = delivered
      BY <1>3, <2>5 DEF Parsed, SkipTo, caller
    <3>2. TypeOK'
      BY <1>1, <2>2, <2>3, <3>1, ReadsFacts DEF TypeOK, PCs, Rets
    <3>3. Modes' /\ CleanEnd' /\ ValueIsCurrent'
      BY <1>1, <2>2, <2>5, <3>1 DEF Modes, CleanEnd, ValueIsCurrent, Skips
    <3>4. Buffers'
      <4>1. Slice(from, current)'
        <5>1. input' = input
          BY DEF Reads
        <5>. QED  BY <2>1, <2>2, <5>1 DEF Slice, Found
      <4>2. Parse(current')
        BY <1>3, <2>2
      <4>. QED  BY <3>1, <4>1, <4>2 DEF Buffers, SlashRead, Skips
    <3>5. Elements'
      BY <1>1, <2>2, <3>1, ElementsKept DEF Elements, Skips
    <3>6. AStep
      BY <1>1, <2>2, <3>1, ReadsFacts, Stutters
    <3>. QED  BY <3>2, <3>3, <3>4, <3>5, <3>6 DEF IInv
  <2>. QED  BY <2>4, <2>5
<1>. QED  BY <1>2, <1>3

(* What readValue() has read, and what of it bytes.TrimSpace() leaves, has  *)
(* been found. *)
LEMMA TrimmedStep ==
  ASSUME IInv, pc = "value", Reads, ParsedTrimmed
  PROVE  IInv' /\ AStep
<1>1. /\ Slice(from, out) /\ from + Len(out) - 1 = offset /\ Behind(from)
      /\ out \in Seq(STRING) /\ from \in Nat
  BY DEF IInv, Buffers, Elements, TypeOK
<1>2. CASE Kept(out) = {} /\ Parsed(from, <<>>)
  BY <1>1, <1>2, ParsedStep
<1>3. ASSUME NEW lo \in Kept(out), NEW hi \in Kept(out),
             \A i \in Kept(out) : lo <= i /\ i <= hi,
             Parsed(from + lo - 1, SubSeq(out, lo, hi))
      PROVE  IInv' /\ AStep
  <2>. DEFINE k == from + lo - 1
             text == SubSeq(out, lo, hi)
  <2>1. /\ lo \in 1..Len(out) /\ hi \in 1..Len(out) /\ lo <= hi /\ Len(out) \in Nat
        /\ lo \in Int /\ hi \in Int
    BY <1>1, <1>3, LenProperties DEF Kept
  <2>2. \A i \in lo..hi : out[i] \in STRING
    <3>1. \A i \in 1..Len(out) : out[i] \in STRING
      BY <1>1, ElementOfSeq
    <3>. QED  BY <2>1, <3>1
  <2>3. /\ text \in Seq(STRING) /\ Len(text) = hi - lo + 1
        /\ \A j \in 1..(hi - lo + 1) : text[j] = out[lo + j - 1]
    BY <2>1, <2>2, SubSeqProperties
  <2>. HIDE DEF text
  <2>4. /\ from \in Nat \ {0} /\ from + Len(out) - 1 <= offset' /\ offset \in Nat /\ offset' \in Nat
        /\ \A j \in 1..Len(out) : out[j] = input[from + j - 1]
    <3>1. /\ from \in Nat \ {0}
          /\ \A j \in 1..Len(out) : out[j] = input[from + j - 1]
      BY <1>1 DEF Slice
    <3>2. offset \in Nat
      BY InputFacts DEF IInv
    <3>3. offset' \in Nat /\ offset <= offset'
      BY DEF Reads
    <3>. QED  BY <1>1, <2>1, <3>1, <3>2, <3>3
  <2>5. k \in Nat \ {0} /\ Len(text) \in Nat \ {0} /\ k + Len(text) - 1 <= offset'
    BY <2>1, <2>3, <2>4
  <2>6. ASSUME NEW j \in 1..Len(text)
        PROVE  text[j] = input[k + j - 1]
    <3>1. j \in 1..(hi - lo + 1) /\ lo + j - 1 \in 1..Len(out)
          /\ from + (lo + j - 1) - 1 = k + j - 1
      BY <2>1, <2>3, <2>4
    <3>. QED  BY <2>3, <2>4, <3>1
  <2>7. Behind(k)
    <3>1. ASSUME NEW i \in 1..Len(delivered)
          PROVE  delivered[i].from + Len(delivered[i].text) < k
      <4>1. /\ delivered[i].from + Len(delivered[i].text) < from
            /\ delivered[i].from \in Nat /\ Len(delivered[i].text) \in Nat
        BY <1>1 DEF Behind, IInv, Elements, AllSlices, Slice
      <4>. QED  BY <4>1, <2>1, <2>4
    <3>. QED  BY <3>1 DEF Behind
  <2>8. Found(k, text)
    <3>. HIDE DEF k
    <3>. QED  BY <2>3, <2>5, <2>6, <2>7 DEF Found
  <2>9. Parsed(k, text)
    BY <1>3 DEF text
  <2>. HIDE DEF k
  <2>. QED  BY <2>8, <2>9, ParsedStep
<1>. QED  BY <1>2, <1>3 DEF ParsedTrimmed

(* The byte that ends a string or a container belongs to it. *)
LEMMA WholeStep ==
  ASSUME IInv, Reading, Take, Parsed(from, Append(out, Byte))
  PROVE  IInv' /\ AStep
<1>1. pc = "value" /\ ~ AtEnd /\ offset' = offset + 1
      /\ input' = input /\ tail' = tail /\ previous' = previous
  BY DEF Reading, Take
<1>2. /\ TypeOK /\ Slice(from, out) /\ from + Len(out) - 1 = offset /\ Behind(from)
      /\ out \in Seq(STRING) /\ previous \in Previous
  BY <1>1 DEF IInv, Buffers, Elements, TypeOK
<1>3. /\ offset \in Nat /\ offset + 1 \in 1..Len(input) /\ Byte \in STRING
      /\ Byte = input[offset + 1] /\ Len(input) \in Nat
  BY <1>1, <1>2, InputFacts
<1>4. Reads
  BY <1>1, <1>2, <1>3 DEF Reads
<1>. DEFINE text == Append(out, Byte)
<1>5. /\ text \in Seq(STRING) /\ Len(text) = Len(out) + 1 /\ Len(out) \in Nat
      /\ \A j \in 1..Len(out) : text[j] = out[j]
      /\ text[Len(out) + 1] = Byte
  BY <1>2, <1>3, AppendProperties, LenProperties
<1>6. Parsed(from, text)
  OBVIOUS
<1>. HIDE DEF text
<1>7. from \in Nat \ {0} /\ \A j \in 1..Len(out) : out[j] = input[from + j - 1]
  BY <1>2 DEF Slice
<1>8. ASSUME NEW j \in 1..Len(text)
      PROVE  text[j] = input[from + j - 1]
  <2>1. CASE j \in 1..Len(out)
    BY <1>5, <1>7, <2>1
  <2>2. CASE j = Len(out) + 1
    <3>1. from + j - 1 = offset + 1
      BY <1>2, <1>3, <1>5, <1>7, <2>2
    <3>. QED  BY <1>3, <1>5, <2>2, <3>1
  <2>. QED  BY <1>5, <2>1, <2>2
<1>9. Len(text) \in Nat \ {0} /\ from + Len(text) - 1 <= offset'
  BY <1>1, <1>2, <1>3, <1>5, <1>7
<1>10. Found(from, text)
  BY <1>2, <1>5, <1>7, <1>8, <1>9 DEF Found
<1>. QED  BY <1>1, <1>4, <1>6, <1>10, ParsedStep

(* readNonSpace() reads a byte, and does not return. *)
LEMMA BlankStep ==
  ASSUME IInv, pc \in Skips, ~ AtEnd, Take, NEW p \in Skips, Blank(p),
         input' = input, tail' = tail, previous' \in Previous,
         p = "slash" => Byte = "/" /\ pc # "slash"
  PROVE  IInv' /\ AStep
<1>1. TypeOK /\ Modes /\ ~ done /\ previous \in Previous
  BY DEF IInv, Modes, Skips, TypeOK
<1>2. /\ pc' = p /\ ret' = ret /\ started' = started /\ array' = array /\ first' = first
      /\ offset' = offset + 1 /\ UNCHANGED local /\ Continue
      /\ done' = done /\ err' = err /\ delivered' = delivered
  BY DEF Blank, Take, root, Continue, caller
<1>3. /\ offset \in Nat /\ offset + 1 <= Len(input) /\ Byte = input[offset + 1]
  BY <1>1, InputFacts
<1>4. Reads
  BY <1>2, <1>3 DEF Reads
<1>5. Modes'
  BY <1>1, <1>2 DEF Modes, Skips
<1>6. SlashRead'
  BY <1>2, <1>3 DEF SlashRead
<1>7. ASSUME ret' = "next"
      PROVE  BehindHere'
  <2>1. BehindHere
    BY <1>2, <1>7 DEF IInv, Elements
  <2>. DEFINE m == IF pc = "slash" THEN offset ELSE offset + 1
              n == IF p = "slash" THEN offset + 1 ELSE offset + 1 + 1
  <2>2. m \in Nat /\ n \in Nat /\ m <= n
    BY <1>3
  <2>. HIDE DEF m, n
  <2>3. ASSUME NEW i \in 1..Len(delivered)
        PROVE  delivered[i].from + Len(delivered[i].text) < n
    <3>1. /\ delivered[i].from + Len(delivered[i].text) < m
          /\ delivered[i].from \in Nat /\ Len(delivered[i].text) \in Nat
      BY <2>1 DEF BehindHere, Behind, m, IInv, Elements, AllSlices, Slice
    <3>. QED  BY <2>2, <3>1
  <2>. QED  BY <1>2, <2>3 DEF BehindHere, Behind, n
<1>8. pc' \in Skips /\ ret' \in Rets /\ started' \in BOOLEAN /\ array' \in BOOLEAN /\ first' \in BOOLEAN
  BY <1>1, <1>2 DEF TypeOK
<1>. QED  BY <1>1, <1>2, <1>4, <1>5, <1>6, <1>7, <1>8, SkipStep

(* The byte b that readNonSpace() returns stands at k, and all that has     *)
(* been delivered before it. *)
Stands(b, k) ==
  /\ offset' = k /\ k >= 1 /\ input[k] = b
  /\ b = "," => k = offset + 1
  /\ ret = "next" => Behind(k)

(* readNonSpace() returns the byte b to where it was called from.           *)
LEMMA ReturnStep ==
  ASSUME IInv, pc \in Skips, NEW b \in STRING, NEW k \in Nat, Return(b, k), Reads, Stands(b, k)
  PROVE  IInv' /\ AStep
<1>1. /\ TypeOK /\ Modes /\ Elements /\ ~ done /\ pc # "idle"
      /\ (first => delivered = <<>>) /\ (delivered = <<>> => Behind(k))
      /\ started \in BOOLEAN /\ array \in BOOLEAN /\ first \in BOOLEAN
  <2>1. ASSUME delivered = <<>>
        PROVE  Behind(k)
    <3>1. Len(delivered) = 0
      BY <2>1
    <3>2. 1..Len(delivered) = {}
      BY <3>1
    <3>. QED  BY <3>2 DEF Behind
  <2>2. TypeOK /\ Modes /\ Elements
    BY DEF IInv
  <2>3. ~ done /\ pc # "idle"
    BY <2>2 DEF Modes, Skips
  <2>4. first => delivered = <<>>
    BY <2>2, <2>3 DEF Elements
  <2>. QED  BY <2>1, <2>2, <2>3, <2>4 DEF TypeOK
<1>2. ret = "next" \/ delivered = <<>> => Begins(b, k)
  BY <1>1 DEF Begins, Stands
<1>3. ASSUME NEW e \in Errors, e # "EOF", Finish(e)
      PROVE  IInv' /\ AStep
  BY <1>1, <1>3, FinishStep
<1>4. ASSUME NEW r \in {"item", "next", "end"}, SkipTo(r), Continue, UNCHANGED local,
             started' = TRUE, array' = TRUE, first' \in BOOLEAN, first' => first,
             r = "next" => ~ first' /\ b = "," /\ first' = first
      PROVE  IInv' /\ AStep
  <2>1. pc' = "skip" /\ ret' = r /\ done' = done /\ err' = err /\ delivered' = delivered
    BY <1>4 DEF SkipTo, Continue, caller
  <2>2. Modes' /\ SlashRead'
    BY <1>1, <1>4, <2>1 DEF Modes, Skips, SlashRead
  <2>3. ASSUME ret' = "next"
        PROVE  BehindHere'
    <3>1. k = offset + 1 /\ offset' = k
      BY <1>4, <2>1, <2>3 DEF Stands
    <3>2. ASSUME NEW i \in 1..Len(delivered)
          PROVE  delivered[i].from + Len(delivered[i].text) < k + 1
      <4>1. /\ delivered[i].from + Len(delivered[i].text) - 1 <= offset
            /\ delivered[i].from \in Nat /\ Len(delivered[i].text) \in Nat
        BY <1>1 DEF Elements, AllSlices, Slice
      <4>2. offset \in Nat
        BY <1>1, InputFacts
      <4>. QED  BY <3>1, <4>1, <4>2
    <3>. QED  BY <2>1, <3>1, <3>2 DEF BehindHere, Behind
  <2>4. pc' \in Skips /\ ret' \in Rets /\ started' \in BOOLEAN /\ array' \in BOOLEAN
    BY <1>4, <2>1 DEF Skips, Rets
  <2>. QED  BY <1>1, <1>4, <2>1, <2>2, <2>3, <2>4, SkipStep
<1>5. CASE Root(b, k)
  <2>1. ~ started /\ ~ array /\ first /\ delivered = <<>>
    BY <1>1, <1>5 DEF Root, Modes
  <2>2. CASE b = "["
    <3>1. /\ SkipTo("item") /\ Continue /\ UNCHANGED local
          /\ started' = TRUE /\ array' = TRUE /\ first' = first
      BY <1>5, <2>2 DEF Root
    <3>. QED  BY <1>1, <1>4, <3>1
  <2>3. CASE b # "["
    <3>1. /\ ReadValue(b, k) /\ Continue /\ started' = TRUE /\ array' = array /\ first' = first
      BY <1>5, <2>3 DEF Root
    <3>. QED  BY <1>1, <1>2, <2>1, <3>1, ReadValueStep
  <2>. QED  BY <2>2, <2>3
<1>6. CASE EndArray(b)
  <2>1. array /\ started
    BY <1>1, <1>6 DEF EndArray, Modes
  <2>. QED  BY <1>1, <1>4, <1>6, <2>1 DEF EndArray
<1>7. CASE FirstElement(b, k)
  <2>1. array /\ started /\ first /\ delivered = <<>>
    BY <1>1, <1>7 DEF FirstElement, Modes
  <2>2. /\ ReadValue(b, k) /\ Continue /\ started' = TRUE /\ array' = array /\ first' = FALSE
    BY <1>1, <1>7, <2>1 DEF FirstElement
  <2>. QED  BY <1>1, <1>2, <2>1, <2>2, ReadValueStep
<1>8. CASE Comma(b)
  <2>1. array /\ started
    BY <1>1, <1>8 DEF Comma, Modes
  <2>2. started' = TRUE /\ array' = TRUE /\ first' = first /\ ~ first
    BY <1>1, <1>8, <2>1 DEF Comma, root
  <2>. QED  BY <1>1, <1>4, <1>8, <2>1, <2>2 DEF Comma
<1>9. CASE NoComma(b) \/ TrailingComma(b) \/ TrailingData(b)
  BY <1>3, <1>9 DEF NoComma, TrailingComma, TrailingData, Errors
<1>10. CASE Element(b, k)
  <2>1. array /\ started /\ ~ first /\ ret = "next"
    BY <1>1, <1>10 DEF Element, Modes
  <2>2. /\ ReadValue(b, k) /\ Continue /\ started' = TRUE /\ array' = array /\ first' = FALSE
    BY <1>1, <1>10, <2>1 DEF Element, root
  <2>. QED  BY <1>1, <1>2, <2>1, <2>2, ReadValueStep
<1>. QED  BY <1>5, <1>6, <1>7, <1>8, <1>9, <1>10 DEF Return

(* readNonSpace() returns an error, which is io.EOF only at the end. *)
LEMMA ReturnErrorStep ==
  ASSUME IInv, pc \in Skips, NEW e \in {"EOF", "failure", "unexpectedEOF"}, ReturnError(e), Reads,
         e = "EOF" => tail = "EOF" /\ offset' = Len(input)
  PROVE  IInv' /\ AStep
<1>1. TypeOK /\ Modes /\ Elements /\ ~ done /\ pc # "idle"
  BY DEF IInv, Modes, Skips
<1>2. CASE Finish(e)
  <2>1. e \in Errors
    BY DEF Errors
  <2>. QED  BY <1>1, <1>2, <2>1, FinishStep
<1>3. CASE Finish(UnexpectedEOF(e))
  <2>1. UnexpectedEOF(e) \in Errors /\ UnexpectedEOF(e) # "EOF"
    BY DEF Errors, UnexpectedEOF
  <2>. QED  BY <1>1, <1>3, <2>1, FinishStep
<1>4. CASE SingleDone(e)
  <2>1. /\ ret = "tail" /\ e = "EOF" /\ done' = TRUE /\ err' = "EOF" /\ result' = TRUE
        /\ delivered' = Append(delivered, [from |-> from, text |-> current])
        /\ pc' = "idle" /\ ret' = ret /\ current' = current
        /\ started' = started /\ array' = array /\ first' = first
        /\ from' = from /\ out' = out /\ depth' = depth /\ inString' = inString /\ escaped' = escaped
    BY <1>4 DEF SingleDone, root, local
  <2>2. ~ array /\ first /\ delivered = <<>>
    BY <1>1, <2>1 DEF Modes, Elements
  <2>3. Slice(from, current) /\ Parse(current) /\ current \in Seq(STRING)
    BY <1>1, <2>1 DEF IInv, Buffers, TypeOK
  <2>4. Found(from, current)
    <3>1. from + Len(current) - 1 <= offset'
      BY <1>1, <2>3, SliceKept
    <3>. QED  BY <2>2, <2>3, <3>1 DEF Found, Slice, Behind
  <2>5. AllSlices /\ Ordered /\ tail = "EOF" /\ offset' = Len(input)
    BY <1>1, <2>1 DEF Elements
  <2>6. /\ delivered' \in Seq(ElementSet) /\ AllSlices' /\ Ordered'
        /\ delivered' # <<>> /\ delivered'[Len(delivered')].text = current
        /\ AStep
    BY <1>1, <2>1, <2>3, <2>4, <2>5, DeliverStep
  <2>7. TypeOK'
    <3>1. "EOF" \in Errors
      BY DEF Errors
    <3>. QED  BY <1>1, <2>1, <2>6, <3>1, ReadsFacts DEF TypeOK, PCs
  <2>8. Modes' /\ CleanEnd' /\ ValueIsCurrent'
    BY <1>1, <2>1, <2>2, <2>5, <2>6, ReadsFacts DEF Modes, CleanEnd, ValueIsCurrent, Skips
  <2>9. Buffers' /\ Elements'
    BY <2>1, <2>6 DEF Buffers, SlashRead, Elements, Skips
  <2>. QED  BY <2>6, <2>7, <2>8, <2>9 DEF IInv
<1>. QED  BY <1>2, <1>3, <1>4 DEF ReturnError

-----------------------------------------------------------------------------
(* The entry of Next(). *)
LEMMA EntryStep ==
  ASSUME IInv, Entry
  PROVE  IInv' /\ AStep
<1>1. /\ pc = "idle" /\ TypeOK /\ Modes /\ Elements /\ CleanEnd /\ ValueIsCurrent
      /\ input' = input /\ tail' = tail /\ offset' = offset /\ previous' = previous
      /\ started' = started /\ array' = array /\ first' = first
      /\ done' = done /\ current' = current /\ err' = err /\ delivered' = delivered
      /\ from' = from /\ out' = out /\ depth' = depth /\ inString' = inString /\ escaped' = escaped
  BY DEF IInv, Entry, NextEnded, NextStarts, NextItem, SkipTo, Continue, caller, root, local
<1>2. Reads
  <2>1. offset \in Nat /\ offset <= Len(input) /\ previous \in Previous
    BY <1>1, InputFacts DEF TypeOK
  <2>. QED  BY <1>1, <2>1 DEF Reads
<1>3. CASE NextEnded
  <2>1. result' = FALSE /\ pc' = pc /\ ret' = ret
    BY <1>3 DEF NextEnded
  <2>2. TypeOK'
    BY <1>1, <2>1 DEF TypeOK
  <2>3. Modes' /\ CleanEnd' /\ ValueIsCurrent'
    BY <1>1, <2>1 DEF Modes, CleanEnd, ValueIsCurrent, Skips
  <2>4. Buffers' /\ Elements'
    BY <1>1, <1>2, <2>1, ElementsKept DEF Buffers, SlashRead, Elements, Skips
  <2>. QED  BY <1>1, <2>2, <2>3, <2>4, Stutters DEF IInv
<1>4. CASE NextStarts \/ NextItem
  <2>1. /\ ~ done /\ err = "" /\ pc' = "skip" /\ Continue
        /\ (ret' = "first" /\ ~ started) \/ (ret' = "item" /\ started)
    BY <1>4 DEF NextStarts, NextItem, SkipTo
  <2>2. Modes' /\ SlashRead'
    BY <1>1, <2>1 DEF Modes, Skips, SlashRead
  <2>3. /\ pc' \in Skips /\ ret' \in Rets /\ ret' # "tail" /\ ret' # "next"
        /\ started' \in BOOLEAN /\ array' \in BOOLEAN /\ first' \in BOOLEAN
    BY <1>1, <2>1 DEF Skips, Rets, TypeOK
  <2>4. UNCHANGED local
    BY <1>1 DEF local
  <2>. QED  BY <1>1, <1>2, <2>1, <2>2, <2>3, <2>4, SkipStep
<1>. QED  BY <1>3, <1>4 DEF Entry

(* readNonSpace(). *)
LEMMA SkippingStep ==
  ASSUME IInv, Skipping
  PROVE  IInv' /\ AStep
<1>1. pc \in Skips /\ TypeOK /\ ~ done
  BY DEF IInv, Modes, Skipping, Skips, SkipSpace, Slash, SkipDone, OpenLine, OpenBlock, LoneSlash,
         LineByte, BlockByte, SkipError, BlockError
<1>2. /\ offset \in Nat /\ offset <= Len(input) /\ Len(input) \in Nat /\ previous \in Previous
      /\ ~ AtEnd => Byte \in STRING /\ Byte = input[offset + 1] /\ offset + 1 <= Len(input)
  <2>1. previous \in Previous
    BY <1>1 DEF TypeOK
  <2>2. /\ offset \in Nat /\ offset <= Len(input) /\ Len(input) \in Nat
        /\ ~ AtEnd => Byte \in STRING /\ Byte = input[offset + 1] /\ offset + 1 \in 1..Len(input)
    BY <1>1, InputFacts
  <2>3. offset + 1 \in 1..Len(input) => offset + 1 <= Len(input)
    BY <2>2
  <2>. QED  BY <2>1, <2>2, <2>3
<1>3. CASE SkipSpace
  BY <1>1, <1>2, <1>3, BlankStep DEF SkipSpace, Skips
<1>4. CASE Slash
  BY <1>1, <1>2, <1>4, BlankStep DEF Slash, Skips
<1>5. CASE OpenLine
  BY <1>1, <1>2, <1>5, BlankStep DEF OpenLine, Skips
<1>6. CASE OpenBlock
  <2>1. /\ ~ AtEnd /\ Take /\ Blank("block") /\ input' = input /\ tail' = tail
        /\ previous' = "NUL"
    BY <1>6 DEF OpenBlock
  <2>2. previous' \in Previous /\ "block" \in Skips /\ "block" # "slash"
    BY <2>1 DEF Skips, Previous
  <2>. QED  BY <1>1, <2>1, <2>2, BlankStep
<1>7. CASE LineByte
  BY <1>1, <1>2, <1>7, BlankStep DEF LineByte, Skips
<1>8. CASE BlockByte
  <2>1. ~ AtEnd /\ Take /\ input' = input /\ tail' = tail /\ previous' = Byte
    BY <1>8 DEF BlockByte
  <2>2. previous' \in Previous
    BY <1>2, <2>1 DEF Previous
  <2>3. \E p \in {"skip", "block"} : Blank(p)
    BY <1>8 DEF BlockByte
  <2>. QED  BY <1>1, <2>1, <2>2, <2>3, BlankStep DEF Skips
<1>9. CASE SkipDone
  <2>1. /\ pc = "skip" /\ ~ AtEnd /\ offset' = offset + 1 /\ Return(Byte, offset + 1)
        /\ input' = input /\ tail' = tail /\ previous' = previous
    BY <1>9 DEF SkipDone, Take
  <2>2. Reads
    BY <1>2, <2>1 DEF Reads
  <2>3. ret = "next" => Behind(offset + 1)
    BY <1>1, <2>1 DEF IInv, Elements, BehindHere
  <2>4. Stands(Byte, offset + 1) /\ offset + 1 \in Nat /\ Byte \in STRING
    BY <1>2, <2>1, <2>3 DEF Stands
  <2>. QED  BY <1>1, <2>1, <2>2, <2>4, ReturnStep
<1>10. CASE LoneSlash
  <2>1. /\ pc = "slash" /\ offset' = offset /\ Return("/", offset)
        /\ input' = input /\ tail' = tail /\ previous' = previous
    BY <1>10 DEF LoneSlash
  <2>2. Reads
    BY <1>2, <2>1 DEF Reads
  <2>3. /\ offset >= 1 /\ input[offset] = "/"
        /\ ret = "next" => Behind(offset)
    BY <1>1, <2>1 DEF IInv, Buffers, SlashRead, Elements, BehindHere
  <2>4. Stands("/", offset)
    BY <1>2, <2>1, <2>3 DEF Stands
  <2>5. "/" \in STRING
    <3>1. offset \in 1..Len(input)
      BY <1>2, <2>3
    <3>. QED  BY <1>1, <2>3, <3>1, InputFacts
  <2>. QED  BY <1>1, <1>2, <2>1, <2>2, <2>4, <2>5, ReturnStep
<1>11. CASE SkipError \/ BlockError
  <2>1. /\ offset' = offset /\ input' = input /\ tail' = tail /\ previous' = previous
        /\ offset = Len(input)
        /\ ReturnError(tail) \/ ReturnError(UnexpectedEOF(tail))
    BY <1>11 DEF SkipError, BlockError, AtEnd
  <2>2. Reads
    BY <1>2, <2>1 DEF Reads
  <2>3. tail \in {"EOF", "failure"} /\ UnexpectedEOF(tail) \in {"failure", "unexpectedEOF"}
    BY <1>1 DEF TypeOK, UnexpectedEOF
  <2>. QED  BY <1>1, <2>1, <2>2, <2>3, ReturnErrorStep
<1>. QED  BY <1>3, <1>4, <1>5, <1>6, <1>7, <1>8, <1>9, <1>10, <1>11 DEF Skipping

(* readValue(). *)
LEMMA ValueStep ==
  ASSUME IInv, Value
  PROVE  IInv' /\ AStep
<1>1. pc = "value" /\ pc # "idle"
  BY DEF Value, StringByte, StringEnd, StringValue, StringStart, Nest, Unnest, ContainerValue,
         Delimited, Spaced, OtherByte, ValueEOF, ValueError, Reading
<1>2. /\ TypeOK /\ ~ done
      /\ depth \in Nat /\ inString \in BOOLEAN /\ escaped \in BOOLEAN
  BY <1>1 DEF IInv, Modes, TypeOK
<1>3. /\ offset \in Nat /\ offset <= Len(input) /\ Len(input) \in Nat /\ previous \in Previous
      /\ ~ AtEnd => offset + 1 <= Len(input)
  <2>1. previous \in Previous
    BY <1>2 DEF TypeOK
  <2>2. /\ offset \in Nat /\ offset <= Len(input) /\ Len(input) \in Nat
        /\ ~ AtEnd => offset + 1 \in 1..Len(input)
    BY <1>2, InputFacts
  <2>3. offset + 1 \in 1..Len(input) => offset + 1 <= Len(input)
    BY <2>2
  <2>. QED  BY <2>1, <2>2, <2>3
<1>4. CASE StringByte
  BY <1>2, <1>4, MoreStep DEF StringByte
<1>5. CASE StringEnd
  BY <1>2, <1>5, MoreStep DEF StringEnd
<1>6. CASE StringStart
  BY <1>2, <1>6, MoreStep DEF StringStart
<1>7. CASE Nest
  <2>1. Reading /\ Take /\ Keep(Byte) /\ More
        /\ depth' = depth + 1 /\ inString' = inString /\ escaped' = escaped
    BY <1>7 DEF Nest
  <2>2. depth' \in Nat
    BY <1>2, <2>1
  <2>. QED  BY <1>2, <2>1, <2>2, MoreStep
<1>8. CASE Unnest
  <2>1. Reading /\ Take /\ Keep(Byte) /\ More /\ depth > 1
        /\ depth' = depth - 1 /\ inString' = inString /\ escaped' = escaped
    BY <1>8 DEF Unnest
  <2>2. depth' \in Nat
    BY <1>2, <2>1
  <2>. QED  BY <1>2, <2>1, <2>2, MoreStep
<1>9. CASE OtherByte
  BY <1>2, <1>9, MoreStep DEF OtherByte
<1>10. CASE StringValue \/ ContainerValue
  BY <1>10, WholeStep DEF StringValue, ContainerValue
<1>11. CASE Delimited \/ Spaced \/ ValueEOF
  <2>1. /\ ParsedTrimmed /\ input' = input /\ tail' = tail /\ previous' = previous
        /\ offset' = offset \/ (~ AtEnd /\ offset' = offset + 1)
    BY <1>11 DEF Delimited, Spaced, ValueEOF, Reading, Take
  <2>2. Reads
    <3>1. offset' \in Nat /\ offset <= offset' /\ offset' <= Len(input)
      BY <1>3, <2>1
    <3>2. previous' \in Previous
      BY <1>3, <2>1
    <3>. QED  BY <2>1, <3>1, <3>2 DEF Reads
  <2>. QED  BY <1>1, <2>1, <2>2, TrimmedStep
<1>12. CASE ValueError
  <2>1. /\ Finish(UnexpectedEOF(tail)) /\ input' = input /\ tail' = tail /\ previous' = previous
        /\ offset' = offset
    BY <1>12 DEF ValueError
  <2>2. Reads
    <3>1. offset' \in Nat /\ offset <= offset' /\ offset' <= Len(input)
      BY <1>3, <2>1
    <3>2. previous' \in Previous
      BY <1>3, <2>1
    <3>. QED  BY <2>1, <3>1, <3>2 DEF Reads
  <2>3. UnexpectedEOF(tail) \in Errors /\ UnexpectedEOF(tail) # "EOF"
    BY <1>2 DEF TypeOK, Errors, UnexpectedEOF
  <2>. QED  BY <1>1, <2>1, <2>2, <2>3, FinishStep
<1>. QED  BY <1>4, <1>5, <1>6, <1>7, <1>8, <1>9, <1>10, <1>11, <1>12 DEF Value

(* Every step keeps the invariant and is a step of ElementStream. *)
LEMMA NextIInv ==
  ASSUME IInv, [Next]_vars
  PROVE  IInv' /\ AStep
<1>1. CASE Next
  BY <1>1, EntryStep, SkippingStep, ValueStep DEF Next
<1>2. CASE UNCHANGED vars
  <2>1. /\ input' = input /\ tail' = tail /\ offset' = offset /\ previous' = previous
        /\ started' = started /\ array' = array /\ first' = first
        /\ done' = done /\ current' = current /\ err' = err /\ delivered' = delivered
        /\ from' = from /\ out' = out /\ depth' = depth /\ inString' = inString
        /\ escaped' = escaped /\ pc' = pc /\ ret' = ret /\ result' = result
    BY <1>2 DEF vars, root, local, caller
  <2>2. TypeOK' /\ Modes' /\ CleanEnd' /\ ValueIsCurrent'
    BY <2>1 DEF IInv, TypeOK, Modes, CleanEnd, ValueIsCurrent
  <2>3. Buffers' /\ Elements'
    BY <2>1 DEF IInv, Buffers, SlashRead, Slice, Elements, AllSlices, Ordered, BehindHere, Behind
  <2>. QED  BY <2>1, <2>2, <2>3, Stutters DEF IInv
<1>. QED  BY <1>1, <1>2

(* The reader starts in the invariant, and with nothing to show. *)
LEMMA InitIInv ==
  ASSUME Init
  PROVE  IInv /\ Abstract!Init
<1>1. /\ input \in Seq(STRING) /\ Len(input) \in Nat
  BY StreamAssumption, LenProperties DEF Init
<1>2. <<>> \in Seq(STRING) /\ <<>> \in Seq(ElementSet)
  BY EmptySeq
<1>3. TypeOK
  <2>1. offset \in 0..Len(input) /\ from \in Nat /\ depth \in Nat
    <3>1. offset = 0 /\ from = 1 /\ depth = 0
      BY DEF Init
    <3>2. 0 \in 0..Len(input)
      BY <1>1
    <3>. QED  BY <3>1, <3>2
  <2>2. previous \in Previous
    BY DEF Init, Previous
  <2>. QED  BY <1>1, <1>2, <2>1, <2>2 DEF Init, TypeOK, PCs, Rets
<1>4. Modes /\ CleanEnd /\ ValueIsCurrent
  BY DEF Init, Modes, CleanEnd, ValueIsCurrent, Skips
<1>5. Buffers
  BY DEF Init, Buffers, SlashRead, Skips
<1>6. Elements
  <2>1. delivered = <<>> /\ Len(delivered) = 0
    BY DEF Init
  <2>2. 1..Len(delivered) = {}
    BY <2>1
  <2>. QED  BY <2>1, <2>2 DEF Init, Elements, AllSlices, Ordered, Skips
<1>7. Abstract!Init
  BY DEF Init, Abstract!Init, Verdict
<1>. QED  BY <1>3, <1>4, <1>5, <1>6, <1>7 DEF IInv

(* A slice in the words of ElementsAreSlices. *)
LEMMA SliceIsSubSeq ==
  ASSUME TypeOK, NEW k, NEW text, text \in Seq(STRING), Slice(k, text)
  PROVE  k >= 1 /\ Len(text) >= 1 /\ text = SubSeq(input, k, k + Len(text) - 1)
<1>. DEFINE l == k + Len(text) - 1
<1>1. /\ k \in Nat \ {0} /\ Len(text) \in Nat \ {0} /\ l <= Len(input) /\ Len(input) \in Nat
      /\ \A j \in 1..Len(text) : text[j] = input[k + j - 1]
  BY InputFacts DEF Slice
<1>2. k \in Int /\ l \in Int /\ k <= l /\ l - k + 1 = Len(text) /\ k \in 1..Len(input) /\ l \in 1..Len(input)
  BY <1>1
<1>. HIDE DEF l
<1>3. \A i \in k..l : input[i] \in STRING
  BY <1>2, InputFacts
<1>4. /\ SubSeq(input, k, l) \in Seq(STRING)
      /\ Len(SubSeq(input, k, l)) = Len(text)
      /\ \A i \in 1..Len(text) : SubSeq(input, k, l)[i] = input[k + i - 1]
  BY <1>1, <1>2, <1>3, SubSeqProperties
<1>5. text = SubSeq(input, k, l)
  BY <1>1, <1>4, SeqEqual
<1>. QED  BY <1>1, <1>5 DEF l

(* What the invariant says. *)
LEMMA IInvImplies ==
  ASSUME IInv
  PROVE  TypeOK /\ StartedIsArray /\ CleanEnd /\ ValueIsCurrent /\ ElementsAreSlices
<1>1. TypeOK /\ StartedIsArray /\ CleanEnd /\ ValueIsCurrent
  BY DEF IInv, Modes, StartedIsArray
<1>2. ASSUME NEW i \in 1..Len(delivered)
      PROVE  LET e == delivered[i] IN
             /\ e.from >= 1 /\ Len(e.text) >= 1 /\ e.from + Len(e.text) - 1 <= offset
             /\ e.text = SubSeq(input, e.from, e.from + Len(e.text) - 1)
  <2>1. Slice(delivered[i].from, delivered[i].text)
    BY DEF IInv, Elements, AllSlices
  <2>2. delivered[i].text \in Seq(STRING)
    BY <1>1, InputFacts DEF ElementSet
  <2>. QED  BY <1>1, <2>1, <2>2, SliceIsSubSeq DEF Slice
<1>3. Ordered
  BY DEF IInv, Elements
<1>. QED  BY <1>1, <1>2, <1>3 DEF ElementsAreSlices, Ordered

-----------------------------------------------------------------------------
(* The invariant holds in every state of every behaviour. *)
LEMMA Invariance == Spec => []IInv
<1>1. Init => IInv
  BY InitIInv
<1>2. IInv /\ [Next]_vars => IInv'
  BY NextIInv
<1>. QED  BY <1>1, <1>2, PTL DEF Spec

(* The reader's variables keep their types. *)
THEOREM TypeCorrect == Spec => []TypeOK
<1>1. IInv => TypeOK
  BY IInvImplies
<1>. QED  BY <1>1, Invariance, PTL

(* Next() never comes to its "if !s.array" (stream.go 39-42): a reader      *)
(* between two calls that is not done reads an array.                       *)
THEOREM NeverUnarrayed == Spec => []StartedIsArray
<1>1. IInv => StartedIsArray
  BY IInvImplies
<1>. QED  BY <1>1, Invariance, PTL

(* Err() is io.EOF only at the end of a reader that ended without failing.  *)
THEOREM EndsClean == Spec => []CleanEnd
<1>1. IInv => CleanEnd
  BY IInvImplies
<1>. QED  BY <1>1, Invariance, PTL

(* Value() is the element that the call of Next() just delivered, and nil   *)
(* after an array. *)
THEOREM ValueCurrent == Spec => []ValueIsCurrent
<1>1. IInv => ValueIsCurrent
  BY IInvImplies
<1>. QED  BY <1>1, Invariance, PTL

(* readValue(), its UnreadByte() and its trimming give slices of the input, *)
(* in order and apart. *)
THEOREM Slices == Spec => []ElementsAreSlices
<1>1. IInv => ElementsAreSlices
  BY IInvImplies
<1>. QED  BY <1>1, Invariance, PTL

(* StreamReader implements ElementStream: Next() gives texts that Parse     *)
(* accepts, cut from the input from left to right, and one verdict.         *)
THEOREM Refinement == Spec => ImplementsElementStream
<1>1. Init => Abstract!Init
  BY InitIInv
<1>2. IInv /\ [Next]_vars => [Abstract!Next]_(Abstract!vars)
  BY NextIInv DEF AStep
<1>. QED  BY <1>1, <1>2, Invariance, PTL DEF Spec, Abstract!Spec, ImplementsElementStream

=============================================================================
