-------------------------- MODULE BufferPoolProofs --------------------------
(***************************************************************************)
(* Proofs about BufferPool, for any number of calls and buffers: each       *)
(* buffer has one owner, and therefore what Marshal returns is its own.     *)
(***************************************************************************)
EXTENDS BufferPool, TLAPS

(* A call has a buffer between AcquireBuffer() and ReleaseBuffer(). *)
Held ==
  \A c \in Calls : IF pc[c] \in {"start", "returned"} THEN b[c] = NoBuffer ELSE b[c] \in Buffers

(* While it writes, the buffer holds what it wrote. *)
ContentIsOwn ==
  \A c \in Calls : pc[c] = "writing" => WrittenBy(content[b[c]], c, wrote[c])

(* Until it copies, there is nothing to return. *)
NothingYet ==
  \A c \in Calls : pc[c] \in {"start", "acquired", "writing"} => out[c] = <<>>

Ownership == TypeOK /\ Held /\ OneOwner

IInv == Ownership /\ ContentIsOwn /\ NothingYet /\ OutputIsOwn

-----------------------------------------------------------------------------
(* The pool starts empty and no call has a buffer. *)
LEMMA InitIInv == Init => IInv
  BY PoolAssumption
  DEF Init, IInv, Ownership, TypeOK, Places, Held, OneOwner, ContentIsOwn, NothingYet, OutputIsOwn

(* Whatever a call or the garbage collector does, a buffer that is put into *)
(* the pool was that of one call and is not there yet, and one that is      *)
(* taken from it is nobody's.                                               *)
LEMMA OwnershipStep == Ownership /\ [Next]_vars => Ownership'
<1> SUFFICES ASSUME Ownership, [Next]_vars PROVE Ownership'
  OBVIOUS
<1> USE PoolAssumption DEF Ownership, TypeOK, Places, Held, OneOwner, Step
<1>0. <<>> \in Seq(Calls)
  OBVIOUS
<1>1. ASSUME NEW c \in Calls, Acquire(c) PROVE Ownership'
  <2>1. PICK x \in Buffers : Get(x) /\ b' = [b EXCEPT ![c] = x]
    BY <1>1 DEF Acquire
  <2>2. pool'[x] = 0 /\ (\A y \in Buffers : y # x => pool'[y] = pool[y]) /\ \A d \in Calls : b[d] # x
    BY <2>1 DEF Get, New
  <2>3. TypeOK'
    <3>1. pool' \in [Buffers -> Nat]
      <4>1. CASE pool[x] > 0 /\ pool' = [pool EXCEPT ![x] = @ - 1]
        <5>1. pool[x] \in Nat /\ pool[x] - 1 \in Nat
          BY <4>1
        <5>2. QED
          BY <4>1, <5>1
      <4>2. CASE UNCHANGED pool
        BY <4>2
      <4>3. QED
        BY <2>1, <4>1, <4>2 DEF Get
    <3>2. content' \in [Buffers -> Seq(Calls)]
      BY <1>0, <2>1 DEF Get
    <3>3. QED
      BY <1>1, <2>1, <3>1, <3>2 DEF Acquire
  <2>4. Held'
    BY <1>1, <2>1 DEF Acquire
  <2>5. OneOwner'
    <3>1. b'[c] = x /\ \A d \in Calls : d # c => b'[d] = b[d]
      BY <2>1
    <3>2. \A d \in Calls : b'[d] \in Buffers => pool'[b'[d]] = 0
      BY <2>2, <3>1
    <3>3. ASSUME NEW y \in Buffers PROVE pool'[y] <= 1
      <4>1. CASE y = x
        BY <2>2, <4>1
      <4>2. CASE y # x
        <5>1. pool'[y] = pool[y] /\ pool[y] <= 1
          BY <2>2, <4>2
        <5>2. QED
          BY <5>1
      <4>3. QED
        BY <4>1, <4>2
    <3>4. ASSUME NEW d \in Calls, NEW e \in Calls, b'[d] \in Buffers, b'[d] = b'[e]
          PROVE  d = e
      <4>1. CASE d = c \/ e = c
        BY <2>2, <3>1, <3>4, <4>1
      <4>2. CASE d # c /\ e # c
        BY <3>1, <3>4, <4>2
      <4>3. QED
        BY <4>1, <4>2
    <3>5. QED
      BY <3>2, <3>3, <3>4
  <2>6. QED
    BY <2>3, <2>4, <2>5
<1>2. ASSUME NEW c \in Calls, Reset(c) PROVE Ownership'
  <2>1. TypeOK'
    <3>1. content' \in [Buffers -> Seq(Calls)]
      BY <1>0, <1>2 DEF Reset
    <3>2. wrote' \in [Calls -> 0..MaxWrites]
      BY <1>2 DEF Reset
    <3>3. QED
      BY <1>2, <3>1, <3>2 DEF Reset
  <2>2. Held' /\ OneOwner'
    BY <1>2 DEF Reset
  <2>3. QED
    BY <2>1, <2>2
<1>3. ASSUME NEW c \in Calls, Write(c) PROVE Ownership'
  <2>1. TypeOK'
    <3>1. content' \in [Buffers -> Seq(Calls)]
      <4>1. \A s \in Seq(Calls) : Append(s, c) \in Seq(Calls)
        OBVIOUS
      <4>2. b[c] \in Buffers /\ content' = [content EXCEPT ![b[c]] = Append(@, c)]
        BY <1>3 DEF Write
      <4>3. QED
        BY <4>1, <4>2
    <3>2. wrote' \in [Calls -> 0..MaxWrites]
      BY <1>3 DEF Write
    <3>3. QED
      BY <1>3, <3>1, <3>2 DEF Write
  <2>2. Held' /\ OneOwner'
    BY <1>3 DEF Write
  <2>3. QED
    BY <2>1, <2>2
<1>4. ASSUME NEW c \in Calls, Copy(c) PROVE Ownership'
  BY <1>4 DEF Copy
<1>5. ASSUME NEW c \in Calls, Fail(c) PROVE Ownership'
  BY <1>5 DEF Fail
<1>6. ASSUME NEW c \in Calls, Drop(c) PROVE Ownership'
  BY <1>6 DEF Drop
<1>7. ASSUME NEW c \in Calls, Clear(c) PROVE Ownership'
  BY <1>0, <1>7 DEF Clear
<1>8. ASSUME NEW c \in Calls, PutBack(c) PROVE Ownership'
  <2>1. b[c] \in Buffers /\ pool[b[c]] = 0
    BY <1>8 DEF PutBack
  <2>2. pool' = [pool EXCEPT ![b[c]] = 1]
    BY <1>8, <2>1 DEF PutBack, Put
  <2>3. TypeOK'
    BY <1>8, <2>1, <2>2 DEF PutBack
  <2>4. Held' /\ OneOwner'
    BY <1>8, <2>1, <2>2 DEF PutBack
  <2>5. QED
    BY <2>3, <2>4
<1>9. ASSUME NEW c \in Calls, Again(c) PROVE Ownership'
  BY <1>0, <1>9 DEF Again
<1>10. ASSUME NEW x \in Buffers, Collect(x) PROVE Ownership'
  BY <1>10 DEF Collect
<1>11. CASE UNCHANGED vars
  BY <1>11 DEF vars
<1>12. QED
  BY <1>1, <1>2, <1>3, <1>4, <1>5, <1>6, <1>7, <1>8, <1>9, <1>10, <1>11 DEF Next, Marshal

(* What a call writes is not disturbed by another: their buffers differ.    *)
LEMMA ContentStep ==
  ASSUME IInv, [Next]_vars
  PROVE  (ContentIsOwn /\ NothingYet /\ OutputIsOwn)'
<1> USE PoolAssumption DEF IInv, Ownership, TypeOK, Places, Held, OneOwner, Step,
                           ContentIsOwn, NothingYet, OutputIsOwn
<1> DEFINE Goal == (ContentIsOwn /\ NothingYet /\ OutputIsOwn)'
<1>1. ASSUME NEW c \in Calls, Acquire(c) PROVE Goal
  <2>1. PICK x \in Buffers : Get(x) /\ b' = [b EXCEPT ![c] = x]
    BY <1>1 DEF Acquire
  <2>2. \A d \in Calls : b[d] # x
    BY <2>1 DEF Get, New
  <2>3. \A y \in Buffers : y # x => content'[y] = content[y]
    BY <2>1 DEF Get
  <2>4. QED
    BY <1>1, <2>1, <2>2, <2>3 DEF Acquire
<1>2. ASSUME NEW c \in Calls, Reset(c) PROVE Goal
  <2>1. WrittenBy(<<>>, c, 0)
    BY DEF WrittenBy
  <2>2. QED
    BY <1>2, <2>1 DEF Reset
<1>3. ASSUME NEW c \in Calls, Write(c) PROVE Goal
  <2>1. ASSUME NEW s \in Seq(Calls), NEW n \in Nat, WrittenBy(s, c, n)
        PROVE  WrittenBy(Append(s, c), c, n + 1)
    <3>1. Len(Append(s, c)) = Len(s) + 1 /\ Append(s, c)[Len(s) + 1] = c
      BY <2>1
    <3>2. \A i \in 1..Len(s) : Append(s, c)[i] = s[i]
      BY <2>1
    <3>3. QED
      BY <2>1, <3>1, <3>2 DEF WrittenBy
  <2>2. /\ WrittenBy(content[b[c]], c, wrote[c])
        /\ b[c] \in Buffers
        /\ content[b[c]] \in Seq(Calls)
        /\ wrote[c] \in Nat
    <3>1. WrittenBy(content[b[c]], c, wrote[c]) /\ b[c] \in Buffers
      BY <1>3 DEF Write
    <3>2. content[b[c]] \in Seq(Calls)
      BY <3>1
    <3>3. wrote[c] \in 0..MaxWrites
      OBVIOUS
    <3>4. QED
      BY <3>1, <3>2, <3>3
  <2>3. WrittenBy(content'[b'[c]], c, wrote'[c])
    BY <1>3, <2>1, <2>2 DEF Write
  <2>4. \A d \in Calls : (d # c /\ pc[d] = "writing") => content'[b'[d]] = content[b[d]]
    BY <1>3 DEF Write
  <2>5. QED
    BY <1>3, <2>3, <2>4 DEF Write
<1>4. ASSUME NEW c \in Calls, Copy(c) PROVE Goal
  BY <1>4 DEF Copy
<1>5. ASSUME NEW c \in Calls, Fail(c) PROVE Goal
  <2>1. WrittenBy(<<>>, c, 0)
    BY DEF WrittenBy
  <2>2. QED
    BY <1>5, <2>1 DEF Fail
<1>6. ASSUME NEW c \in Calls, Drop(c) PROVE Goal
  BY <1>6 DEF Drop
<1>7. ASSUME NEW c \in Calls, Clear(c) PROVE Goal
  <2>1. \A d \in Calls : (d # c /\ pc[d] = "writing") => content'[b'[d]] = content[b[d]]
    BY <1>7 DEF Clear
  <2>2. QED
    BY <1>7, <2>1 DEF Clear
<1>8. ASSUME NEW c \in Calls, PutBack(c) PROVE Goal
  BY <1>8 DEF PutBack
<1>9. ASSUME NEW c \in Calls, Again(c) PROVE Goal
  BY <1>9 DEF Again
<1>10. ASSUME NEW x \in Buffers, Collect(x) PROVE Goal
  BY <1>10 DEF Collect
<1>11. CASE UNCHANGED vars
  BY <1>11 DEF vars
<1>12. QED
  BY <1>1, <1>2, <1>3, <1>4, <1>5, <1>6, <1>7, <1>8, <1>9, <1>10, <1>11 DEF Next, Marshal

(* The inductive invariant holds. *)
LEMMA Invariance == Spec => []IInv
<1>1. Init => IInv
  BY InitIInv
<1>2. IInv /\ [Next]_vars => IInv'
  BY OwnershipStep, ContentStep DEF IInv
<1>3. QED
  BY <1>1, <1>2, PTL DEF Spec

-----------------------------------------------------------------------------
(* Type correctness. *)
THEOREM TypeCorrect == Spec => []TypeOK
<1>1. IInv => TypeOK
  BY DEF IInv, Ownership
<1>2. QED
  BY <1>1, Invariance, PTL

(* No buffer ever has two owners (AcquireBuffer, ReleaseBuffer). *)
THEOREM Owned == Spec => []OneOwner
<1>1. IInv => OneOwner
  BY DEF IInv, Ownership
<1>2. QED
  BY <1>1, Invariance, PTL

(* Marshal returns what it wrote, whatever other calls do meanwhile.        *)
THEOREM Returned == Spec => []OutputIsOwn
<1>1. IInv => OutputIsOwn
  BY DEF IInv
<1>2. QED
  BY <1>1, Invariance, PTL

=============================================================================
