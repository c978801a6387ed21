----------------------------- MODULE BufferPool -----------------------------
(***************************************************************************)
(* The process-wide pool of buffers (internal/pool.go) and the calls of     *)
(* encode.Marshal that use it: those of several goroutines, and those that  *)
(* a custom marshaler makes while the call it was called from goes on.      *)
(* Getting, resetting, writing and putting back are steps of their own.     *)
(*                                                                          *)
(* What a buffer holds is the sequence of the calls that wrote to it.       *)
(***************************************************************************)
EXTENDS Integers, Sequences

CONSTANTS
  Calls,       (* the calls of Marshal that may be in progress at a time    *)
  Buffers,     (* the buffers there may be; see New                         *)
  NoBuffer,
  MaxWrites    (* bound: how often a call writes                            *)

ASSUME PoolAssumption == NoBuffer \notin Buffers /\ MaxWrites \in Nat

VARIABLES
  pool,        (* how often each buffer is in the sync.Pool                 *)
  content,     (* what each buffer holds                                    *)
  pc,          (* how far each call is                                      *)
  b,           (* its buffer                                                *)
  wrote,       (* how often it has written; 0 after an error                *)
  out          (* what it returns                                           *)

vars == <<pool, content, pc, b, wrote, out>>

-----------------------------------------------------------------------------
(* sync.Pool: Get() takes a buffer that is in the pool or makes a new one,  *)
(* which is one that nobody has; a garbage collection may empty the pool.   *)
New(x) == pool[x] = 0 /\ \A c \in Calls : b[c] # x

Get(x) ==
  \/ pool[x] > 0 /\ pool' = [pool EXCEPT ![x] = @ - 1]
             /\ UNCHANGED content
  \/ New(x) /\ content' = [content EXCEPT ![x] = <<>>]
            /\ UNCHANGED pool

Put(x) == pool' = [pool EXCEPT ![x] = @ + 1]

Collect(x) ==
  /\ pool[x] > 0
  /\ pool' = [pool EXCEPT ![x] = 0]
  /\ UNCHANGED <<content, pc, b, wrote, out>>

Step(c, from, to) == pc[c] = from /\ pc' = [pc EXCEPT ![c] = to]

-----------------------------------------------------------------------------
(* AcquireBuffer() *)
Acquire(c) ==
  /\ Step(c, "start", "acquired")
  /\ \E x \in Buffers : Get(x) /\ b' = [b EXCEPT ![c] = x]
  /\ UNCHANGED <<wrote, out>>

Reset(c) ==
  /\ Step(c, "acquired", "writing")
  /\ content' = [content EXCEPT ![b[c]] = <<>>]
  /\ wrote' = [wrote EXCEPT ![c] = 0]
  /\ UNCHANGED <<pool, b, out>>

(* The encoder writes to e.b. *)
Write(c) ==
  /\ pc[c] = "writing" /\ wrote[c] < MaxWrites
  /\ content' = [content EXCEPT ![b[c]] = Append(@, c)]
  /\ wrote' = [wrote EXCEPT ![c] = @ + 1]
  /\ UNCHANGED <<pool, pc, b, out>>

(* copy(out, b.Bytes()) *)
Copy(c) ==
  /\ Step(c, "writing", "copied")
  /\ out' = [out EXCEPT ![c] = content[b[c]]]
  /\ UNCHANGED <<pool, content, b, wrote>>

Mut_Fail(c) ==
  /\ Step(c, "writing", "copied")
  /\ wrote' = [wrote EXCEPT ![c] = 0]
  /\ Put(b[c])
  /\ UNCHANGED <<content, b, out>>

(* An error: nothing is returned. *)
Fail(c) ==
  /\ Step(c, "writing", "copied")
  /\ wrote' = [wrote EXCEPT ![c] = 0]
  /\ UNCHANGED <<pool, content, b, out>>

-----------------------------------------------------------------------------
(* ReleaseBuffer(), deferred.  A buffer that has grown beyond 256 KB is     *)
(* left to the garbage collector. *)
Drop(c) ==
  /\ Step(c, "copied", "returned")
  /\ b' = [b EXCEPT ![c] = NoBuffer]
  /\ UNCHANGED <<pool, content, wrote, out>>

Clear(c) ==
  /\ Step(c, "copied", "cleared")
  /\ content' = [content EXCEPT ![b[c]] = <<>>]
  /\ UNCHANGED <<pool, b, wrote, out>>

PutBack(c) ==
  /\ Step(c, "cleared", "returned")
  /\ Put(b[c])
  /\ b' = [b EXCEPT ![c] = NoBuffer]
  /\ UNCHANGED <<content, wrote, out>>

(* The caller has used what Marshal returned, and calls it again. *)
Again(c) ==
  /\ Step(c, "returned", "start")
  /\ out' = [out EXCEPT ![c] = <<>>]
  /\ UNCHANGED <<pool, content, b, wrote>>

-----------------------------------------------------------------------------
Init ==
  /\ pool = [x \in Buffers |-> 0]
  /\ content = [x \in Buffers |-> <<>>]
  /\ pc = [c \in Calls |-> "start"]
  /\ b = [c \in Calls |-> NoBuffer]
  /\ wrote = [c \in Calls |-> 0]
  /\ out = [c \in Calls |-> <<>>]

Marshal(c) ==
  \/ Acquire(c) \/ Reset(c) \/ Write(c) \/ Copy(c) \/ Fail(c)
  \/ Drop(c) \/ Clear(c) \/ PutBack(c) \/ Again(c)

Next == (\E c \in Calls : Marshal(c)) \/ (\E x \in Buffers : Collect(x))

Spec == Init /\ [][Next]_vars

-----------------------------------------------------------------------------
Places == {"start", "acquired", "writing", "copied", "cleared", "returned"}

(* Type invariant of the pool and its users. *)
TypeOK ==
  /\ pool \in [Buffers -> Nat]
  /\ content \in [Buffers -> Seq(Calls)]
  /\ pc \in [Calls -> Places]
  /\ b \in [Calls -> Buffers \cup {NoBuffer}]
  /\ wrote \in [Calls -> 0..MaxWrites]
  /\ out \in [Calls -> Seq(Calls)]

(* A buffer has one owner: a call, or the pool (which has it once), or the  *)
(* garbage collector. *)
OneOwner ==
  /\ \A c \in Calls : b[c] \in Buffers => pool[b[c]] = 0
  /\ \A x \in Buffers : pool[x] <= 1
  /\ \A c, d \in Calls : b[c] \in Buffers /\ b[c] = b[d] => c = d

(* The text s is n writes of c. *)
WrittenBy(s, c, n) == Len(s) = n /\ \A i \in 1..n : s[i] = c

(* What a call returns is what it wrote and all it wrote: no other call's   *)
(* data, none left in the buffer by an earlier one, and none after an error.*)
OutputIsOwn ==
  \A c \in Calls : pc[c] \in {"copied", "cleared", "returned"} => WrittenBy(out[c], c, wrote[c])

=============================================================================
