---------------------------- MODULE MCBufferPool ----------------------------
(***************************************************************************)
(* Model checking of BufferPool.                                            *)
(***************************************************************************)
EXTENDS BufferPool, TLC

Symmetry == Permutations(Calls) \cup Permutations(Buffers)

=============================================================================
