----------------------------- MODULE MCCadAlloc -----------------------------
(* The allocator on small heaps; the threads are interchangeable. *)
EXTENDS HeapInv, TLC

Sym == Permutations(Threads)
=============================================================================
