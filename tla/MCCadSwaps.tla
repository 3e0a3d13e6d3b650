----------------------------- MODULE MCCadSwaps -----------------------------
(* Pops on small heaps; the threads are interchangeable. *)
EXTENDS CadSwaps, TLC

Sym == Permutations(Threads)
=============================================================================
