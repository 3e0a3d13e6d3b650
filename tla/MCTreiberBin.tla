--------------------------- MODULE MCTreiberBin ---------------------------
(* TreiberBin on small instances: the blocks of a class are interchangeable *)
(* and so are the threads.                                                  *)
EXTENDS TreiberBin, TLC

Sym == Permutations(Threads) \cup Permutations(Blocks)
=============================================================================
