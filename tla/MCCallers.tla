------------------------------ MODULE MCCallers ------------------------------
(* Three payloads, two of which share memory: they are not allocated at the *)
(* same time.  The offset near the top of a word makes sums of it wrap.     *)
EXTENDS Callers, TLC

SomePayloads == {[ptr |-> 16, len |-> 16], [ptr |-> 32, len |-> 16], [ptr |-> 16, len |-> 32]}
SomeLayouts == {[size |-> 20, align |-> 8], [size |-> 16, align |-> 16], [size |-> 16, align |-> 32]}
Sym == Permutations(Threads)
=============================================================================
