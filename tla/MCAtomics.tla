---------------------------- MODULE MCAtomics ----------------------------
(* The operations of Atomics on small words, over the backend that         *)
(* overrides nothing, CoreAtomics, and one with a native weak              *)
(* compare-and-swap only.                                                  *)
EXTENDS Atomics

SomeBackends == {{}, Overridable, {"cas_weak"}}
=============================================================================
