------------------------------- MODULE Stamps -------------------------------
(* The fingerprints of the Configs that Geometry and Carving range over.    *)
EXTENDS Carving, Fingerprint

Logs(c) == <<ilog2(c.MIN_ALIGN), ilog2(c.LNR_FLOOR), ilog2(c.EXP_FLOOR),
             ilog2(c.EXP_CEIL), ilog2(c.SPLIT_MIN)>>

\* The fingerprint of c with any CARVE_MAX, a u64.
FingerprintOf(c, carve_max) == config_fingerprint(Logs(c), carve_max)
Fingerprints == [c \in Configs |-> FingerprintOf(c, U64(c.CARVE_MAX))]

\* Golden times this is 1 modulo 2^64.
GoldenInverse == << \h3D, \h73, \h37, \h99, \hE1, \h83, \hDE, \hF1 >>

\* The CARVE_MAX for which the exponents of d and it are folded into the same
\* word as c: the exclusive or and the multiplication undone.
TwinCarveMax(c, d) ==
  WrappingMul(Xored(U64(Packed(Logs(d))), Folded(Packed(Logs(c)), U64(c.CARVE_MAX))),
              GoldenInverse)

\* A u64 of 2^31 or more.
Huge(word) == word[4] >= 128 \/ \E i \in 5 .. 8 : word[i] # 0

\* What verify can tell apart.  Every two Configs of the grid have different
\* fingerprints, but not every two Configs have, as the comment of
\* config_fingerprint says: whenever their exponents differ, one CARVE_MAX, and
\* always a huge one, gives the second the fingerprint of the first.
\* (Every Config is that of an initial state, so every pair is compared.)
SharedOnlyByHugeCarveMax ==
  job = "none" /\ ~Counting =>
  \A c \in Configs \ {cfg} :
    /\ Fingerprints[c] # Fingerprints[cfg]
    /\ c.CARVE_MAX = cfg.CARVE_MAX =>   \* twin takes the place of c's CARVE_MAX
         LET twin == TwinCarveMax(cfg, c)
         IN FingerprintOf(c, twin) = Fingerprints[cfg] /\ Huge(twin)
=============================================================================
