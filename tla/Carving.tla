------------------------------ MODULE Carving ------------------------------
(***************************************************************************)
(* The two loops that cut memory up, split_and_free_tail and carve_gap,    *)
(* run on their own for every valid Config up to a bound and every block,  *)
(* request and gap that can occur under it.  CadAlloc runs the same loops  *)
(* with their lists and their interleavings, for one Config at a time.     *)
(***************************************************************************)
EXTENDS Geometry

CONSTANTS
  MaxOver,     \* largest oversized block, in EXP_CEILs
  ExtraCarves  \* carves past the budget

\* Nor is the end of any block.
ASSUME CarvingAssumption ==
  MaxOver \in Nat /\ \A max \in Powers : (MaxOver + 4) * max <= WORD

VARIABLES
  job,      \* "none", then "split" or "gap", then "done"
  lo, hi,   \* the block that is split, or the gap
  need,     \* the size a split must leave
  end,      \* lo .. end - 1 is still to be carved
  iter,     \* pieces carved by a split
  carved,   \* the pieces carved, from the top
  size      \* the size stamped on the split block

vars == <<cfg, n, job, lo, hi, need, end, iter, carved, size>>

Granules(c, max) == {c.MIN_ALIGN * i : i \in 1 .. max \div c.MIN_ALIGN}
Classes(c) == {SC(c)!bin_class(k) : k \in SC(c)!FixedBins}
OverSizes(c) == {s \in Granules(c, MaxOver * c.EXP_CEIL) : s > c.EXP_CEIL}

\* The total sizes requests ask for.
Targets(c) == Classes(c) \cup OverSizes(c)

AlignOf(c, block) == SC(c)!align_of_bin(SC(c)!bin_index(block))

-----------------------------------------------------------------------------
Init ==
  /\ cfg \in Configs /\ n = NoNumber
  /\ job = "none"
  /\ lo = 0 /\ hi = 0 /\ need = 0 /\ end = 0
  /\ iter = 0 /\ carved = <<>> /\ size = 0

\* The next size or address.
Count ==
  /\ job = "none" /\ Counts
  /\ n' = n + 1
  /\ UNCHANGED <<cfg, job, lo, hi, need, end, iter, carved, size>>

\* A valid, aligned block is split down to a request it can hold: alloc splits
\* oversized blocks, realloc blocks of any size.
Split ==
  /\ job = "none" /\ ~Counting /\ job' = "split"
  /\ \E block, target \in Targets(cfg), i \in 1 .. 2 :
       /\ target <= block
       /\ lo' = i * AlignOf(cfg, block)
       /\ hi' = lo' + block /\ need' = target
  /\ end' = hi'
  /\ UNCHANGED <<cfg, n, iter, carved, size>>

\* The bump pointer, anywhere in the heap, is rounded up for a class.
Gap ==
  /\ job = "none" /\ ~Counting /\ job' = "gap"
  /\ \E bump \in Granules(cfg, 2 * cfg.EXP_CEIL), k \in SC(cfg)!Bins :
       /\ lo' = bump
       /\ hi' = SC(cfg)!align_up(bump, SC(cfg)!align_of_bin(k))
  /\ end' = hi'
  /\ UNCHANGED <<cfg, n, need, iter, carved, size>>

Left == end - lo
GoesOn == IF job = "split" THEN SC(cfg)!split_goes_on(end, Left, need, iter)
          ELSE SC(cfg)!gap_goes_on(lo, end)

Carve ==
  /\ job \in {"split", "gap"} /\ GoesOn
  /\ LET piece == SC(cfg)!largest_carvable(end, Left - need)
     IN /\ end' = end - piece.size
        /\ carved' = Append(carved, [at |-> end', bin |-> piece.bin])
  /\ iter' = iter + 1
  /\ UNCHANGED <<cfg, n, job, lo, hi, need, size>>

Done ==
  /\ job \in {"split", "gap"} /\ ~GoesOn
  /\ size' = IF job = "split" THEN SC(cfg)!retained_size(Left, need, iter) ELSE 0
  /\ job' = "done"
  /\ UNCHANGED <<cfg, n, lo, hi, need, end, iter, carved>>

Next == Count \/ Split \/ Gap \/ Carve \/ Done

Spec == Init /\ [][Next]_vars

-----------------------------------------------------------------------------
(* Properties.                                                             *)

Top(i) == IF i = 1 THEN hi ELSE carved[i - 1].at

\* Every piece is a block its bin may hold: exactly its class (or above
\* EXP_CEIL), aligned for it, so that free lists never mix sizes.
PiecesFitTheirBins ==
  \A i \in DOMAIN carved :
    LET p == carved[i]
        len == Top(i) - p.at
    IN /\ p.at % SC(cfg)!align_of_bin(p.bin) = 0
       /\ IF p.bin = SC(cfg)!oversize_bin THEN len > cfg.EXP_CEIL
          ELSE len = SC(cfg)!bin_class(p.bin)
       /\ p.at >= lo + need

\* What is left of a split block is a block free can take back: exactly a class
\* or above EXP_CEIL, still aligned for its class, and enough for the request.
RetainedIsValid ==
  job = "done" /\ need # 0 =>
    /\ SC(cfg)!is_block_exact(size)
    /\ need <= size /\ size <= Left
    /\ lo % AlignOf(cfg, size) = 0

\* Splitting leaks at most a sliver smaller than the smallest class.
SplitLeaksASliver == job = "done" /\ need # 0 => Left - size < cfg.LNR_FLOOR

\* So does the gap below a block carved off the bump region.
GapLeaksASliver == job = "done" /\ need = 0 => Left < cfg.LNR_FLOOR

\* "Reaching a valid size costs only a few extra carves past the budget": at
\* most ExtraCarves of them.
FewExtraCarves == iter <= cfg.CARVE_MAX + ExtraCarves \/ need = 0
=============================================================================
