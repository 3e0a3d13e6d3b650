------------------------------ MODULE Geometry ------------------------------
(***************************************************************************)
(* The size-class arithmetic of SizeClasses against what its comments say  *)
(* it computes, for every valid Config made of the given constants: a      *)
(* state is a Config and a number n, which is a size or an address.        *)
(* Carving runs the two carving loops on the same Configs.                 *)
(***************************************************************************)
EXTENDS PerConfig, FiniteSets, Sequences

CONSTANTS
  MinAligns, Powers, SplitMins, CarveMaxs,  \* the values of a Config's constants
  MaxSize                                   \* bound on sizes and addresses

\* No size or address is so large that rounding it up would wrap the word.
ASSUME GeometryAssumption ==
  MaxSize \in Nat /\ \A max \in Powers : MaxSize + max <= WORD

VARIABLES
  cfg,  \* the Config
  n     \* a size or an address

Configs ==
  {c \in [MIN_ALIGN : MinAligns, LNR_FLOOR : Powers, EXP_FLOOR : Powers, EXP_CEIL : Powers,
          SPLIT_MIN : SplitMins, CARVE_MAX : CarveMaxs] : SC(c)!ValidConfig}

NoNumber == -1
Counting == n # NoNumber

\* SPLIT_MIN and CARVE_MAX play no part in the arithmetic of classes: n counts
\* for the least of each.
Counts ==
  /\ n < MaxSize
  /\ \A m \in SplitMins : cfg.SPLIT_MIN <= m
  /\ \A m \in CarveMaxs : cfg.CARVE_MAX <= m

-----------------------------------------------------------------------------
Class(bin) == SC(cfg)!bin_class(bin)
Align(bin) == SC(cfg)!align_of_bin(bin)
FixedBins == SC(cfg)!FixedBins
Granular(x) == x % cfg.MIN_ALIGN = 0

\* bin_index is the ceiling map: the bin of a size is the one of the smallest
\* class that holds it, and the oversized bin exactly when no class does.
CeilingMap ==
  Counting =>
  LET k == SC(cfg)!bin_index(n)
  IN /\ k = SC(cfg)!oversize_bin <=> n > cfg.EXP_CEIL
     /\ k # SC(cfg)!oversize_bin =>
          Class(k) >= n /\ \A j \in FixedBins : Class(j) >= n => Class(j) >= Class(k)

\* floor_bin is the floor map on LNR_FLOOR .. EXP_CEIL.
FloorMap ==
  cfg.LNR_FLOOR <= n /\ n <= cfg.EXP_CEIL =>
    LET k == SC(cfg)!floor_bin(n)
    IN Class(k) <= n /\ \A j \in FixedBins : Class(j) <= n => Class(j) <= Class(k)

\* A class is a multiple of its alignment, and the alignment of a class divides
\* the alignment of every larger one: a block cut down to a smaller class in
\* place stays aligned, as split_and_free_tail assumes.
AlignmentNested ==
  n = 0 =>
  \A j \in FixedBins :
    /\ Class(j) % Align(j) = 0 /\ Granular(Align(j))
    /\ \A k \in FixedBins : Class(j) < Class(k) => Align(k) % Align(j) = 0
    /\ cfg.EXP_CEIL % Align(j) = 0

\* largest_carvable returns the largest class that fits below `end` with an
\* aligned start, and an aligned oversized block whenever there is one.
CarvableIsLargest ==
  Counting /\ Granular(n) =>
  \A len \in {l \in cfg.MIN_ALIGN .. n : Granular(l)} :
    LET end == n
        piece == SC(cfg)!largest_carvable(end, len)
        fits == {k \in FixedBins : Class(k) <= len /\ (end - Class(k)) % Align(k) = 0}
        over == {s \in cfg.EXP_CEIL + 1 .. len : Granular(s) /\ (end - s) % cfg.EXP_CEIL = 0}
    IN IF over # {}
         THEN piece.size \in over /\ \A s \in over : s <= piece.size
         ELSE IF fits = {} THEN piece.size = 0
         ELSE /\ piece.bin \in fits /\ piece.size = Class(piece.bin)
              /\ \A k \in fits : Class(k) <= piece.size

\* The block of a request has room for its header and its payload, is valid as
\* it stands, and wastes less than a third of itself beyond the two
\* granules of header and rounding.
RequestFits ==
  Counting =>
  LET size == SC(cfg)!request_block_size(n)
  IN /\ size >= n + cfg.MIN_ALIGN
     /\ SC(cfg)!is_block_exact(size) /\ Granular(size)
     /\ size > cfg.LNR_FLOOR => 3 * (n + 2 * cfg.MIN_ALIGN) > 2 * size

\* The gap left by rounding the bump pointer up is smaller than the class of
\* the block it makes room for (carve_gap runs without a bound for this reason).
GapBelowClass ==
  Counting /\ Granular(n) =>
  \A k \in FixedBins : SC(cfg)!align_up(n, Align(k)) - n < Class(k)

=============================================================================
