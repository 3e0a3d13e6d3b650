--------------------------- MODULE Carving_proofs ---------------------------
(***************************************************************************)
(* The properties of Geometry and Carving for every Config, every size and *)
(* every block, by the lemmas of SizeFacts.                                *)
(***************************************************************************)
EXTENDS Carving, SizeFacts, SequenceTheorems

(* The state that Geometry is about.                                        *)
Ranges == cfg \in Configs /\ n \in -1 .. MaxSize

(* It holds of every state.                                                 *)
LEMMA RangesHold == Spec => []Ranges
<1>1. Init => Ranges
  BY GeometryAssumption DEF Init, Ranges, NoNumber
<1>2. Ranges /\ [Next]_vars => Ranges'
  BY GeometryAssumption
     DEF Ranges, Next, Count, Counts, Split, Gap, Carve, Done, vars
<1> QED
  BY <1>1, <1>2, PTL DEF Spec

(* A Config that is counted through is valid, and its largest class leaves  *)
(* room above every size.                                                   *)
LEMMA ConfigFacts ==
  ASSUME NEW c \in Configs
  PROVE  /\ SC(c)!ValidConfig
         /\ MaxSize + c.EXP_CEIL <= WORD /\ (MaxOver + 4) * c.EXP_CEIL <= WORD
BY GeometryAssumption, CarvingAssumption DEF Configs

-----------------------------------------------------------------------------
(* bin_index is the ceiling map, whatever the Config and the size.          *)
THEOREM CeilingMapHolds == Spec => []CeilingMap
<1>1. Ranges => CeilingMap
  <2> SUFFICES ASSUME Ranges, Counting PROVE CeilingMap
    BY DEF CeilingMap
  <2> DEFINE k == SC(cfg)!bin_index(n)
  <2>1. SC(cfg)!ValidConfig /\ n \in Nat
    BY ConfigFacts, GeometryAssumption DEF Ranges, Counting, NoNumber
  <2>2. /\ SC(cfg)!oversize_bin \in Nat \ {0}
        /\ FixedBins = 0 .. SC(cfg)!oversize_bin - 1
        /\ \A j \in FixedBins : j \in Nat /\ Class(j) \in Nat
    BY <2>1, FixedBinsFacts, ClassFacts DEF FixedBins, Class
  <2>3. cfg.EXP_CEIL \in Nat
    BY <2>1, Constants
  <2>4. /\ n > cfg.EXP_CEIL => k = SC(cfg)!oversize_bin
        /\ n <= cfg.EXP_CEIL =>
             /\ k \in FixedBins /\ n <= Class(k)
             /\ \A j \in FixedBins : j < k => Class(j) < n
    BY <2>1, BinIndex DEF FixedBins, Class
  <2>5. k = SC(cfg)!oversize_bin <=> n > cfg.EXP_CEIL
    BY <2>1, <2>2, <2>3, <2>4
  <2>6. ASSUME k # SC(cfg)!oversize_bin
        PROVE  Class(k) >= n /\ \A j \in FixedBins : Class(j) >= n => Class(j) >= Class(k)
    <3>1. k \in FixedBins /\ n <= Class(k) /\ \A j \in FixedBins : j < k => Class(j) < n
      BY <2>1, <2>3, <2>4, <2>6
    <3>2. ASSUME NEW j \in FixedBins, Class(j) >= n PROVE Class(j) >= Class(k)
      <4>1. ~ (j < k)
        BY <2>1, <2>2, <3>1, <3>2
      <4>2. k < j => Class(k) < Class(j)
        BY <2>1, <3>1, ClassOrder DEF FixedBins, Class
      <4> QED
        BY <4>1, <4>2, <2>2, <3>1
    <3> QED
      BY <3>1, <3>2, <2>1, <2>2
  <2> QED
    BY <2>5, <2>6 DEF CeilingMap
<1> QED
  BY <1>1, RangesHold, PTL

(* floor_bin is the floor map on the sizes that have one.                   *)
THEOREM FloorMapHolds == Spec => []FloorMap
<1>1. Ranges => FloorMap
  <2> SUFFICES ASSUME Ranges, cfg.LNR_FLOOR <= n, n <= cfg.EXP_CEIL PROVE FloorMap
    BY DEF FloorMap
  <2> DEFINE k == SC(cfg)!floor_bin(n)
  <2>1. SC(cfg)!ValidConfig
    BY ConfigFacts DEF Ranges
  <2>2. n \in Nat
    BY <2>1, Constants, GeometryAssumption DEF Ranges
  <2>3. k \in FixedBins /\ Class(k) <= n /\ \A j \in FixedBins : Class(j) <= n => j <= k
    BY <2>1, <2>2, FloorBin DEF FixedBins, Class
  <2>4. \A j \in FixedBins : j \in Nat /\ Class(j) \in Nat
    BY <2>1, FixedBinsFacts, ClassFacts DEF FixedBins, Class
  <2>5. \A j \in FixedBins : j < k => Class(j) < Class(k)
    BY <2>1, <2>3, ClassOrder DEF FixedBins, Class
  <2>6. \A j \in FixedBins : Class(j) <= n => Class(j) <= Class(k)
    BY <2>3, <2>4, <2>5
  <2> QED
    BY <2>3, <2>6 DEF FloorMap
<1> QED
  BY <1>1, RangesHold, PTL

(* Alignments nest: a block stays aligned when it is cut down in place.     *)
THEOREM AlignmentNestedHolds == Spec => []AlignmentNested
<1>1. Ranges => AlignmentNested
  <2> SUFFICES ASSUME Ranges, NEW j \in FixedBins
               PROVE  /\ Class(j) % Align(j) = 0 /\ Granular(Align(j))
                      /\ \A k \in FixedBins : Class(j) < Class(k) => Align(k) % Align(j) = 0
                      /\ cfg.EXP_CEIL % Align(j) = 0
    BY DEF AlignmentNested
  <2>1. SC(cfg)!ValidConfig
    BY ConfigFacts DEF Ranges
  <2>2. \A k \in FixedBins : k \in Nat /\ Class(k) \in Nat
    BY <2>1, FixedBinsFacts, ClassFacts DEF FixedBins, Class
  <2>3. Class(j) % Align(j) = 0 /\ Align(j) % cfg.MIN_ALIGN = 0 /\ cfg.EXP_CEIL % Align(j) = 0
    BY <2>1, ClassFacts DEF FixedBins, Class, Align
  <2>4. ASSUME NEW k \in FixedBins, Class(j) < Class(k) PROVE Align(k) % Align(j) = 0
    <3>1. k < j => Class(k) < Class(j)
      BY <2>1, ClassOrder DEF FixedBins, Class
    <3>2. j < k
      BY <3>1, <2>2, <2>4
    <3> QED
      BY <3>2, <2>1, ClassOrder DEF FixedBins, Align
  <2> QED
    BY <2>3, <2>4 DEF Granular
<1> QED
  BY <1>1, RangesHold, PTL

(* A request's block holds its header and payload, is valid, and wastes     *)
(* less than a third of itself beyond header and rounding.                  *)
THEOREM RequestFitsHolds == Spec => []RequestFits
<1>1. Ranges => RequestFits
  <2> SUFFICES ASSUME Ranges, Counting PROVE RequestFits
    BY DEF RequestFits
  <2> DEFINE s == SC(cfg)!request_block_size(n)
             need_of == SC(cfg)!NeedOf(n)
  <2>1. SC(cfg)!ValidConfig /\ n \in Nat /\ n <= MaxSize
    BY ConfigFacts, GeometryAssumption DEF Ranges, Counting, NoNumber
  <2>2. /\ cfg.MIN_ALIGN \in Nat \ {0} /\ cfg.EXP_CEIL \in Nat /\ cfg.LNR_FLOOR \in Nat
        /\ 2 * cfg.MIN_ALIGN <= cfg.EXP_CEIL /\ WORD \in Nat
    BY <2>1, Constants
  <2>3. n + 2 * cfg.MIN_ALIGN <= WORD
    BY <2>1, <2>2, ConfigFacts, GeometryAssumption DEF Ranges
  <2>4. /\ need_of \in Nat /\ n + cfg.MIN_ALIGN <= need_of /\ need_of < n + 2 * cfg.MIN_ALIGN
    BY <2>1, <2>3, Need
  <2>5. /\ s \in Nat /\ need_of <= s /\ s % cfg.MIN_ALIGN = 0 /\ SC(cfg)!is_block_exact(s)
        /\ s > cfg.LNR_FLOOR => 2 * s <= 3 * need_of
    BY <2>1, <2>3, RequestBlock
  <2> HIDE DEF s, need_of
  <2>6. s >= n + cfg.MIN_ALIGN /\ (s > cfg.LNR_FLOOR => 3 * (n + 2 * cfg.MIN_ALIGN) > 2 * s)
    BY <2>1, <2>2, <2>4, <2>5
  <2> QED
    BY <2>5, <2>6 DEF s, RequestFits, Granular
<1> QED
  BY <1>1, RangesHold, PTL

(* The gap below an aligned block is smaller than the block's class.        *)
THEOREM GapBelowClassHolds == Spec => []GapBelowClass
<1>1. Ranges => GapBelowClass
  <2> SUFFICES ASSUME Ranges, Counting, NEW k \in FixedBins
               PROVE  SC(cfg)!align_up(n, Align(k)) - n < Class(k)
    BY DEF GapBelowClass
  <2>1. SC(cfg)!ValidConfig /\ n \in Nat /\ n <= MaxSize /\ MaxSize \in Nat
    BY ConfigFacts, GeometryAssumption DEF Ranges, Counting, NoNumber
  <2>2. /\ Align(k) \in Nat \ {0} /\ Class(k) \in Nat
        /\ 2 * Align(k) <= Class(k) /\ Class(k) <= cfg.EXP_CEIL
    BY <2>1, ClassFacts DEF FixedBins, Class, Align
  <2>3. cfg.EXP_CEIL \in Nat /\ MaxSize + cfg.EXP_CEIL <= WORD /\ WORD \in Nat
    BY <2>1, Constants, ConfigFacts DEF Ranges
  <2>4. n + Align(k) <= WORD
    BY <2>1, <2>2, <2>3
  <2>5. SC(cfg)!align_up(n, Align(k)) = align_up(n, Align(k))
    BY DEF SC!align_up, align_up, SC!Wrap, Wrap, SC!WORD, WORD
  <2>6. align_up(n, Align(k)) \in Nat /\ align_up(n, Align(k)) < n + Align(k)
    BY <2>1, <2>2, <2>4, AlignUp
  <2> QED
    BY <2>1, <2>2, <2>5, <2>6
<1> QED
  BY <1>1, RangesHold, PTL

(* largest_carvable returns the largest block that fits.                    *)
THEOREM CarvableIsLargestHolds == Spec => []CarvableIsLargest
<1>1. Ranges => CarvableIsLargest
  <2> DEFINE E == cfg.EXP_CEIL
             A == cfg.MIN_ALIGN
  <2> SUFFICES ASSUME Ranges, Counting, Granular(n),
                      NEW len \in A .. n, Granular(len)
               PROVE  LET piece == SC(cfg)!largest_carvable(n, len)
                          fits == {k \in FixedBins : Class(k) <= len /\ (n - Class(k)) % Align(k) = 0}
                          over == {s \in E + 1 .. len : Granular(s) /\ (n - s) % E = 0}
                      IN IF over # {}
                           THEN piece.size \in over /\ \A s \in over : s <= piece.size
                           ELSE IF fits = {} THEN piece.size = 0
                           ELSE /\ piece.bin \in fits /\ piece.size = Class(piece.bin)
                                /\ \A k \in fits : Class(k) <= piece.size
    BY DEF CarvableIsLargest
  <2> DEFINE piece == SC(cfg)!largest_carvable(n, len)
             fits == {k \in FixedBins : Class(k) <= len /\ (n - Class(k)) % Align(k) = 0}
             over == {s \in E + 1 .. len : Granular(s) /\ (n - s) % E = 0}
  <2>1. SC(cfg)!ValidConfig /\ n \in Nat /\ n <= MaxSize /\ MaxSize \in Nat
    BY ConfigFacts, GeometryAssumption DEF Ranges, Counting, NoNumber
  <2>2. A \in Nat \ {0} /\ E \in Nat \ {0} /\ MaxSize + E <= WORD /\ WORD \in Nat
    BY <2>1, Constants, ConfigFacts DEF Ranges
  <2>3. /\ n \in 1 .. WORD - 1 /\ n % A = 0 /\ len \in 0 .. n /\ len \in Nat
        /\ (n - len) + E <= WORD
    BY <2>1, <2>2 DEF Granular
  <2>4. \A k \in FixedBins : k \in Nat /\ Class(k) \in Nat
    BY <2>1, FixedBinsFacts, ClassFacts DEF FixedBins, Class
  <2>5. \A j, k \in FixedBins : j <= k => Class(j) <= Class(k)
    <3>1. \A j, k \in FixedBins : j < k => Class(j) < Class(k)
      BY <2>1, ClassOrder DEF FixedBins, Class
    <3> QED
      BY <3>1, <2>4
  <2>6. \A k \in FixedBins : k \in fits <=> Fits(cfg, k, n, len)
    BY DEF Fits, Class, Align
  <2>7. \A s : s \in over => s \in Int /\ OverFits(cfg, s, n, len)
    BY <2>2, <2>3 DEF OverFits
  <2>8. \A s \in Nat : OverFits(cfg, s, n, len) /\ s % A = 0 => s \in over
    BY <2>2, <2>3 DEF OverFits, Granular
  <2>9. \/ /\ piece = SC(cfg)!NothingFits
           /\ \A k \in FixedBins : ~ Fits(cfg, k, n, len)
           /\ \A s \in Int : ~ OverFits(cfg, s, n, len)
        \/ \E b \in FixedBins :
             /\ piece = [size |-> Class(b), bin |-> b]
             /\ Fits(cfg, b, n, len)
             /\ \A k \in FixedBins : Fits(cfg, k, n, len) => k <= b
             /\ \A s \in Int : ~ OverFits(cfg, s, n, len)
        \/ \E s \in Nat :
             /\ piece = [size |-> s, bin |-> SC(cfg)!oversize_bin]
             /\ OverFits(cfg, s, n, len) /\ s % A = 0
             /\ \A r \in Int : OverFits(cfg, r, n, len) => r <= s
    BY <2>1, <2>3, LargestCarvable DEF FixedBins, Class
  <2>10. fits \subseteq FixedBins
    OBVIOUS
  <2> HIDE DEF piece, fits, over, E, A
  <2>11. ASSUME NEW b \in FixedBins,
                piece = [size |-> Class(b), bin |-> b], Fits(cfg, b, n, len),
                \A k \in FixedBins : Fits(cfg, k, n, len) => k <= b,
                \A s \in Int : ~ OverFits(cfg, s, n, len)
         PROVE  /\ over = {} /\ fits # {}
                /\ piece.bin \in fits /\ piece.size = Class(piece.bin)
                /\ \A k \in fits : Class(k) <= piece.size
    BY <2>5, <2>6, <2>7, <2>10, <2>11
  <2>12. ASSUME NEW s \in Nat,
                piece = [size |-> s, bin |-> SC(cfg)!oversize_bin],
                OverFits(cfg, s, n, len), s % A = 0,
                \A r \in Int : OverFits(cfg, r, n, len) => r <= s
         PROVE  over # {} /\ piece.size \in over /\ \A r \in over : r <= piece.size
    BY <2>7, <2>8, <2>12
  <2>13. \/ over # {} /\ piece.size \in over /\ \A s \in over : s <= piece.size
         \/ over = {} /\ fits = {} /\ piece.size = 0
         \/ /\ over = {} /\ fits # {}
            /\ piece.bin \in fits /\ piece.size = Class(piece.bin)
            /\ \A k \in fits : Class(k) <= piece.size
    <3>1. CASE /\ piece = SC(cfg)!NothingFits
               /\ \A k \in FixedBins : ~ Fits(cfg, k, n, len)
               /\ \A s \in Int : ~ OverFits(cfg, s, n, len)
      BY <3>1, <2>6, <2>7, <2>10 DEF SC!NothingFits
    <3> QED
      BY <3>1, <2>9, <2>11, <2>12
  <2> QED
    BY <2>13 DEF piece, fits, over, E, A
<1> QED
  BY <1>1, RangesHold, PTL
-----------------------------------------------------------------------------
(* The two loops.                                                          *)

\* Where the loops are: between lo + need and hi, in granules.
LoopRanges ==
  /\ cfg \in Configs
  /\ job \in {"none", "split", "gap", "done"}
  /\ lo \in Nat /\ hi \in Nat /\ need \in Nat /\ end \in Nat /\ iter \in Nat
  /\ lo % cfg.MIN_ALIGN = 0 /\ need % cfg.MIN_ALIGN = 0 /\ end % cfg.MIN_ALIGN = 0
  /\ lo + need <= end /\ end <= hi /\ hi + cfg.EXP_CEIL <= WORD
  /\ IF job = "none" THEN iter = 0 /\ need = 0 ELSE lo > 0
  /\ job = "split" => need # 0
  /\ job = "gap" => need = 0
  /\ carved \in Seq([at : Nat, bin : SC(cfg)!Bins])

\* What is carved lies piece upon piece, from hi down to end.
PiecesStacked ==
  /\ end = IF carved = <<>> THEN hi ELSE carved[Len(carved)].at
  /\ iter = 0 => carved = <<>>

\* A split starts from a valid, aligned block, and must leave a valid size.
SplitOfABlock ==
  job \in {"split", "done"} /\ need # 0 =>
    /\ hi - lo \in Targets(cfg) /\ lo % AlignOf(cfg, hi - lo) = 0
    /\ need \in Targets(cfg)

\* Once a piece has been carved, and in a gap from the start, the smallest
\* class is aligned at the end of what is left.
EndAligned == job # "none" /\ (iter > 0 \/ need = 0) => end % Align(0) = 0

LoopInv == LoopRanges /\ PiecesFitTheirBins /\ PiecesStacked /\ SplitOfABlock /\ EndAligned

(* Granules are positive multiples of MIN_ALIGN.                            *)
LEMMA GranuleFacts ==
  ASSUME NEW c \in Configs, NEW m \in Nat, NEW x \in Granules(c, m)
  PROVE  x \in Nat \ {0} /\ x <= m /\ x % c.MIN_ALIGN = 0
<1> DEFINE A == c.MIN_ALIGN
<1>1. A \in Nat \ {0}
  BY ConfigFacts, Constants
<1>2. PICK i \in 1 .. m \div A : x = A * i
  BY DEF Granules
<1> HIDE DEF A
<1>3. A * i \in Nat \ {0} /\ A * i <= m /\ (A * i) % A = 0
  BY <1>1, Multiples
<1> QED
  BY <1>2, <1>3 DEF A

(* The sizes requests ask for are the valid block sizes.                    *)
LEMMA TargetFacts ==
  ASSUME NEW c \in Configs, NEW x \in Targets(c)
  PROVE  /\ x \in Nat \ {0} /\ c.LNR_FLOOR <= x /\ x % c.MIN_ALIGN = 0
         /\ x <= c.EXP_CEIL \/ x <= MaxOver * c.EXP_CEIL
         /\ SC(c)!is_block_exact(x)
<1>1. SC(c)!ValidConfig
  BY ConfigFacts
<1>2. /\ c.MIN_ALIGN \in Nat \ {0} /\ c.LNR_FLOOR \in Nat \ {0} /\ c.EXP_CEIL \in Nat \ {0}
      /\ c.LNR_FLOOR <= c.EXP_CEIL
  BY <1>1, Constants
<1>3. CASE x \in Classes(c)
  <2>1. PICK k \in SC(c)!FixedBins : x = SC(c)!bin_class(k)
    BY <1>3 DEF Classes
  <2>2. x \in Nat \ {0} /\ c.LNR_FLOOR <= x /\ x <= c.EXP_CEIL /\ x % c.MIN_ALIGN = 0
    BY <2>1, <1>1, ClassFacts
  <2> QED
    BY <2>1, <2>2, <1>1, BlockExact
<1>4. CASE x \in OverSizes(c)
  <2>1. x \in Granules(c, MaxOver * c.EXP_CEIL) /\ x > c.EXP_CEIL
    BY <1>4 DEF OverSizes
  <2>2. MaxOver * c.EXP_CEIL \in Nat
    BY <1>2, CarvingAssumption
  <2>3. x \in Nat \ {0} /\ x <= MaxOver * c.EXP_CEIL /\ x % c.MIN_ALIGN = 0
    BY <2>1, <2>2, GranuleFacts
  <2> QED
    BY <2>1, <2>3, <1>1, <1>2, BlockExact
<1> QED
  BY <1>3, <1>4 DEF Targets

(* The alignment of every bin divides a granule's multiples as far up as    *)
(* EXP_CEIL, and that of the smallest class divides them all.               *)
LEMMA AlignFacts ==
  ASSUME NEW c, SC(c)!ValidConfig, NEW k \in SC(c)!Bins
  PROVE  /\ SC(c)!align_of_bin(k) \in Nat \ {0} /\ SC(c)!align_of_bin(k) <= c.EXP_CEIL
         /\ SC(c)!align_of_bin(k) % c.MIN_ALIGN = 0
         /\ SC(c)!align_of_bin(k) % SC(c)!align_of_bin(0) = 0
         /\ SC(c)!align_of_bin(0) \in Nat \ {0}
         /\ SC(c)!align_of_bin(SC(c)!oversize_bin) = c.EXP_CEIL
         /\ 0 \in SC(c)!FixedBins
<1>1. /\ SC(c)!oversize_bin \in Nat \ {0} /\ SC(c)!FixedBins = 0 .. SC(c)!oversize_bin - 1
      /\ SC(c)!Bins = 0 .. SC(c)!oversize_bin
  BY FixedBinsFacts DEF SC!Bins
<1>2. c.EXP_CEIL \in Nat \ {0} /\ c.EXP_CEIL % c.MIN_ALIGN = 0
  BY Constants
<1>3. 0 \in SC(c)!FixedBins
  BY <1>1
<1>4. /\ SC(c)!align_of_bin(0) \in Nat \ {0} /\ c.EXP_CEIL % SC(c)!align_of_bin(0) = 0
  BY <1>3, ClassFacts
<1>5. SC(c)!align_of_bin(SC(c)!oversize_bin) = c.EXP_CEIL
  <2>1. PICK a, l, f, e \in 0 .. WORD_BITS - 1 : Logs(c, a, l, f, e)
    BY ValidLogs
  <2>2. SC(c)!NUM_LINEAR \in Nat /\ SC(c)!oversize_bin = SC(c)!NUM_LINEAR + 2 * (e - f) + 1
    BY <2>1, BinCounts
  <2>3. ~ (SC(c)!oversize_bin < SC(c)!NUM_LINEAR)
    BY <2>1, <2>2 DEF Logs
  <2> QED
    BY <2>3, <1>1 DEF SC!align_of_bin
<1>6. CASE k = SC(c)!oversize_bin
  BY <1>2, <1>3, <1>4, <1>5, <1>6
<1>7. CASE k # SC(c)!oversize_bin
  <2>1. k \in SC(c)!FixedBins /\ k \in Nat
    BY <1>1, <1>7
  <2>2. /\ SC(c)!align_of_bin(k) \in Nat \ {0} /\ SC(c)!align_of_bin(k) <= c.EXP_CEIL
        /\ SC(c)!align_of_bin(k) % c.MIN_ALIGN = 0
    BY <2>1, <1>2, ClassFacts
  <2>3. SC(c)!align_of_bin(k) % SC(c)!align_of_bin(0) = 0
    <3>1. k # 0 => 0 < k
      BY <2>1
    <3>2. k = 0 => SC(c)!align_of_bin(k) % SC(c)!align_of_bin(0) = 0
      BY <2>2
    <3> QED
      BY <3>1, <3>2, <2>1, <1>3, ClassOrder
  <2> QED
    BY <2>2, <2>3, <1>3, <1>4, <1>5
<1> QED
  BY <1>6, <1>7
(* The bin of a block is a bin.                                             *)
LEMMA BinIsABin ==
  ASSUME NEW c, SC(c)!ValidConfig, NEW x \in Nat
  PROVE  SC(c)!bin_index(x) \in SC(c)!Bins
<1>1. /\ SC(c)!oversize_bin \in Nat /\ SC(c)!FixedBins = 0 .. SC(c)!oversize_bin - 1
      /\ SC(c)!Bins = 0 .. SC(c)!oversize_bin
  BY FixedBinsFacts DEF SC!Bins
<1>2. SC(c)!bin_index(x) = SC(c)!oversize_bin \/ SC(c)!bin_index(x) \in SC(c)!FixedBins
  BY BinIndex, Constants
<1> QED
  BY <1>1, <1>2

\* The piece the next step would carve.
NextPiece == SC(cfg)!largest_carvable(end, Left - need)

(* A piece stays above what the block must keep, and fits its bin; there is *)
(* none only if not even the smallest class fits.                           *)
LEMMA PieceFacts ==
  ASSUME LoopRanges, job \in {"split", "gap"}
  PROVE  /\ NextPiece.size \in Nat /\ NextPiece.bin \in SC(cfg)!Bins
         /\ NextPiece.size <= Left - need
         /\ NextPiece.size % cfg.MIN_ALIGN = 0
         /\ NextPiece.size # 0 =>
              /\ (end - NextPiece.size) % SC(cfg)!align_of_bin(NextPiece.bin) = 0
              /\ IF NextPiece.bin = SC(cfg)!oversize_bin
                   THEN NextPiece.size > cfg.EXP_CEIL
                   ELSE NextPiece.size = SC(cfg)!bin_class(NextPiece.bin)
         /\ NextPiece.size = 0 => ~ Fits(cfg, 0, end, Left - need)
<1> DEFINE A == cfg.MIN_ALIGN
           E == cfg.EXP_CEIL
           len == Left - need
           C(k) == SC(cfg)!bin_class(k)
           Fixed == SC(cfg)!FixedBins
           over == SC(cfg)!oversize_bin
<1>1. SC(cfg)!ValidConfig
  BY ConfigFacts DEF LoopRanges
<1>2. A \in Nat \ {0} /\ E \in Nat \ {0} /\ WORD \in Nat
  BY <1>1, Constants
<1>3. /\ lo \in Nat /\ hi \in Nat /\ need \in Nat /\ end \in Nat /\ lo > 0
      /\ lo + need <= end /\ end <= hi /\ hi + E <= WORD /\ end % A = 0
  BY DEF LoopRanges
<1>4. end \in 1 .. WORD - 1 /\ len \in 0 .. end /\ (end - len) + E <= WORD
  BY <1>2, <1>3 DEF Left
<1>5. /\ over \in Nat \ {0} /\ Fixed = 0 .. over - 1 /\ SC(cfg)!Bins = 0 .. over
      /\ 0 \in Fixed
  BY <1>1, FixedBinsFacts DEF SC!Bins
<1>6. \A k \in Fixed : C(k) \in Nat \ {0} /\ C(k) % A = 0
  BY <1>1, ClassFacts
<1>7. SC(cfg)!align_of_bin(over) = E
  BY <1>1, <1>5, AlignFacts
<1>8. \/ /\ NextPiece = SC(cfg)!NothingFits
         /\ \A k \in Fixed : ~ Fits(cfg, k, end, len)
      \/ \E b \in Fixed :
           NextPiece = [size |-> C(b), bin |-> b] /\ Fits(cfg, b, end, len)
      \/ \E s \in Nat :
           /\ NextPiece = [size |-> s, bin |-> over]
           /\ OverFits(cfg, s, end, len) /\ s % A = 0
  BY <1>1, <1>3, <1>4, LargestCarvable DEF NextPiece
<1>9. CASE /\ NextPiece = SC(cfg)!NothingFits
           /\ \A k \in Fixed : ~ Fits(cfg, k, end, len)
  <2>1. NextPiece.size = 0 /\ NextPiece.bin = 0
    BY <1>9 DEF SC!NothingFits
  <2>2. 0 % A = 0
    BY <1>2
  <2> QED
    BY <2>1, <2>2, <1>4, <1>5, <1>9
<1>10. ASSUME NEW b \in Fixed, NextPiece = [size |-> C(b), bin |-> b], Fits(cfg, b, end, len)
       PROVE  /\ NextPiece.size \in Nat \ {0} /\ NextPiece.bin \in SC(cfg)!Bins
              /\ NextPiece.size <= len /\ NextPiece.size % A = 0
              /\ (end - NextPiece.size) % SC(cfg)!align_of_bin(NextPiece.bin) = 0
              /\ NextPiece.bin # over /\ NextPiece.size = C(NextPiece.bin)
  BY <1>5, <1>6, <1>10 DEF Fits
<1>11. ASSUME NEW s \in Nat, NextPiece = [size |-> s, bin |-> over],
              OverFits(cfg, s, end, len), s % A = 0
       PROVE  /\ NextPiece.size \in Nat \ {0} /\ NextPiece.bin \in SC(cfg)!Bins
              /\ NextPiece.size <= len /\ NextPiece.size % A = 0
              /\ (end - NextPiece.size) % SC(cfg)!align_of_bin(NextPiece.bin) = 0
              /\ NextPiece.bin = over /\ NextPiece.size > E
  BY <1>2, <1>5, <1>7, <1>11 DEF OverFits
<1> QED
  BY <1>8, <1>9, <1>10, <1>11

(* The loops start within their ranges ...                                  *)
LEMMA LoopInit == Init => LoopInv
<1> SUFFICES ASSUME Init PROVE LoopInv
  OBVIOUS
<1>1. SC(cfg)!ValidConfig /\ cfg \in Configs
  BY ConfigFacts DEF Init
<1>2. cfg.MIN_ALIGN \in Nat \ {0} /\ cfg.EXP_CEIL \in Nat /\ 2 * cfg.EXP_CEIL <= WORD /\ WORD \in Nat
  BY <1>1, Constants
<1>3. 0 % cfg.MIN_ALIGN = 0
  BY <1>2
<1>4. LoopRanges
  BY <1>1, <1>2, <1>3 DEF Init, LoopRanges
<1> QED
  BY <1>4 DEF Init, LoopInv, PiecesFitTheirBins, PiecesStacked, SplitOfABlock, EndAligned
(* ... a split with a block ...                                             *)
LEMMA SplitKeepsInv == LoopInv /\ Split => LoopInv'
<1> SUFFICES ASSUME LoopInv, Split PROVE LoopInv'
  OBVIOUS
<1> DEFINE A == cfg.MIN_ALIGN
           E == cfg.EXP_CEIL
<1>0. PICK block \in Targets(cfg), target \in Targets(cfg), i \in 1 .. 2 :
        /\ target <= block
        /\ lo' = i * AlignOf(cfg, block)
        /\ hi' = lo' + block /\ need' = target
  BY DEF Split
<1>1. PICK l, h : /\ lo' = l /\ hi' = h /\ need' = target /\ target <= block
                  /\ l = i * AlignOf(cfg, block) /\ h = l + block
  BY <1>0
<1>2. cfg \in Configs /\ cfg' = cfg /\ job = "none" /\ job' = "split" /\ end' = hi'
  BY DEF LoopInv, LoopRanges, Split
<1>3. SC(cfg)!ValidConfig
  BY <1>2, ConfigFacts
<1>4. /\ A \in Nat \ {0} /\ E \in Nat \ {0} /\ cfg.LNR_FLOOR \in Nat /\ WORD \in Nat
  BY <1>3, Constants
<1>5. /\ block \in Nat \ {0} /\ block % A = 0 /\ (block <= E \/ block <= MaxOver * E)
      /\ target \in Nat \ {0} /\ target % A = 0 /\ target <= block
  BY <1>1, <1>2, TargetFacts
<1> DEFINE G == AlignOf(cfg, block)
<1>6. G \in Nat \ {0} /\ G <= E /\ G % A = 0
  BY <1>3, <1>5, BinIsABin, AlignFacts DEF AlignOf
<1>7. l \in Nat /\ l > 0 /\ l <= 2 * E /\ l % A = 0 /\ l % G = 0
  <2>1. i = 1 \/ i = 2
    OBVIOUS
  <2>2. G % G = 0
    BY <1>6
  <2>3. l = i * G
    BY <1>1
  <2> HIDE DEF A, E, G
  <2>4. (G + G) % A = 0 /\ (G + G) % G = 0
    <3>1. G \in Int /\ A \in Nat \ {0} /\ G \in Nat \ {0}
      BY <1>4, <1>6
    <3> QED
      BY <1>6, <2>2, <3>1, ModSum
  <2>5. l = G \/ l = G + G
    BY <2>1, <2>3, <1>6
  <2> QED
    BY <2>2, <2>4, <2>5, <1>4, <1>6
<1>8. h \in Nat /\ h - l = block /\ h % A = 0
  <2>1. l \in Int /\ block \in Int /\ h = l + block
    BY <1>1, <1>5, <1>7
  <2> HIDE DEF A
  <2>2. h % A = 0
    BY <1>4, <1>5, <1>7, <2>1, ModSum
  <2> QED
    BY <1>5, <1>7, <2>1, <2>2
<1>9. h + E <= WORD
  <2>1. (MaxOver + 4) * E <= WORD
    BY <1>2, ConfigFacts
  <2>2. h = l + block
    BY <1>1
  <2> HIDE DEF E
  <2>3. (MaxOver + 4) * E = MaxOver * E + 4 * E /\ MaxOver * E \in Nat
    BY <1>4, CarvingAssumption
  <2> QED
    BY <2>1, <2>2, <2>3, <1>4, <1>5, <1>7
<1>10. carved = <<>> /\ carved' = <<>> /\ iter = 0 /\ iter' = 0
  BY <1>2 DEF LoopInv, LoopRanges, PiecesStacked, Split
<1>11. LoopRanges'
  <2>1. l + target <= h /\ h <= h
    BY <1>1, <1>5, <1>7, <1>8
  <2> QED
    BY <2>1, <1>1, <1>2, <1>5, <1>7, <1>8, <1>9, <1>10 DEF LoopRanges
<1>12. SplitOfABlock'
  <2> QED
    BY <1>1, <1>2, <1>7, <1>8 DEF SplitOfABlock, Targets, Classes, OverSizes, AlignOf
<1>13. PiecesFitTheirBins' /\ PiecesStacked' /\ EndAligned'
  <2>1. need' # 0
    BY <1>1, <1>5
  <2> QED
    BY <2>1, <1>2, <1>10 DEF PiecesFitTheirBins, PiecesStacked, EndAligned
<1> QED
  BY <1>11, <1>12, <1>13 DEF LoopInv

(* ... and a gap with an aligned end.                                       *)
LEMMA GapKeepsInv == LoopInv /\ Gap => LoopInv'
<1> SUFFICES ASSUME LoopInv, Gap PROVE LoopInv'
  OBVIOUS
<1> DEFINE A == cfg.MIN_ALIGN
           E == cfg.EXP_CEIL
<1>1. PICK bump \in Granules(cfg, 2 * E), k \in SC(cfg)!Bins :
        lo' = bump /\ hi' = SC(cfg)!align_up(bump, SC(cfg)!align_of_bin(k))
  BY DEF Gap
<1>2. /\ cfg \in Configs /\ cfg' = cfg /\ job = "none" /\ job' = "gap" /\ end' = hi'
      /\ need' = need /\ iter' = iter /\ carved' = carved /\ iter = 0
  BY DEF LoopInv, LoopRanges, Gap
<1>3. SC(cfg)!ValidConfig
  BY <1>2, ConfigFacts
<1>4. A \in Nat \ {0} /\ E \in Nat \ {0} /\ WORD \in Nat
  BY <1>3, Constants
<1>5. need = 0 /\ carved = <<>>
  BY <1>2 DEF LoopInv, LoopRanges, PiecesStacked
<1>6. bump \in Nat \ {0} /\ bump <= 2 * E /\ bump % A = 0
  <2>1. 2 * E \in Nat
    BY <1>4
  <2> QED
    BY <2>1, <1>2, GranuleFacts
<1> DEFINE G == SC(cfg)!align_of_bin(k)
           G0 == SC(cfg)!align_of_bin(0)
<1>7. G \in Nat \ {0} /\ G <= E /\ G % A = 0 /\ G % G0 = 0 /\ G0 \in Nat \ {0}
  BY <1>3, AlignFacts
<1>8. (MaxOver + 4) * E <= WORD /\ 4 * E <= (MaxOver + 4) * E
  <2>1. (MaxOver + 4) * E <= WORD
    BY <1>2, ConfigFacts
  <2> HIDE DEF E
  <2>2. (MaxOver + 4) * E = MaxOver * E + 4 * E /\ MaxOver * E \in Nat
    BY <1>4, CarvingAssumption
  <2> QED
    BY <2>1, <2>2, <1>4
<1>9. 4 * E <= WORD
  BY <1>4, <1>8, CarvingAssumption
<1>10. /\ hi' \in Nat /\ hi' % G = 0 /\ bump <= hi' /\ hi' + E <= WORD
  <2>1. SC(cfg)!align_up(bump, G) = align_up(bump, G)
    BY DEF SC!align_up, align_up, SC!Wrap, Wrap, SC!WORD, WORD
  <2> HIDE DEF G, E
  <2>2. bump + G <= WORD
    BY <1>4, <1>6, <1>7, <1>9
  <2>3. /\ align_up(bump, G) \in Nat /\ align_up(bump, G) % G = 0
        /\ bump <= align_up(bump, G) /\ align_up(bump, G) < bump + G
    BY <2>2, <1>6, <1>7, AlignUp
  <2>4. hi' = align_up(bump, G)
    BY <2>1, <1>1 DEF G
  <2> QED
    BY <2>3, <2>4, <1>4, <1>6, <1>7, <1>9
<1>11. hi' % A = 0 /\ hi' % G0 = 0
  <2> HIDE DEF A, G, G0
  <2>1. hi' \in Int
    BY <1>10
  <2> QED
    BY <2>1, <1>4, <1>7, <1>10, ModTrans
<1>12. LoopRanges'
  <2>1. 0 % A = 0
    BY <1>4
  <2> QED
    BY <2>1, <1>1, <1>2, <1>5, <1>6, <1>10, <1>11 DEF LoopRanges
<1>13. EndAligned'
  BY <1>2, <1>11 DEF EndAligned, Align
<1> QED
  BY <1>2, <1>5, <1>12, <1>13 DEF LoopInv, PiecesFitTheirBins, PiecesStacked, SplitOfABlock
(* Carving a piece moves the end down to it.                                *)
LEMMA CarveKeepsInv == LoopInv /\ Carve => LoopInv'
<1> SUFFICES ASSUME LoopInv, Carve PROVE LoopInv'
  OBVIOUS
<1> DEFINE A == cfg.MIN_ALIGN
           E == cfg.EXP_CEIL
           G(k) == SC(cfg)!align_of_bin(k)
           len == Len(carved)
<1>1. LoopRanges /\ PiecesFitTheirBins /\ PiecesStacked /\ SplitOfABlock /\ EndAligned
  BY DEF LoopInv
<1>2. job \in {"split", "gap"} /\ GoesOn
  BY DEF Carve
<1>3. SC(cfg)!ValidConfig
  BY <1>1, ConfigFacts DEF LoopRanges
<1>4. A \in Nat \ {0} /\ E \in Nat \ {0} /\ WORD \in Nat
  BY <1>3, Constants
<1>5. /\ lo \in Nat /\ hi \in Nat /\ need \in Nat /\ end \in Nat /\ iter \in Nat /\ lo > 0
      /\ lo + need <= end /\ end <= hi /\ hi + E <= WORD /\ end % A = 0
      /\ carved \in Seq([at : Nat, bin : SC(cfg)!Bins])
  BY <1>1, <1>2 DEF LoopRanges
<1>6. PICK piece, e :
        /\ piece = NextPiece /\ e = end - piece.size
        /\ end' = e /\ carved' = Append(carved, [at |-> e, bin |-> piece.bin])
  BY DEF Carve, NextPiece
<1>7. /\ iter' = iter + 1 /\ cfg' = cfg /\ job' = job /\ lo' = lo /\ hi' = hi /\ need' = need
  BY DEF Carve
<1>8. piece.size # 0
  <2>1. CASE job = "split"
    BY <2>1, <1>2, <1>6 DEF GoesOn, SC!split_goes_on, NextPiece
  <2>2. CASE job = "gap"
    <3>1. Left - need = end - lo
      BY <2>2, <1>1, <1>5 DEF Left, LoopRanges
    <3> QED
      BY <3>1, <2>2, <1>2, <1>6 DEF GoesOn, SC!gap_goes_on, NextPiece
  <2> QED
    BY <2>1, <2>2, <1>2
<1>9. /\ piece.size \in Nat \ {0} /\ piece.bin \in SC(cfg)!Bins
      /\ piece.size <= Left - need /\ piece.size % A = 0
      /\ (end - piece.size) % G(piece.bin) = 0
      /\ IF piece.bin = SC(cfg)!oversize_bin THEN piece.size > E
         ELSE piece.size = SC(cfg)!bin_class(piece.bin)
  BY <1>1, <1>2, <1>6, <1>8, PieceFacts
<1>10. e \in Nat /\ lo + need <= e /\ e <= end /\ end - e = piece.size /\ e % A = 0 /\ e % G(piece.bin) = 0
  <2>1. e \in Nat /\ lo + need <= e /\ e <= end /\ end - e = piece.size
    BY <1>5, <1>6, <1>9 DEF Left
  <2>2. end \in Int /\ piece.size \in Int /\ end % A = 0 /\ piece.size % A = 0
    BY <1>5, <1>9
  <2>3. (end - piece.size) % A = 0
    BY <2>2, <1>4, ModSum
  <2> QED
    BY <2>1, <2>3, <1>6, <1>9
<1>11. /\ len \in Nat /\ Len(carved') = len + 1 /\ DOMAIN carved = 1 .. len /\ DOMAIN carved' = 1 .. len + 1
       /\ carved'[len + 1] = [at |-> e, bin |-> piece.bin]
       /\ \A i \in 1 .. len : carved'[i] = carved[i]
       /\ carved' \in Seq([at : Nat, bin : SC(cfg)!Bins]) /\ carved' # <<>>
  <2> DEFINE S == [at : Nat, bin : SC(cfg)!Bins]
             p == [at |-> e, bin |-> piece.bin]
  <2>1. p \in S
    BY <1>9, <1>10
  <2>2. carved \in Seq(S) /\ carved' = Append(carved, p)
    BY <1>5, <1>6
  <2>3. len \in Nat /\ DOMAIN carved = 1 .. len
    BY <2>2
  <2> HIDE DEF S, p
  <2>4. /\ carved' \in Seq(S) /\ carved' # <<>> /\ Len(carved') = len + 1
        /\ carved'[len + 1] = p
        /\ \A i \in 1 .. len : carved'[i] = carved[i]
    BY <2>1, <2>2, AppendProperties
  <2>5. DOMAIN carved' = 1 .. len + 1
    BY <2>4
  <2> QED
    BY <2>3, <2>4, <2>5 DEF S, p
<1>12. LoopRanges'
  <2>1. iter + 1 \in Nat /\ e <= hi
    BY <1>5, <1>10
  <2> QED
    BY <2>1, <1>1, <1>2, <1>5, <1>6, <1>7, <1>10, <1>11 DEF LoopRanges
<1>13. PiecesStacked'
  <2>1. iter + 1 # 0
    BY <1>5
  <2>2. carved'[Len(carved')].at = e
    BY <1>11
  <2> QED
    BY <2>1, <2>2, <1>6, <1>7, <1>11 DEF PiecesStacked
<1>14. PiecesFitTheirBins'
  <2> DEFINE Above(i) == IF i = 1 THEN hi ELSE carved'[i - 1].at
             FitsBin(p, l) == /\ p.at % G(p.bin) = 0
                              /\ IF p.bin = SC(cfg)!oversize_bin THEN l > E
                                 ELSE l = SC(cfg)!bin_class(p.bin)
                              /\ p.at >= lo + need
  <2>1. ASSUME NEW i \in 1 .. len PROVE FitsBin(carved'[i], Above(i) - carved'[i].at)
    <3>1. carved'[i] = carved[i] /\ (i # 1 => i - 1 \in 1 .. len)
      BY <1>11
    <3>2. Above(i) = Top(i)
      BY <3>1, <1>11 DEF Top
    <3>3. FitsBin(carved[i], Top(i) - carved[i].at)
      BY <1>1, <1>11 DEF PiecesFitTheirBins
    <3> QED
      BY <3>1, <3>2, <3>3
  <2>2. FitsBin(carved'[len + 1], Above(len + 1) - carved'[len + 1].at)
    <3>1. Above(len + 1) = end
      <4>1. CASE len = 0
        <5>1. carved = <<>>
          BY <4>1, <1>5
        <5> QED
          BY <4>1, <5>1, <1>1 DEF PiecesStacked
      <4>2. CASE len # 0
        <5>1. carved # <<>> /\ len \in 1 .. len /\ (len + 1) - 1 = len /\ len + 1 # 1
          BY <4>2, <1>11
        <5> QED
          BY <5>1, <1>1, <1>11 DEF PiecesStacked
      <4> QED
        BY <4>1, <4>2
    <3>2. carved'[len + 1].at = e /\ carved'[len + 1].bin = piece.bin
      BY <1>11
    <3> HIDE DEF Above
    <3> QED
      BY <3>1, <3>2, <1>5, <1>9, <1>10
  <2>3. \A i \in 1 .. len + 1 : FitsBin(carved'[i], Above(i) - carved'[i].at)
    <3>1. \A i \in 1 .. len + 1 : i \in 1 .. len \/ i = len + 1
      BY <1>11
    <3> HIDE DEF FitsBin, Above
    <3> QED
      BY <3>1, <2>1, <2>2
  <2>4. DOMAIN carved' = 1 .. len + 1
    BY <1>11
  <2> QED
    BY <2>3, <2>4, <1>7 DEF PiecesFitTheirBins, Top
<1>15. SplitOfABlock'
  BY <1>1, <1>7 DEF SplitOfABlock, Targets, Classes, OverSizes, AlignOf
<1>16. EndAligned'
  <2>1. G(piece.bin) \in Nat \ {0} /\ G(piece.bin) % G(0) = 0 /\ G(0) \in Nat \ {0}
    BY <1>3, <1>9, AlignFacts
  <2>2. e % G(0) = 0
    <3>1. e \in Int /\ e % G(piece.bin) = 0
      BY <1>10
    <3> HIDE DEF G
    <3> QED
      BY <2>1, <3>1, ModTrans
  <2> QED
    BY <2>2, <1>6, <1>7 DEF EndAligned, Align
<1> QED
  BY <1>12, <1>13, <1>14, <1>15, <1>16 DEF LoopInv

(* Ending a loop, and counting, leave the rest alone.                       *)
LEMMA LoopStep == LoopInv /\ [Next]_vars => LoopInv'
<1> SUFFICES ASSUME LoopInv, [Next]_vars PROVE LoopInv'
  OBVIOUS
<1>1. CASE Split
  BY <1>1, SplitKeepsInv
<1>2. CASE Gap
  BY <1>2, GapKeepsInv
<1>3. CASE Carve
  BY <1>3, CarveKeepsInv
<1>4. ASSUME UNCHANGED <<cfg, lo, hi, need, end, iter, carved>>,
             job' = job \/ (job \in {"split", "gap"} /\ job' = "done")
      PROVE  LoopInv'
  <2>1. LoopRanges'
    BY <1>4 DEF LoopInv, LoopRanges
  <2>2. PiecesFitTheirBins' /\ PiecesStacked'
    BY <1>4 DEF LoopInv, PiecesFitTheirBins, PiecesStacked, Top
  <2>3. SplitOfABlock'
    BY <1>4 DEF LoopInv, LoopRanges, SplitOfABlock, Targets, Classes, OverSizes, AlignOf
  <2>4. EndAligned'
    BY <1>4 DEF LoopInv, EndAligned, Align
  <2> QED
    BY <2>1, <2>2, <2>3, <2>4 DEF LoopInv
<1>5. CASE Count
  BY <1>4, <1>5 DEF Count
<1>6. CASE Done
  BY <1>4, <1>6 DEF Done
<1>7. CASE UNCHANGED vars
  BY <1>4, <1>7 DEF vars
<1> QED
  BY <1>1, <1>2, <1>3, <1>5, <1>6, <1>7 DEF Next

(* The loop invariant holds of every state.                                 *)
LEMMA LoopInvHolds == Spec => []LoopInv
BY LoopInit, LoopStep, PTL DEF Spec

(* Every piece is a block its bin may hold.                                 *)
THEOREM PiecesFitTheirBinsHolds == Spec => []PiecesFitTheirBins
<1>1. LoopInv => PiecesFitTheirBins
  BY DEF LoopInv
<1> QED
  BY <1>1, LoopInvHolds, PTL
-----------------------------------------------------------------------------
(* What is left when a loop ends.                                          *)

(* The end of what is left lets the smallest class in, if there is room.    *)
LEMMA SmallestFits ==
  ASSUME LoopInv, job \in {"split", "gap"}, iter > 0 \/ need = 0,
         Left - need >= cfg.LNR_FLOOR
  PROVE  Fits(cfg, 0, end, Left - need)
<1>1. SC(cfg)!ValidConfig
  BY ConfigFacts DEF LoopInv, LoopRanges
<1>2. 0 \in SC(cfg)!FixedBins /\ SC(cfg)!bin_class(0) = cfg.LNR_FLOOR
  BY <1>1, FixedBinsFacts
<1>3. end % SC(cfg)!align_of_bin(0) = 0 /\ end \in Int
  BY DEF LoopInv, LoopRanges, EndAligned, Align
<1>4. /\ SC(cfg)!bin_class(0) \in Int /\ SC(cfg)!align_of_bin(0) \in Nat \ {0}
      /\ SC(cfg)!bin_class(0) % SC(cfg)!align_of_bin(0) = 0
  BY <1>1, <1>2, ClassFacts
<1>5. (end - SC(cfg)!bin_class(0)) % SC(cfg)!align_of_bin(0) = 0
  BY <1>3, <1>4, ModSum
<1>6. SC(cfg)!bin_class(0) <= Left - need
  BY <1>2, <1>1, Constants DEF LoopInv, LoopRanges, Left
<1> QED
  BY <1>5, <1>6 DEF Fits

(* So a loop that has carved a piece, or fills a gap, ends with less than   *)
(* the smallest class to spare.                                             *)
LEMMA SpareIsASliver ==
  ASSUME LoopInv, job \in {"split", "gap"}, iter > 0 \/ need = 0,
         Left - need < cfg.MIN_ALIGN \/ NextPiece.size = 0
  PROVE  Left - need < cfg.LNR_FLOOR
<1>1. /\ cfg.MIN_ALIGN \in Nat /\ cfg.LNR_FLOOR \in Nat /\ 2 * cfg.MIN_ALIGN <= cfg.LNR_FLOOR
      /\ Left - need \in Int
  BY ConfigFacts, Constants DEF LoopInv, LoopRanges, Left
<1>2. CASE Left - need < cfg.MIN_ALIGN
  BY <1>1, <1>2
<1>3. CASE NextPiece.size = 0
  <2>1. ~ Fits(cfg, 0, end, Left - need)
    BY <1>3, PieceFacts DEF LoopInv
  <2>2. ~ (Left - need >= cfg.LNR_FLOOR)
    BY <2>1, SmallestFits
  <2> QED
    BY <2>2, <1>1
<1> QED
  BY <1>2, <1>3

(* The size a split stamps is valid, aligned and sufficient, and what it    *)
(* gives up is a sliver.                                                    *)
LEMMA RetainedFacts ==
  ASSUME LoopInv, job = "split", ~ GoesOn
  PROVE  LET s == SC(cfg)!retained_size(Left, need, iter)
         IN /\ s \in Nat /\ SC(cfg)!is_block_exact(s)
            /\ need <= s /\ s <= Left /\ Left - s < cfg.LNR_FLOOR
            /\ lo % AlignOf(cfg, s) = 0
<1> DEFINE A == cfg.MIN_ALIGN
           L == cfg.LNR_FLOOR
           E == cfg.EXP_CEIL
           C(k) == SC(cfg)!bin_class(k)
           G(k) == SC(cfg)!align_of_bin(k)
           over == SC(cfg)!oversize_bin
           Fixed == SC(cfg)!FixedBins
           exact(x) == SC(cfg)!is_block_exact(x)
           s == SC(cfg)!retained_size(Left, need, iter)
<1>1. SC(cfg)!ValidConfig /\ cfg \in Configs
  BY ConfigFacts DEF LoopInv, LoopRanges
<1>2. A \in Nat \ {0} /\ L \in Nat \ {0} /\ E \in Nat \ {0} /\ 2 * A <= L /\ L <= E
  BY <1>1, Constants
<1>3. /\ lo \in Nat /\ hi \in Nat /\ need \in Nat \ {0} /\ end \in Nat /\ iter \in Nat
      /\ lo + need <= end /\ end <= hi
      /\ lo % A = 0 /\ need % A = 0 /\ end % A = 0
  BY DEF LoopInv, LoopRanges
<1>4. /\ hi - lo \in Targets(cfg) /\ lo % AlignOf(cfg, hi - lo) = 0
      /\ need \in Targets(cfg)
  BY <1>3 DEF LoopInv, SplitOfABlock
<1>5. Left \in Nat /\ need <= Left /\ Left <= hi - lo /\ hi - lo \in Nat
  BY <1>3 DEF Left
<1>6. L <= need /\ exact(need) /\ exact(hi - lo)
  BY <1>1, <1>4, TargetFacts
<1>7. iter = 0 => Left = hi - lo
  BY DEF LoopInv, PiecesStacked, Left
<1>8. s = IF (iter = 0 /\ Left - need < cfg.SPLIT_MIN) \/ exact(Left) THEN Left
          ELSE C(SC(cfg)!floor_bin(Left))
  BY DEF SC!retained_size
<1>9. exact(Left) \/ iter # 0
  BY <1>6, <1>7
(* A valid size that is no larger than the block is aligned at lo too.      *)
<1>10. ASSUME NEW x \in Nat, x <= hi - lo, exact(x) PROVE lo % AlignOf(cfg, x) = 0
  <2>1. x > E \/ \E k \in Fixed : x = C(k)
    BY <1>1, <1>10, BlockExact
  <2>2. hi - lo > E \/ \E j \in Fixed : hi - lo = C(j)
    BY <1>1, <1>5, <1>6, BlockExact
  <2>3. \A y \in Nat : y > E => AlignOf(cfg, y) = E
    <3>1. over \in SC(cfg)!Bins /\ G(over) = E
      BY <1>1, FixedBinsFacts, AlignFacts DEF SC!Bins
    <3> QED
      BY <3>1, <1>1, BinIndex DEF AlignOf
  <2>4. \A k \in Fixed : AlignOf(cfg, C(k)) = G(k) /\ C(k) <= E /\ C(k) \in Nat
    BY <1>1, BinOfClass, ClassFacts DEF AlignOf
  <2>5. CASE x > E
    BY <2>3, <2>5, <1>2, <1>4, <1>5, <1>10
  <2>6. ASSUME NEW k \in Fixed, x = C(k) PROVE lo % AlignOf(cfg, x) = 0
    <3>1. AlignOf(cfg, x) = G(k) /\ G(k) \in Nat \ {0} /\ E % G(k) = 0
      BY <2>4, <2>6, <1>1, ClassFacts
    <3>2. CASE hi - lo > E
      <4>1. lo % E = 0 /\ lo \in Int
        BY <3>2, <2>3, <1>3, <1>4, <1>5
      <4> HIDE DEF E, G
      <4>2. lo % G(k) = 0
        BY <4>1, <3>1, <1>2, ModTrans
      <4> QED
        BY <4>2, <3>1
    <3>3. ASSUME NEW j \in Fixed, hi - lo = C(j) PROVE lo % AlignOf(cfg, x) = 0
      <4>1. lo % G(j) = 0 /\ G(j) \in Nat \ {0}
        BY <3>3, <2>4, <1>1, <1>4, ClassFacts
      <4>2. k = j \/ k < j
        <5>1. j < k => C(j) < C(k)
          BY <1>1, ClassOrder
        <5>2. k \in Nat /\ j \in Nat
          BY <1>1, FixedBinsFacts
        <5> QED
          BY <5>1, <5>2, <3>3, <2>4, <2>6, <1>10
      <4>3. G(j) % G(k) = 0
        <5>1. k < j => G(j) % G(k) = 0
          BY <1>1, ClassOrder
        <5>2. k = j => G(j) % G(k) = 0
          BY <4>1
        <5> QED
          BY <5>1, <5>2, <4>2
      <4>4. lo % G(k) = 0
        <5>1. lo \in Int
          BY <1>3
        <5> HIDE DEF G
        <5> QED
          BY <5>1, <4>1, <4>3, <3>1, ModTrans
      <4> QED
        BY <4>4, <3>1
    <3> QED
      BY <3>2, <3>3, <2>2
  <2> QED
    BY <2>1, <2>5, <2>6
<1>11. CASE exact(Left)
  <2>1. s = Left
    BY <1>8, <1>11
  <2>2. lo % AlignOf(cfg, Left) = 0
    BY <1>5, <1>10, <1>11
  <2>3. Left - Left < L
    BY <1>2, <1>5
  <2> HIDE DEF s
  <2>4. /\ s \in Nat /\ exact(s) /\ need <= s /\ s <= Left /\ Left - s < L
        /\ lo % AlignOf(cfg, s) = 0
    BY <2>1, <2>2, <2>3, <1>5, <1>11
  <2> QED
    BY <2>4 DEF s
<1>12. CASE ~ exact(Left)
  <2> DEFINE b == SC(cfg)!floor_bin(Left)
  <2>1. iter # 0 /\ s = C(b)
    BY <1>8, <1>9, <1>12
  <2>2. Left <= E /\ L <= Left
    BY <1>1, <1>2, <1>3, <1>5, <1>6, <1>12, BlockExact
  <2>3. b \in Fixed /\ C(b) <= Left /\ \A j \in Fixed : C(j) <= Left => j <= b
    BY <2>2, <1>1, <1>5, FloorBin
  <2>4. C(b) \in Nat /\ exact(C(b))
    <3>1. C(b) \in Nat
      BY <2>3, <1>1, ClassFacts
    <3> QED
      BY <3>1, <2>3, <1>1, BlockExact
  <2>5. need <= C(b)
    <3>1. PICK j \in Fixed : need = C(j)
      BY <2>2, <1>1, <1>2, <1>3, <1>5, <1>6, BlockExact
    <3>2. j <= b
      BY <2>3, <3>1, <1>5
    <3>3. j < b => C(j) < C(b)
      BY <2>3, <1>1, ClassOrder
    <3>4. j \in Nat /\ b \in Nat
      BY <2>3, <1>1, FixedBinsFacts
    <3>5. j = b => C(j) = C(b)
      OBVIOUS
    <3> QED
      BY <3>1, <3>2, <3>3, <3>4, <3>5, <2>4, <1>3
  <2>6. Left - need < L
    <3>1. Left - need < A \/ NextPiece.size = 0
      <4>1. ~ (Left - need >= A) \/ ~ (SC(cfg)!largest_carvable(end, Left - need).size # 0)
        BY <2>1, <1>12 DEF GoesOn, SC!split_goes_on
      <4> QED
        BY <4>1, <1>2, <1>3, <1>5 DEF NextPiece
    <3>2. iter > 0
      BY <2>1, <1>3
    <3> QED
      BY <3>1, <3>2, SpareIsASliver
  <2>7. Left - C(b) < L
    BY <2>4, <2>5, <2>6, <1>2, <1>3, <1>5
  <2>8. lo % AlignOf(cfg, C(b)) = 0
    <3>1. C(b) <= hi - lo
      BY <2>3, <2>4, <1>5
    <3> QED
      BY <3>1, <2>4, <1>10
  <2> HIDE DEF s, b
  <2>9. /\ s \in Nat /\ exact(s) /\ need <= s /\ s <= Left /\ Left - s < L
        /\ lo % AlignOf(cfg, s) = 0
    BY <2>1, <2>3, <2>4, <2>5, <2>7, <2>8
  <2> QED
    BY <2>9 DEF s
<1> QED
  BY <1>11, <1>12

(* What the loops leave, kept after they have ended.                        *)
Outcome == RetainedIsValid /\ SplitLeaksASliver /\ GapLeaksASliver

(* No step undoes the outcome.                                              *)
LEMMA OutcomeStep == LoopInv /\ Outcome /\ [Next]_vars => Outcome'
<1> SUFFICES ASSUME LoopInv, Outcome, [Next]_vars PROVE Outcome'
  OBVIOUS
<1>1. CASE Split \/ Gap \/ Count \/ Carve
  <2>1. job' # "done"
    BY <1>1 DEF Split, Gap, Count, Carve
  <2> QED
    BY <2>1 DEF Outcome, RetainedIsValid, SplitLeaksASliver, GapLeaksASliver
<1>2. CASE Done
  <2>1. job \in {"split", "gap"} /\ ~ GoesOn
    BY <1>2 DEF Done
  <2>2. UNCHANGED <<cfg, lo, need, end>>
    BY <1>2 DEF Done
  <2>3. CASE job = "split"
    <3>1. size' = SC(cfg)!retained_size(Left, need, iter) /\ need # 0
      BY <1>2, <2>3 DEF Done, LoopInv, LoopRanges
    <3>2. /\ SC(cfg)!is_block_exact(size')
          /\ need <= size' /\ size' <= Left /\ Left - size' < cfg.LNR_FLOOR
          /\ lo % AlignOf(cfg, size') = 0
      BY <2>1, <2>3, <3>1, RetainedFacts
    <3> QED
      BY <2>2, <3>1, <3>2
         DEF Outcome, RetainedIsValid, SplitLeaksASliver, GapLeaksASliver, Left, AlignOf
  <2>4. CASE job = "gap"
    <3>1. need = 0 /\ end \in Nat /\ lo \in Nat
      BY <2>4 DEF LoopInv, LoopRanges
    <3>2. end - lo = Left - need
      BY <3>1 DEF Left
    <3>3. Left - need < cfg.MIN_ALIGN \/ NextPiece.size = 0
      <4>1. cfg.MIN_ALIGN \in Nat /\ Left - need \in Int
        BY <3>1, ConfigFacts, Constants DEF LoopInv, LoopRanges, Left
      <4>2. ~ (Left - need >= cfg.MIN_ALIGN) \/ ~ (NextPiece.size # 0)
        BY <2>1, <2>4, <3>2 DEF GoesOn, SC!gap_goes_on, NextPiece
      <4> QED
        BY <4>1, <4>2
    <3>4. Left < cfg.LNR_FLOOR
      <4>1. Left - need < cfg.LNR_FLOOR
        BY <3>1, <3>3, <2>4, SpareIsASliver
      <4> QED
        BY <4>1, <3>1 DEF Left
    <3> QED
      BY <2>2, <3>1, <3>4
         DEF Outcome, RetainedIsValid, SplitLeaksASliver, GapLeaksASliver, Left
  <2> QED
    BY <2>1, <2>3, <2>4
<1>3. CASE UNCHANGED vars
  BY <1>3 DEF vars, Outcome, RetainedIsValid, SplitLeaksASliver, GapLeaksASliver, Left, AlignOf
<1> QED
  BY <1>1, <1>2, <1>3 DEF Next

(* The outcome holds of every state.                                        *)
LEMMA OutcomeHolds == Spec => []Outcome
<1>1. Init => Outcome
  BY DEF Init, Outcome, RetainedIsValid, SplitLeaksASliver, GapLeaksASliver
<1> QED
  BY <1>1, LoopInvHolds, OutcomeStep, PTL DEF Spec

(* A split stamps its block with a size that free can take back.            *)
THEOREM RetainedIsValidHolds == Spec => []RetainedIsValid
<1>1. Outcome => RetainedIsValid
  BY DEF Outcome
<1> QED
  BY <1>1, OutcomeHolds, PTL

(* A split leaks less than the smallest class.                              *)
THEOREM SplitLeaksASliverHolds == Spec => []SplitLeaksASliver
<1>1. Outcome => SplitLeaksASliver
  BY DEF Outcome
<1> QED
  BY <1>1, OutcomeHolds, PTL

(* So does a gap.                                                           *)
THEOREM GapLeaksASliverHolds == Spec => []GapLeaksASliver
<1>1. Outcome => GapLeaksASliver
  BY DEF Outcome
<1> QED
  BY <1>1, OutcomeHolds, PTL
=============================================================================
