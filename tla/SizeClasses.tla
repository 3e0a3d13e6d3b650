---------------------------- MODULE SizeClasses ----------------------------
(***************************************************************************)
(* The geometry of cadalloc: the size classes a Config defines, the map    *)
(* between sizes and bins, the alignment of each class, and the largest    *)
(* block that can be carved off the top of a region.  Everything here is a *)
(* `const fn` of src/allocator.rs or a derived constant of src/config.rs;  *)
(* no state is involved.                                                   *)
(***************************************************************************)
EXTENDS Words

CONSTANTS
  MIN_ALIGN,   \* granule of the heap, step of the linear classes
  LNR_FLOOR,   \* smallest class
  EXP_FLOOR,   \* first exponential class
  EXP_CEIL,    \* largest class; anything above is oversized
  SPLIT_MIN,   \* smallest excess worth splitting off
  CARVE_MAX    \* carving budget of one split

\* Config::VALIDATE, which every configuration passes at compile time.
ValidConfig ==
  /\ IsPow2(MIN_ALIGN) /\ MIN_ALIGN > 8
  /\ IsPow2(LNR_FLOOR) /\ LNR_FLOOR >= 2 * MIN_ALIGN
  /\ IsPow2(EXP_FLOOR) /\ EXP_FLOOR >= LNR_FLOOR
  /\ IsPow2(EXP_CEIL) /\ EXP_CEIL >= EXP_FLOOR
  /\ IsPow2(SPLIT_MIN) /\ SPLIT_MIN <= EXP_CEIL
  /\ CARVE_MAX \in Nat

-----------------------------------------------------------------------------
(* Bins and classes.                                                       *)

NUM_LINEAR == (EXP_FLOOR - LNR_FLOOR) \div MIN_ALIGN
NUM_EXP == 2 * (ilog2(EXP_CEIL) - ilog2(EXP_FLOOR)) + 1
NUM_BINS == NUM_LINEAR + NUM_EXP + 1

oversize_bin == NUM_BINS - 1
Bins == 0 .. oversize_bin
FixedBins == 0 .. oversize_bin - 1

\* Base of the octave an exponential bin belongs to.
OctaveBase(bin) == 2 ^ (ilog2(EXP_FLOOR) + (bin - NUM_LINEAR) \div 2)

bin_class(bin) ==
  IF bin < NUM_LINEAR THEN LNR_FLOOR + bin * MIN_ALIGN
  ELSE IF bin < oversize_bin
       THEN align_up(IF (bin - NUM_LINEAR) % 2 = 0
                     THEN OctaveBase(bin)
                     ELSE OctaveBase(bin) + OctaveBase(bin) \div 2, MIN_ALIGN)
       ELSE WORD - 1

\* Fault: no carry into the next octave.
ExpIndex_NoCarry(size) ==
  NUM_LINEAR + 2 * (ilog2(size) - ilog2(EXP_FLOOR)) + (IF IsPow2(size) THEN 0 ELSE 1)

\* Exponential bin of a size in EXP_FLOOR .. EXP_CEIL: which octave, and
\* which of its two classes.
ExpIndex(size) ==
  LET m == ilog2(size)
      base == 2 ^ m
      o == m - ilog2(EXP_FLOOR)
  IN NUM_LINEAR + (IF size = base THEN 2 * o
                   ELSE IF size <= base + base \div 2 THEN 2 * o + 1
                   ELSE 2 * (o + 1))

bin_index(size) ==
  IF size <= LNR_FLOOR THEN 0
  ELSE IF size < EXP_FLOOR
       THEN (size - LNR_FLOOR + MIN_ALIGN - 1) \div MIN_ALIGN
  ELSE IF size <= EXP_CEIL THEN ExpIndex(size)
  ELSE oversize_bin

\* Fault: the ceiling map in its place.
floor_bin_Ceiling(size) == bin_index(size)

floor_bin(size) ==
  LET ceil == bin_index(size)
  IN IF bin_class(ceil) <= size THEN ceil ELSE ceil - 1

is_block_exact(size) ==
  size > EXP_CEIL \/ bin_class(bin_index(size)) = size

\* Faults: the octave base itself, and the largest class for every bin.
align_of_bin_Base(bin) == IF bin < NUM_LINEAR THEN MIN_ALIGN ELSE OctaveBase(bin)
align_of_bin_Ceil(bin) == IF bin < NUM_LINEAR THEN MIN_ALIGN ELSE EXP_CEIL

align_of_bin(bin) ==
  IF bin < NUM_LINEAR THEN MIN_ALIGN
  ELSE IF bin < oversize_bin THEN Larger(OctaveBase(bin) \div 2, MIN_ALIGN)
  ELSE EXP_CEIL

\* Fault: no room for the header.
NeedOf_NoHeader(size) == align_up(size, MIN_ALIGN)

\* Total size a request occupies before it is rounded to a class: the
\* payload rounded to a granule, plus the header granule.
NeedOf(size) == Wrap(align_up(size, MIN_ALIGN) + MIN_ALIGN)

request_block_size(size) ==
  LET bin == bin_index(NeedOf(size))
  IN IF bin = oversize_bin THEN NeedOf(size) ELSE bin_class(bin)

-----------------------------------------------------------------------------
(* Carving.                                                                *)

NothingFits == [size |-> 0, bin |-> 0]

\* Fault: the alignment of the class is forgotten.
LargestFixed_Unaligned(end, cap) ==
  [size |-> bin_class(floor_bin(cap)), bin |-> floor_bin(cap)]

\* The block of the largest class that ends at `end` with its start aligned,
\* given that no more than `cap` bytes may be used.
LargestFixed(end, cap) ==
  LET exp_cap == 3 * LowBit(end)
      limit == IF cap < EXP_FLOOR THEN cap
               ELSE IF cap < exp_cap THEN cap
               ELSE IF exp_cap >= EXP_FLOOR THEN exp_cap
               ELSE EXP_FLOOR - MIN_ALIGN
      bin == floor_bin(limit)
  IN IF limit < LNR_FLOOR THEN NothingFits
     ELSE [size |-> bin_class(bin), bin |-> bin]

largest_carvable(end, len) ==
  LET size == end - align_up(end - len, EXP_CEIL)
  IN IF len < LNR_FLOOR THEN NothingFits
     ELSE IF len <= EXP_CEIL THEN LargestFixed(end, len)
     ELSE IF size > EXP_CEIL THEN [size |-> size, bin |-> oversize_bin]
     ELSE LargestFixed(end, EXP_CEIL)

\* Faults: the budget is final, and there is none.
split_goes_on_Final(top, size, need, iter) ==
  /\ iter = 0 => size - need >= SPLIT_MIN
  /\ size - need >= MIN_ALIGN /\ iter < CARVE_MAX
  /\ largest_carvable(top, size - need).size # 0
split_goes_on_Always(top, size, need, iter) ==
  /\ iter = 0 => size - need >= SPLIT_MIN
  /\ size - need >= MIN_ALIGN /\ largest_carvable(top, size - need).size # 0

\* split_and_free_tail: a block of `size` bytes that ends at `top` is cut down
\* to `need`, piece by piece from the top.  After `iter` pieces, does it go on?
\* It starts only if the excess clears SPLIT_MIN, and goes on within the
\* budget, or past it until what is left is a valid block.
split_goes_on(top, size, need, iter) ==
  /\ iter = 0 => size - need >= SPLIT_MIN
  /\ size - need >= MIN_ALIGN
  /\ iter < CARVE_MAX \/ ~is_block_exact(size)
  /\ largest_carvable(top, size - need).size # 0

\* Fault: the final sliver stays in the block.
retained_size_Sliver(size, need, iter) == size

\* The size the block is stamped with when `size` bytes are left after `iter`
\* pieces: all of it if the split was not taken up; otherwise a valid block, at
\* the price of a sliver if need be.
retained_size(size, need, iter) ==
  IF (iter = 0 /\ size - need < SPLIT_MIN) \/ is_block_exact(size)
    THEN size ELSE bin_class(floor_bin(size))

\* Fault: the gap is skipped.
gap_goes_on_Never(lo, end) == FALSE

\* carve_gap: is there another piece to carve off lo .. end - 1?
gap_goes_on(lo, end) ==
  end - lo >= MIN_ALIGN /\ largest_carvable(end, end - lo).size # 0

-----------------------------------------------------------------------------
(* The control region at the front of the heap: two metadata words, one    *)
(* head word per bin, the bump pointer and the refill lock.                *)

META_BYTES == 16
control_bytes == align_up(META_BYTES + (NUM_BINS + 2) * 8, MIN_ALIGN)
=============================================================================
