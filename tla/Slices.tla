------------------------------- MODULE Slices -------------------------------
(***************************************************************************)
(* The (ptr, len) pairs of src/slice.rs: the operations a SliceView and an *)
(* owning Slice share, on u64 words of WORD_BITS bits.                     *)
(***************************************************************************)
EXTENDS Integers

CONSTANT WORD_BITS

WORD == 2 ^ WORD_BITS

\* The address one past the end, wrapping.
end(s) == (s.ptr + s.len) % WORD

contains(s, addr) == s.ptr <= addr /\ addr < end(s)

covers(s, other) == s.ptr <= other.ptr /\ end(other) <= end(s)

\* Fault: regions that only touch count as overlapping.
overlaps_Touching(s, other) == s.ptr <= end(other) /\ other.ptr <= end(s)

overlaps(s, other) == s.ptr < end(other) /\ other.ptr < end(s)

is_aligned_to(s, align) == align # 0 /\ s.ptr % align = 0

\* Fault: the sum of offset and length wraps.
HasPart_Wrapping(s, offset, len) == (offset + len) % WORD <= s.len

\* Does subslice(offset, len) return a view?  The sum is a checked one.
HasPart(s, offset, len) == offset + len < WORD /\ offset + len <= s.len

\* The part of a view at an offset: a view of the same region.
Part(v, offset, len) == [v EXCEPT !.ptr = @ + offset, !.len = len]

\* Fault: the tail keeps the length of the whole.
TailAt_Long(v, mid) == Part(v, mid, v.len)

\* The two views split_at(mid) returns.
HeadAt(v, mid) == Part(v, 0, mid)
TailAt(v, mid) == Part(v, mid, v.len - mid)

\* The addresses a pair stands for.
Addresses(s) == s.ptr .. s.ptr + s.len - 1
=============================================================================
