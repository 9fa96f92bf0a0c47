----------------------------- MODULE SlobBlock -----------------------------
(***************************************************************************)
(* Free blocks in a SLOB page (mm/slob.c).  A page is PageUnits units of   *)
(* one slobidx_t each, a block is named by the offset of its first unit,   *)
(* and a pointer to the end of the page is the offset PageUnits.  The      *)
(* header of a free block lies in the block itself: a size and the offset  *)
(* of the next free block, or, in a block of one unit, the negated offset. *)
(***************************************************************************)
EXTENDS Integers, Sequences

CONSTANT
    PageUnits   \* SLOB_UNITS(PAGE_SIZE)

\* PAGE_SIZE <= 32767 * 2, so that slobidx_t is s16.  Sizes and offsets in
\* units, negated ones too, fit it.
ASSUME PageAssumption == PageUnits \in 2..32767

\* What a variable of type slobidx_t keeps of the integer n.
slobidx_t(n) == ((n + 32768) % 65536) - 32768

\* sizeof(slob_t)
SLOB_UNIT == 2

SLOB_UNITS(size) == (size + SLOB_UNIT - 1) \div SLOB_UNIT

PageBytes == PageUnits * SLOB_UNIT

Offsets == 0 .. PageUnits - 1

slob_units(w, s) == IF w[s] > 0 THEN w[s] ELSE 1

slob_next(w, s) == IF w[s] < 0 THEN -w[s] ELSE w[s + 1]

\* The next pointer is page aligned.
slob_last(w, s) == slob_next(w, s) % PageUnits = 0

\* The words w of a page after a header has been written at s.
set_slob(w, s, size, next) ==
    IF size > 1 THEN [w EXCEPT ![s] = size, ![s + 1] = next]
                ELSE [w EXCEPT ![s] = -next]

\* Units between s and the next multiple of align units: ALIGN(s) - s.
Delta(s, align) == (-s) % align

\* Room enough for units at the given alignment?
Fits(b, units, align) == b.avail >= units + Delta(b.cur, align)

\* What would be left of the block behind the object.
Rest(b, units, align) == b.avail - (units + Delta(b.cur, align))

-----------------------------------------------------------------------------
(* struct best_block_slob and the comparison of find_best_fit_block. *)

NULL == -1

NoBlock == [cur |-> NULL]

\* Faulty variant: best.block_size starts at 0.
NoBestZero(units) ==
    [blk |-> NoBlock, block_size |-> 0, object_size |-> units]

\* best before the search: any block is better, if PAGE_SIZE + 1 fits
\* block_size.
NoBest(units) ==
    [blk |-> NoBlock, block_size |-> slobidx_t(PageBytes + 1), object_size |-> units]

\* It does for pages of up to 16K; of 32K it is -32767.
BlockSizeFits == slobidx_t(PageBytes + 1) = PageBytes + 1

\* Faulty variant: the best block so far is not compared with.
ImproveAlways(best, b, units, align) ==
    IF Fits(b, units, align)
    THEN [best EXCEPT !.blk = b, !.block_size = b.avail]
    ELSE best

\* best after the free block b has been looked at.
Improve(best, b, units, align) ==
    IF /\ Fits(b, units, align)
       /\ \/ Rest(b, units, align) = 0
          \/ Rest(b, units, align) < best.block_size - best.object_size
    THEN [blk |-> b, block_size |-> b.avail, object_size |-> units]
    ELSE best

\* best after all of the blocks have been looked at, in their order.
Search(blocks, units, align) ==
    LET best[n \in 0 .. Len(blocks)] ==
            IF n = 0 THEN NoBest(units)
            ELSE Improve(best[n - 1], blocks[n], units, align)
    IN  best[Len(blocks)]
=============================================================================
