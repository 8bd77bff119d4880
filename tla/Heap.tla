-------------------------------- MODULE Heap --------------------------------
(***************************************************************************)
(* The kernel heap of kernel/memory.c: kmalloc, kmalloc_aligned and        *)
(* kcalloc advance heap_pos through a static array; kfree does nothing, so *)
(* every allocation is live for ever.  All arithmetic is that of uint32_t: *)
(* modulo WORD.                                                            *)
(*                                                                         *)
(* allocs records what the callers were promised: where each allocation    *)
(* starts, counted from the start of the array, and how many bytes were    *)
(* asked for.  A call that returns NULL changes nothing.                   *)
(***************************************************************************)
EXTENDS Integers, Sequences

CONSTANTS
    HEAP_SIZE,  \* bytes of the heap (0x8000)
    WORD,       \* one more than the largest uint32_t (2^32)
    Size,       \* the sizes callers ask for
    Num,        \* the element counts callers of kcalloc ask for
    Alignment,  \* the alignments callers ask for
    MaxAllocs   \* bound on the allocations that succeed

ASSUME HeapAssumption ==
    /\ HEAP_SIZE \in Nat /\ WORD \in Nat /\ HEAP_SIZE < WORD
    /\ Size \subseteq 0 .. WORD - 1
    /\ Num \subseteq 0 .. WORD - 1
    /\ Alignment \subseteq 1 .. WORD - 1
    /\ MaxAllocs \in Nat

VARIABLES heap_pos, allocs

heapVars == <<heap_pos, allocs>>

Allocation == [start : Nat, size : Nat]

(* heap_init *)
HeapInit == heap_pos = 0 /\ allocs = <<>>

Plus(a, b) == (a + b) % WORD

(* n & ~(m - 1), for a power of two m. *)
RoundDown(n, m) == n - (n % m)

(* (size + 3) & ~3 *)
RoundUp4(size) == RoundDown(Plus(size, 3), 4)

(* (pos + alignment - 1) & ~(alignment - 1) *)
AlignUp(pos, alignment) == RoundDown(Plus(pos, alignment - 1), alignment)

Fits_start_only(pos, size) == pos <= HEAP_SIZE

(* The test every allocator makes before it hands out size bytes at pos. *)
Fits(pos, size) == Plus(pos, size) <= HEAP_SIZE

(* Where kmalloc leaves heap_pos after it handed out size bytes at pos. *)
Bump(pos, size) == Plus(pos, RoundUp4(size))

HandOut(start, size) ==
    /\ Len(allocs) < MaxAllocs
    /\ allocs' = Append(allocs, [start |-> start, size |-> size])

kmalloc(size) ==
    /\ Fits(heap_pos, size)
    /\ HandOut(heap_pos, size)
    /\ heap_pos' = Bump(heap_pos, size)

kmalloc_aligned_advances_by_size(size, alignment) ==
    /\ Fits(AlignUp(heap_pos, alignment), size)
    /\ HandOut(AlignUp(heap_pos, alignment), size)
    /\ heap_pos' = Plus(heap_pos, size)

kmalloc_aligned(size, alignment) ==
    /\ Fits(AlignUp(heap_pos, alignment), size)
    /\ HandOut(AlignUp(heap_pos, alignment), size)
    /\ heap_pos' = Plus(AlignUp(heap_pos, alignment), size)

(* kmalloc of the product as a uint32_t; the caller expects num elements. *)
kcalloc(num, size) ==
    /\ Fits(heap_pos, (num * size) % WORD)
    /\ HandOut(heap_pos, num * size)
    /\ heap_pos' = Bump(heap_pos, (num * size) % WORD)

HeapNext ==
    \/ \E size \in Size : kmalloc(size)
    \/ \E size \in Size, alignment \in Alignment : kmalloc_aligned(size, alignment)
    \/ \E num \in Num, size \in Size : kcalloc(num, size)

HeapSpec == HeapInit /\ [][HeapNext]_heapVars

-----------------------------------------------------------------------------
End(a) == a.start + a.size

(* heap_pos passes the end of the heap by no more than the rounding of one
   kmalloc, so the sum in Fits stays far from the width of the type. *)
HeapTypeOK ==
    /\ heap_pos \in 0 .. HEAP_SIZE + 3
    /\ allocs \in Seq(Allocation)

(* Every allocation lies inside the heap: a request that does not fit is refused
   ("Out of heap memory"), the rounding and the alignment included. *)
InsideHeap == \A i \in 1 .. Len(allocs) : End(allocs[i]) <= HEAP_SIZE

(* No two live allocations share a byte, whatever mix of the three allocators
   made them. *)
AllocationsDisjoint ==
    \A i, j \in 1 .. Len(allocs) :
       i < j => \/ End(allocs[i]) <= allocs[j].start
                \/ End(allocs[j]) <= allocs[i].start
=============================================================================
