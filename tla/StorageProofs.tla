--------------------------- MODULE StorageProofs ---------------------------
(***************************************************************************)
(* The kernel heap and the three filesystems, for all values of their      *)
(* constants: the RAM filesystem on the heap, the block filesystem and the *)
(* descriptors of the virtual filesystem.                                  *)
(***************************************************************************)
EXTENDS MCStorage, Induction, FiniteSetTheorems

-----------------------------------------------------------------------------
(* The kernel heap: allocations are inside it and disjoint, for every heap size and
   every sequence of requests, as long as no request comes near the width of
   uint32_t. *)

(* The requests whose sums and products stay below WORD.  The theorems are false
   without it: kcalloc(2^30, 4) asks kmalloc for 0 bytes and succeeds. *)
Modest ==
    /\ \A size \in Size : HEAP_SIZE + size + 6 < WORD
    /\ \A num \in Num, size \in Size :
          num * size \in Nat /\ HEAP_SIZE + num * size + 6 < WORD
    /\ \A size \in Size, alignment \in Alignment :
          HEAP_SIZE + size + alignment + 3 < WORD

(* What is handed out next starts at heap_pos or above: allocations end there. *)
EndsBelowPos == \A i \in 1 .. Len(allocs) : End(allocs[i]) <= heap_pos

HeapInv == HeapTypeOK /\ InsideHeap /\ AllocationsDisjoint /\ EndsBelowPos

LEMMA ModSmall ==
    ASSUME NEW n \in Nat, NEW a \in Nat, a < n
    PROVE  a % n = a
OBVIOUS

LEMMA PlusExact ==
    ASSUME NEW a \in Nat, NEW b \in Nat, a + b < WORD
    PROVE  Plus(a, b) = a + b
BY HeapAssumption, ModSmall DEF Plus

LEMMA RoundDownBounds ==
    ASSUME NEW n \in Nat, NEW m \in Nat \ {0}
    PROVE  RoundDown(n, m) \in Nat /\ RoundDown(n, m) <= n /\ n < RoundDown(n, m) + m
<1>1. n % m \in 0 .. m - 1 /\ n % m <= n
  OBVIOUS
<1> QED
  BY <1>1 DEF RoundDown

LEMMA RoundUp4Bounds ==
    ASSUME NEW size \in Nat, size + 3 < WORD
    PROVE  RoundUp4(size) \in size .. size + 3
<1>1. Plus(size, 3) = size + 3
  BY PlusExact
<1>2. /\ RoundDown(size + 3, 4) \in Nat
      /\ RoundDown(size + 3, 4) <= size + 3 /\ size + 3 < RoundDown(size + 3, 4) + 4
  BY RoundDownBounds
<1> QED
  BY <1>1, <1>2 DEF RoundUp4

LEMMA AlignUpBounds ==
    ASSUME NEW pos \in Nat, NEW alignment \in Nat \ {0}, pos + alignment < WORD
    PROVE  AlignUp(pos, alignment) \in pos .. pos + alignment - 1
<1> DEFINE a == alignment - 1
<1>1. a \in Nat /\ pos + a < WORD
  BY HeapAssumption
<1>2. Plus(pos, a) = pos + a
  BY <1>1, PlusExact
<1>3. /\ RoundDown(pos + a, alignment) \in Nat
      /\ RoundDown(pos + a, alignment) <= pos + a
      /\ pos + a < RoundDown(pos + a, alignment) + alignment
  BY <1>1, RoundDownBounds
<1> QED
  BY <1>2, <1>3 DEF AlignUp

(* What every successful call does: it hands out size bytes from start on, at or
   above heap_pos, and moves heap_pos to their end or up to three bytes further. *)
LEMMA HandOutPreserves ==
    ASSUME HeapInv,
           NEW start \in Nat, NEW size \in Nat,
           heap_pos <= start, start + size <= HEAP_SIZE,
           heap_pos' \in start + size .. start + size + 3,
           HandOut(start, size)
    PROVE  HeapInv'
<1> DEFINE a == [start |-> start, size |-> size]
<1>1. a \in Allocation /\ allocs \in Seq(Allocation) /\ allocs' = Append(allocs, a)
  BY DEF HeapInv, HeapTypeOK, Allocation, HandOut
<1>2. /\ Len(allocs') = Len(allocs) + 1 /\ Len(allocs) \in Nat
      /\ allocs'[Len(allocs) + 1] = a
      /\ \A i \in 1 .. Len(allocs) : allocs'[i] = allocs[i] /\ allocs[i] \in Allocation
  BY <1>1
<1>3. \A i \in 1 .. Len(allocs) :
         allocs[i].start \in Nat /\ allocs[i].size \in Nat
  BY <1>2 DEF Allocation
<1>4. heap_pos \in Nat /\ HEAP_SIZE \in Nat
  BY HeapAssumption DEF HeapInv, HeapTypeOK
<1>5. HeapTypeOK'
  BY <1>1, <1>4, HeapAssumption DEF HeapTypeOK
<1>6. End(a) = start + size /\ a.start = start
  BY DEF End
<1>7. InsideHeap'
  BY <1>2, <1>6 DEF HeapInv, InsideHeap, End
<1>8. EndsBelowPos'
  BY <1>2, <1>3, <1>4, <1>6 DEF HeapInv, EndsBelowPos, End
<1>9. AllocationsDisjoint'
  <2> SUFFICES ASSUME NEW i \in 1 .. Len(allocs'), NEW j \in 1 .. Len(allocs'), i < j
               PROVE  \/ End(allocs'[i]) <= allocs'[j].start
                      \/ End(allocs'[j]) <= allocs'[i].start
    BY DEF AllocationsDisjoint, End
  <2>1. i \in 1 .. Len(allocs)
    BY <1>2
  <2>2. CASE j \in 1 .. Len(allocs)
    BY <1>2, <2>1, <2>2 DEF HeapInv, AllocationsDisjoint
  <2>3. CASE j = Len(allocs) + 1
    BY <1>2, <1>3, <1>4, <1>6, <2>1, <2>3 DEF HeapInv, EndsBelowPos, End
  <2> QED
    BY <1>2, <2>2, <2>3
<1> QED
  BY <1>5, <1>7, <1>8, <1>9 DEF HeapInv

LEMMA HeapInitInv == HeapInit => HeapInv
BY HeapAssumption DEF HeapInit, HeapInv, HeapTypeOK, InsideHeap, AllocationsDisjoint, EndsBelowPos

(* kmalloc, and kcalloc once the product is known to be exact. *)
LEMMA BumpPreserves ==
    ASSUME HeapInv, NEW size \in Nat, HEAP_SIZE + size + 6 < WORD,
           Fits(heap_pos, size), HandOut(heap_pos, size),
           heap_pos' = Bump(heap_pos, size)
    PROVE  HeapInv'
<1>1. heap_pos \in Nat /\ heap_pos <= HEAP_SIZE + 3 /\ HEAP_SIZE \in Nat /\ WORD \in Nat
  BY HeapAssumption DEF HeapInv, HeapTypeOK
<1>2. Plus(heap_pos, size) = heap_pos + size
  BY <1>1, PlusExact
<1>3. RoundUp4(size) \in size .. size + 3
  BY <1>1, RoundUp4Bounds
<1>4. heap_pos + size <= HEAP_SIZE
  BY <1>2 DEF Fits
<1>5. Plus(heap_pos, RoundUp4(size)) = heap_pos + RoundUp4(size)
  BY <1>1, <1>3, <1>4, PlusExact
<1>6. heap_pos' \in heap_pos + size .. heap_pos + size + 3
  BY <1>1, <1>3, <1>5 DEF Bump
<1> QED
  BY <1>1, <1>4, <1>6, HandOutPreserves

LEMMA AlignedPreserves ==
    ASSUME Modest, HeapInv, NEW size \in Size, NEW alignment \in Alignment,
           kmalloc_aligned(size, alignment)
    PROVE  HeapInv'
<1> DEFINE start == AlignUp(heap_pos, alignment)
<1>1. /\ heap_pos \in Nat /\ heap_pos <= HEAP_SIZE + 3 /\ HEAP_SIZE \in Nat /\ WORD \in Nat
      /\ size \in Nat /\ alignment \in Nat \ {0}
  BY HeapAssumption DEF HeapInv, HeapTypeOK
<1>2. HEAP_SIZE + size + alignment + 3 < WORD
  BY DEF Modest
<1>3. start \in heap_pos .. heap_pos + alignment - 1
  BY <1>1, <1>2, AlignUpBounds
<1>4. Plus(start, size) = start + size
  BY <1>1, <1>2, <1>3, PlusExact
<1>5. start + size <= HEAP_SIZE /\ heap_pos' = start + size
  BY <1>4 DEF kmalloc_aligned, Fits
<1>6. HandOut(start, size)
  BY DEF kmalloc_aligned
<1> HIDE DEF start
<1> QED
  BY <1>1, <1>3, <1>5, <1>6, HandOutPreserves

LEMMA HeapNextInv ==
    ASSUME Modest, HeapInv, [HeapNext]_heapVars
    PROVE  HeapInv'
<1>1. CASE \E size \in Size : kmalloc(size)
  <2>1. PICK size \in Size : kmalloc(size)
    BY <1>1
  <2>2. size \in Nat /\ HEAP_SIZE + size + 6 < WORD
    BY HeapAssumption DEF Modest
  <2> QED
    BY <2>1, <2>2, BumpPreserves DEF kmalloc
<1>2. CASE \E size \in Size, alignment \in Alignment : kmalloc_aligned(size, alignment)
  BY <1>2, AlignedPreserves
<1>3. CASE \E num \in Num, size \in Size : kcalloc(num, size)
  <2>1. PICK num \in Num, size \in Size : kcalloc(num, size)
    BY <1>3
  <2> DEFINE total == num * size
  <2>2. total \in Nat /\ HEAP_SIZE + total + 6 < WORD
    BY DEF Modest
  <2>3. total % WORD = total
    BY <2>2, HeapAssumption, ModSmall
  <2>4. /\ Fits(heap_pos, total) /\ HandOut(heap_pos, total)
        /\ heap_pos' = Bump(heap_pos, total)
    BY <2>1, <2>3 DEF kcalloc
  <2> HIDE DEF total
  <2> QED
    BY <2>2, <2>4, BumpPreserves
<1>4. CASE UNCHANGED heapVars
  BY <1>4 DEF heapVars, HeapInv, HeapTypeOK, InsideHeap, AllocationsDisjoint, EndsBelowPos, End
<1> QED
  BY <1>1, <1>2, <1>3, <1>4 DEF HeapNext

LEMMA HeapInvAlways ==
    ASSUME Modest
    PROVE  HeapSpec => []HeapInv
<1>1. HeapInv /\ [HeapNext]_heapVars => HeapInv'
  BY HeapNextInv
<1> QED
  BY <1>1, HeapInitInv, PTL DEF HeapSpec

(* heap_pos stays within three bytes of the heap whatever is allocated. *)
THEOREM HeapTypeCorrect ==
    ASSUME Modest
    PROVE  HeapSpec => []HeapTypeOK
<1>1. HeapInv => HeapTypeOK
  BY DEF HeapInv
<1> QED
  BY <1>1, HeapInvAlways, PTL

(* No allocator hands out a byte beyond the end of the heap. *)
THEOREM InsideHeapAlways ==
    ASSUME Modest
    PROVE  HeapSpec => []InsideHeap
<1>1. HeapInv => InsideHeap
  BY DEF HeapInv
<1> QED
  BY <1>1, HeapInvAlways, PTL

(* No allocator hands out a byte twice. *)
THEOREM AllocationsDisjointAlways ==
    ASSUME Modest
    PROVE  HeapSpec => []AllocationsDisjoint
<1>1. HeapInv => AllocationsDisjoint
  BY DEF HeapInv
<1> QED
  BY <1>1, HeapInvAlways, PTL

-----------------------------------------------------------------------------
(* The RAM filesystem uses the kernel heap as any other caller does, so what
   was shown of the heap holds while the filesystem is mounted or fails to be. *)

LEMMA SizesAreHeapSizes ==
    TableSize \in Size /\ MAX_FILES * MAX_FILE_SIZE \in Size
BY RamFsAssumption

(* Every step of the kernel with a RAM filesystem is a step of the heap or leaves
   the heap alone: ramfs_init takes its memory through kmalloc only. *)
THEOREM RamFsUsesHeap == Spec => HeapSpec
<1>1. Init => HeapInit
  BY DEF Init
<1>2. [Next]_vars => [HeapNext]_heapVars
  <2> SUFFICES ASSUME [Next]_vars
               PROVE  HeapNext \/ UNCHANGED heapVars
    OBVIOUS
  <2>1. CASE allocate
    BY <2>1 DEF allocate
  <2>2. CASE ramfs_init
    BY <2>2, SizesAreHeapSizes DEF ramfs_init, HeapNext
  <2>3. CASE ramfs_init_data
    BY <2>3, SizesAreHeapSizes DEF ramfs_init_data, HeapNext
  <2>4. CASE ramfs_init_fails
    BY <2>4 DEF ramfs_init_fails
  <2>5. CASE \E name \in Name, size \in 0 .. MAX_FILE_SIZE, b \in Byte :
                ramfs_create_file(name, size, b)
    BY <2>5 DEF ramfs_create_file
  <2>6. CASE \E i \in Slot, o \in Offset, count \in Count, b \in Byte :
                ramfs_write(i, o, count, b)
    BY <2>6 DEF ramfs_write
  <2>7. CASE UNCHANGED vars
    BY <2>7 DEF vars
  <2> QED
    BY <2>1, <2>2, <2>3, <2>4, <2>5, <2>6, <2>7 DEF Next
<1> QED
  BY <1>1, <1>2, PTL DEF Spec, HeapSpec

(* With the filesystem in it, too, the heap hands out no byte twice. *)
THEOREM RamFsAllocationsDisjoint ==
    ASSUME Modest
    PROVE  Spec => []AllocationsDisjoint
BY RamFsUsesHeap, AllocationsDisjointAlways, PTL

(* Nor a byte beyond its end. *)
THEOREM RamFsInsideHeap ==
    ASSUME Modest
    PROVE  Spec => []InsideHeap
BY RamFsUsesHeap, InsideHeapAlways, PTL

-----------------------------------------------------------------------------
(* The descriptors of the virtual filesystem. *)

SampleByte == {Sample[i] : i \in DOMAIN Sample}

(* What ReadsDeliverSample needs to be inductive: a descriptor that only read has not
   passed the end of the text, where SubSeq means nothing. *)
VfsInv ==
    /\ VfsTypeOK
    /\ seen \in [Fd -> Seq(SampleByte \cup {"moved"})]
    /\ \A fd \in in_use : seen[fd] # <<"moved">> =>
          offset[fd] <= Len(Sample) /\ seen[fd] = SubSeq(Sample, 1, offset[fd])

(* Reading on is reading further. *)
LEMMA SubSeqExtends ==
    ASSUME NEW S, NEW s \in Seq(S), NEW o \in Nat, NEW n \in Nat, o + n <= Len(s),
           NEW t \in Seq(S), Len(t) = n, \A i \in 1 .. n : t[i] = s[o + i]
    PROVE  SubSeq(s, 1, o) \o t = SubSeq(s, 1, o + n)
OBVIOUS

LEMMA VfsInitInv == VfsInit => VfsInv
<1> SUFFICES ASSUME VfsInit PROVE VfsInv
  OBVIOUS
<1>1. 0 \in 0 .. VfsWord - 1
  BY VfsAssumption
<1> QED
  BY <1>1 DEF VfsInit, VfsInv, VfsTypeOK

(* What a step of descriptor fd has to show. *)
LEMMA VfsStep ==
    ASSUME VfsInv, NEW fd \in Fd, NEW o \in 0 .. VfsWord - 1,
           NEW s \in Seq(SampleByte \cup {"moved"}),
           s # <<"moved">> => o <= Len(Sample) /\ s = SubSeq(Sample, 1, o),
           in_use' \subseteq in_use \cup {fd},
           offset' = [offset EXCEPT ![fd] = o], seen' = [seen EXCEPT ![fd] = s]
    PROVE  VfsInv'
<1>1. offset \in [Fd -> 0 .. VfsWord - 1] /\ seen \in [Fd -> Seq(SampleByte \cup {"moved"})]
      /\ in_use \subseteq Fd
  BY DEF VfsInv, VfsTypeOK
<1>2. VfsTypeOK' /\ seen' \in [Fd -> Seq(SampleByte \cup {"moved"})]
  BY <1>1 DEF VfsTypeOK
<1>3. ASSUME NEW e \in in_use', seen'[e] # <<"moved">>
      PROVE  offset'[e] <= Len(Sample) /\ seen'[e] = SubSeq(Sample, 1, offset'[e])
  <2>1. CASE e = fd
    <3>1. offset'[e] = o /\ seen'[e] = s
      BY <1>1, <2>1
    <3> QED
      BY <1>3, <3>1
  <2>2. CASE e # fd
    <3>1. e \in in_use /\ offset'[e] = offset[e] /\ seen'[e] = seen[e]
      BY <1>1, <2>2
    <3> QED
      BY <1>3, <3>1 DEF VfsInv
  <2> QED
    BY <2>1, <2>2
<1> QED
  BY <1>2, <1>3 DEF VfsInv

LEMMA VfsReadInv ==
    ASSUME VfsInv, NEW fd \in Fd, NEW count \in VfsCounts, vfs_read(fd, count)
    PROVE  VfsInv'
<1> DEFINE n == ToRead(fd, count)
           t == [i \in 1 .. n |-> IF offset[fd] + i \in DOMAIN Sample
                                  THEN Sample[offset[fd] + i] ELSE "beyond"]
           s == IF seen[fd] = <<"moved">> THEN seen[fd] ELSE seen[fd] \o t
           o == offset[fd]
<1>0. /\ o \in 0 .. VfsWord - 1 /\ o \in Nat /\ VfsWord \in Nat /\ count \in Nat
      /\ count + Len(Sample) <= VfsWord /\ Sample \in Seq(SampleByte) /\ Len(Sample) \in Nat
      /\ seen[fd] \in Seq(SampleByte \cup {"moved"})
      /\ fd \in in_use
  BY VfsAssumption DEF VfsInv, VfsTypeOK, SampleByte, vfs_read
<1>1. /\ n \in Nat /\ o + n \in 0 .. VfsWord - 1
      /\ o <= Len(Sample) => o + n <= Len(Sample)
      /\ o > Len(Sample) => n = 0
  <2> DEFINE l == Len(Sample)
  <2>1. n = IF o >= l THEN 0 ELSE IF (o + count) % VfsWord > l THEN l - o ELSE count
    BY DEF ToRead
  <2>2. l \in Nat /\ count + l <= VfsWord
    BY <1>0
  <2> HIDE DEF l, n, o
  <2>3. ASSUME ~(o >= l) PROVE (o + count) % VfsWord = o + count
    <3>1. o + count \in 0 .. VfsWord - 1
      BY <1>0, <2>2, <2>3
    <3> QED
      BY <1>0, <3>1, ModSmall
  <2>4. CASE o >= l
    <3>1. n = 0
      BY <2>1, <2>4
    <3> QED
      BY <1>0, <2>2, <2>4, <3>1 DEF l
  <2>5. CASE ~(o >= l)
    <3>1. n = IF o + count > l THEN l - o ELSE count
      BY <2>1, <2>3, <2>5
    <3> QED
      BY <1>0, <2>2, <2>5, <3>1 DEF l
  <2> QED
    BY <2>4, <2>5
<1>2. /\ offset' = [offset EXCEPT ![fd] = o + n] /\ seen' = [seen EXCEPT ![fd] = s]
      /\ in_use' = in_use
  BY DEF vfs_read
<1> HIDE DEF n
<1>3. CASE seen[fd] = <<"moved">>
  BY <1>0, <1>1, <1>2, <1>3, VfsStep
<1>4. CASE seen[fd] # <<"moved">>
  <2>1. o <= Len(Sample) /\ seen[fd] = SubSeq(Sample, 1, o)
    BY <1>0, <1>4 DEF VfsInv
  <2>2. \A i \in 1 .. n : o + i \in DOMAIN Sample /\ Sample[o + i] \in SampleByte
    BY <1>0, <1>1, <2>1
  <2>3. t \in Seq(SampleByte) /\ Len(t) = n /\ \A i \in 1 .. n : t[i] = Sample[o + i]
    BY <1>1, <2>2
  <2> HIDE DEF t
  <2>4. s = SubSeq(Sample, 1, o) \o t
    BY <1>4, <2>1
  <2>5. s = SubSeq(Sample, 1, o + n)
    <3>1. o + n <= Len(Sample) /\ o \in Nat /\ n \in Nat /\ Sample \in Seq(SampleByte)
      BY <1>0, <1>1, <2>1
    <3> HIDE DEF o, s
    <3>2. SubSeq(Sample, 1, o) \o t = SubSeq(Sample, 1, o + n)
      BY <2>3, <3>1, SubSeqExtends
    <3> QED
      BY <2>4, <3>2
  <2>6. seen[fd] \o t \in Seq(SampleByte \cup {"moved"})
    BY <1>0, <2>3
  <2>7. s \in Seq(SampleByte \cup {"moved"})
    BY <1>4, <2>6
  <2> HIDE DEF s
  <2> QED
    BY <1>0, <1>1, <1>2, <2>1, <2>5, <2>7, VfsStep
<1> QED
  BY <1>3, <1>4

LEMMA VfsNextInv == VfsInv /\ [VfsNext]_vfsVars => VfsInv'
<1> SUFFICES ASSUME VfsInv, [VfsNext]_vfsVars PROVE VfsInv'
  OBVIOUS
<1>0. /\ VfsWord \in Nat \ {0} /\ 0 \in 0 .. VfsWord - 1 /\ 0 <= Len(Sample)
      /\ <<>> = SubSeq(Sample, 1, 0) /\ <<>> \in Seq(SampleByte \cup {"moved"})
      /\ <<"moved">> \in Seq(SampleByte \cup {"moved"})
  BY VfsAssumption
<1>1. ASSUME NEW fd \in Fd, vfs_open(fd) PROVE VfsInv'
  BY <1>0, <1>1, VfsStep DEF vfs_open
<1>2. ASSUME NEW fd \in Fd, vfs_close(fd) PROVE VfsInv'
  BY <1>2 DEF vfs_close, VfsInv, VfsTypeOK
<1>3. ASSUME NEW fd \in Fd, NEW to \in VfsOffsets, vfs_seek(fd, to) PROVE VfsInv'
  <2>1. to \in 0 .. VfsWord - 1
    BY VfsAssumption
  <2> QED
    BY <1>0, <1>3, <2>1, VfsStep DEF vfs_seek
<1>4. ASSUME NEW fd \in Fd, NEW count \in VfsCounts, vfs_write(fd, count) PROVE VfsInv'
  <2>1. (offset[fd] + count) % VfsWord \in 0 .. VfsWord - 1
    BY <1>0, VfsAssumption DEF VfsInv, VfsTypeOK
  <2>2. /\ offset' = [offset EXCEPT ![fd] = (offset[fd] + count) % VfsWord]
        /\ seen' = [seen EXCEPT ![fd] = <<"moved">>] /\ in_use' = in_use
    BY <1>4 DEF vfs_write
  <2> QED
    BY <1>0, <2>1, <2>2, VfsStep
<1>5. CASE UNCHANGED vfsVars
  BY <1>5 DEF vfsVars, VfsInv, VfsTypeOK
<1> QED
  BY <1>1, <1>2, <1>3, <1>4, <1>5, VfsReadInv DEF VfsNext

LEMMA VfsInvAlways == VfsSpec => []VfsInv
BY VfsInitInv, VfsNextInv, PTL DEF VfsSpec

(* Whatever is opened, closed, sought and written in between, a fresh descriptor of
   vfs_simple.c reads the text from its beginning, in order and not past its end. *)
THEOREM ReadsDeliverSampleAlways == VfsSpec => [](ReadsDeliverSample /\ VfsTypeOK)
<1>1. VfsInv => ReadsDeliverSample /\ VfsTypeOK
  BY DEF VfsInv, ReadsDeliverSample
<1> QED
  BY <1>1, VfsInvAlways, PTL

-----------------------------------------------------------------------------
(* The files of the RAM filesystem. *)

(* The byte counts for which the sum in ramfs_write does not wrap.  The theorems are
   false without it: a count close to 2^32 at an offset above 0 passes the test. *)
CountsFit == \A count \in Count : MAX_FILE_SIZE + count <= WORD

FileRecord == [name : Name \cup {NULL}, size : 0 .. MAX_FILE_SIZE]

(* What no write has reached is zero, and there are no files before the filesystem is
   mounted. *)
ZeroBeyond ==
    \A i \in Slot : \A o \in Offset :
       files[i].name = NULL \/ o >= files[i].size => bytes[i][o] = Zero

NoFilesYet ==
    ~ramfs \/ mounting => \A i \in Slot : files[i] = FreeSlot

RamInv ==
    /\ ramfs \in BOOLEAN /\ mounting \in BOOLEAN /\ smashed \in BOOLEAN
    /\ mounting => ramfs /\ ~smashed
    /\ FilesStayInSlots
    /\ file_data \in 0 .. HEAP_SIZE \cup {NULL}
    /\ files \in [Slot -> FileRecord]
    /\ bytes \in [Slot -> [Offset -> Byte]]
    /\ ZeroBeyond /\ NoFilesYet

LEMMA RamConstants ==
    /\ MAX_FILES \in Nat \ {0} /\ MAX_FILE_SIZE \in Nat \ {0}
    /\ HEAP_SIZE \in Nat /\ WORD \in Nat /\ MAX_FILE_SIZE < WORD
    /\ Count \subseteq Nat /\ Zero \in Byte
<1>1. /\ MAX_FILES \in Nat \ {0} /\ MAX_FILE_SIZE \in Nat \ {0}
      /\ HEAP_SIZE \in Nat /\ WORD \in Nat /\ MAX_FILES * MAX_FILE_SIZE \in 0 .. WORD - 1
      /\ Count \subseteq 0 .. WORD - 1 /\ Zero \in Byte
  BY RamFsAssumption, HeapAssumption
<1>2. (MAX_FILES - 1) * MAX_FILE_SIZE \in Nat
  BY <1>1
<1>3. MAX_FILES * MAX_FILE_SIZE = (MAX_FILES - 1) * MAX_FILE_SIZE + MAX_FILE_SIZE
  BY <1>1
<1> QED
  BY <1>1, <1>2, <1>3

LEMMA FreeSlotIsRecord == FreeSlot \in FileRecord /\ FreeSlot.name = NULL /\ FreeSlot.size = 0
BY RamConstants DEF FreeSlot, FileRecord

LEMMA RamInitInv == Init => RamInv
<1> SUFFICES ASSUME Init PROVE RamInv
  OBVIOUS
<1>1. /\ ramfs = FALSE /\ file_data = NULL /\ mounting = FALSE /\ smashed = FALSE
      /\ files = [i \in Slot |-> FreeSlot]
      /\ bytes = [i \in Slot |-> [o \in Offset |-> Zero]]
  BY DEF Init
<1>2. files \in [Slot -> FileRecord] /\ \A i \in Slot : files[i] = FreeSlot
  BY <1>1, FreeSlotIsRecord
<1>3. bytes \in [Slot -> [Offset -> Byte]] /\ ZeroBeyond
  BY <1>1, RamConstants DEF ZeroBeyond
<1>4. NoFilesYet
  BY <1>2 DEF NoFilesYet
<1> QED
  BY <1>1, <1>2, <1>3, <1>4 DEF RamInv, FilesStayInSlots

(* The bytes a write copies stay in the slot, and so does the size it leaves. *)
LEMMA WrittenFits ==
    ASSUME CountsFit, NEW offset_ \in Offset, NEW count \in Count
    PROVE  /\ Written(offset_, count) \in 0 .. MAX_FILE_SIZE - offset_
           /\ Written(offset_, count) \in Nat
           /\ Plus(offset_, Written(offset_, count)) = offset_ + Written(offset_, count)
<1>1. /\ offset_ \in 0 .. MAX_FILE_SIZE - 1 /\ count \in Nat /\ offset_ + count < WORD
      /\ MAX_FILE_SIZE \in Nat /\ WORD \in Nat /\ MAX_FILE_SIZE < WORD
  BY RamConstants DEF CountsFit, Offset
<1>2. Plus(offset_, count) = offset_ + count
  BY <1>1, PlusExact
<1>3. Written(offset_, count) \in 0 .. MAX_FILE_SIZE - offset_
  BY <1>1, <1>2 DEF Written
<1>4. offset_ + Written(offset_, count) < WORD /\ Written(offset_, count) \in Nat
  BY <1>1, <1>3
<1>5. offset_ \in Nat
  BY <1>1
<1> QED
  BY <1>3, <1>4, <1>5, PlusExact

(* A copy that stays in its slot: what it does to the bytes. *)
LEMMA CopyFacts ==
    ASSUME RamInv, NEW i \in Slot, NEW at \in 0 .. MAX_FILE_SIZE, NEW count \in Nat,
           at + count <= MAX_FILE_SIZE, NEW b \in Byte, Copy(i, at, count, b)
    PROVE  /\ bytes' \in [Slot -> [Offset -> Byte]]
           /\ \A j \in Slot : j # i => bytes'[j] = bytes[j]
           /\ \A o \in Offset : bytes'[i][o] = IF at <= o /\ o < at + count THEN b ELSE bytes[i][o]
           /\ smashed' \in BOOLEAN
           /\ file_data # NULL => ~smashed'
           /\ count = 0 => ~smashed'
<1> DEFINE new == [o \in Offset |-> IF at <= o /\ o < at + count THEN b ELSE bytes[i][o]]
<1>1. bytes' = [bytes EXCEPT ![i] = new]
  BY DEF Copy
<1>2. bytes \in [Slot -> [Offset -> Byte]]
  BY DEF RamInv
<1>3. new \in [Offset -> Byte]
      /\ \A o \in Offset : new[o] = IF at <= o /\ o < at + count THEN b ELSE bytes[i][o]
  BY <1>2
<1> HIDE DEF new
<1>4. /\ bytes' \in [Slot -> [Offset -> Byte]]
      /\ \A j \in Slot : j # i => bytes'[j] = bytes[j]
      /\ bytes'[i] = new
  BY <1>1, <1>2, <1>3
<1>5. ~(at + count > MAX_FILE_SIZE)
  BY RamConstants
<1>6. smashed' = (count > 0 /\ file_data = NULL)
  BY <1>5 DEF Copy
<1>7. count = 0 => ~(count > 0)
  OBVIOUS
<1> QED
  BY <1>3, <1>4, <1>6, <1>7

(* What a step that leaves slot i with entry e and the bytes of the other slots alone
   has to show. *)
LEMMA SlotStep ==
    ASSUME RamInv, NEW i \in Slot, NEW e \in FileRecord, e.name # NULL,
           files' = [files EXCEPT ![i] = e],
           bytes' \in [Slot -> [Offset -> Byte]],
           \A j \in Slot : j # i => bytes'[j] = bytes[j],
           \A o \in Offset : o >= e.size => bytes'[i][o] = Zero,
           ramfs, ~mounting, UNCHANGED <<ramfs, mounting, file_data>>,
           smashed' \in BOOLEAN, file_data # NULL => ~smashed'
    PROVE  RamInv'
<1>1. files \in [Slot -> FileRecord]
  BY DEF RamInv
<1>2. /\ files' \in [Slot -> FileRecord] /\ files'[i] = e
      /\ \A j \in Slot : j # i => files'[j] = files[j]
  BY <1>1
<1>4. ZeroBeyond'
  <2> SUFFICES ASSUME NEW j \in Slot, NEW o \in Offset,
                      files'[j].name = NULL \/ o >= files'[j].size
               PROVE  bytes'[j][o] = Zero
    BY DEF ZeroBeyond
  <2>1. CASE j = i
    BY <1>2, <2>1
  <2>2. CASE j # i
    BY <1>2, <2>2 DEF RamInv, ZeroBeyond
  <2> QED
    BY <2>1, <2>2
<1>5. NoFilesYet'
  BY DEF NoFilesYet
<1> QED
  BY <1>2, <1>4, <1>5 DEF RamInv, FilesStayInSlots

LEMMA CreateInv ==
    ASSUME RamInv, NEW name \in Name, NEW size \in 0 .. MAX_FILE_SIZE, NEW b \in Byte,
           ramfs_create_file(name, size, b)
    PROVE  RamInv'
<1>1. PICK i \in Slot : /\ FirstFree(i) /\ Copy(i, 0, size, b)
                        /\ files' = [files EXCEPT ![i] = [name |-> RamKept[name], size |-> size]]
  BY DEF ramfs_create_file
<1> DEFINE e == [name |-> RamKept[name], size |-> size]
<1>2. e \in FileRecord /\ e.name # NULL /\ e.size = size
  BY RamFsAssumption DEF FileRecord
<1>3. files' = [files EXCEPT ![i] = e]
  BY <1>1
<1> HIDE DEF e
<1>5. /\ bytes' \in [Slot -> [Offset -> Byte]]
      /\ \A j \in Slot : j # i => bytes'[j] = bytes[j]
      /\ \A o \in Offset : bytes'[i][o] = IF 0 <= o /\ o < 0 + size THEN b ELSE bytes[i][o]
      /\ smashed' \in BOOLEAN
      /\ file_data # NULL => ~smashed'
  <2>1. 0 \in 0 .. MAX_FILE_SIZE /\ size \in Nat /\ 0 + size <= MAX_FILE_SIZE
    BY RamConstants
  <2> QED
    BY <1>1, <2>1, CopyFacts
<1>6. \A o \in Offset : bytes[i][o] = Zero
  <2>1. files[i].name = NULL
    BY <1>1 DEF FirstFree
  <2> QED
    BY <1>1, <2>1 DEF RamInv, ZeroBeyond
<1>7. \A o \in Offset : o >= size => ~(o < 0 + size)
  BY RamConstants DEF Offset
<1>9. \A o \in Offset : o >= e.size => bytes'[i][o] = Zero
  BY <1>2, <1>5, <1>6, <1>7
<1>8. ramfs /\ ~mounting /\ UNCHANGED <<ramfs, mounting, file_data>>
  BY DEF ramfs_create_file, Idle
<1> QED
  BY <1>2, <1>3, <1>5, <1>8, <1>9, SlotStep

LEMMA WriteInv ==
    ASSUME CountsFit, RamInv, NEW i \in Slot, NEW at \in Offset, NEW count \in Count,
           NEW b \in Byte, ramfs_write(i, at, count, b)
    PROVE  RamInv'
<1> DEFINE n == Written(at, count)
           g == Grown(files[i].size, Plus(at, n))
           e == [files[i] EXCEPT !.size = g]
<1>1. /\ n \in 0 .. MAX_FILE_SIZE - at /\ n \in Nat /\ Plus(at, n) = at + n
  BY WrittenFits
<1>2. Copy(i, at, n, b) /\ files' = [files EXCEPT ![i] = e] /\ files[i].name # NULL
  BY DEF ramfs_write
<1>3. files[i] \in FileRecord
  BY DEF RamInv
<1>4. /\ files[i].size \in 0 .. MAX_FILE_SIZE /\ files[i].name \in Name \cup {NULL}
      /\ files[i] = [name |-> files[i].name, size |-> files[i].size]
  BY <1>3 DEF FileRecord
<1> HIDE DEF n
<1>5. /\ at \in 0 .. MAX_FILE_SIZE /\ at \in Nat /\ at + n <= MAX_FILE_SIZE
  BY <1>1, RamConstants DEF Offset
<1>6. g \in 0 .. MAX_FILE_SIZE /\ at + n <= g /\ files[i].size <= g
  BY <1>1, <1>4, <1>5, RamConstants DEF Grown
<1> HIDE DEF g
<1>7. e = [name |-> files[i].name, size |-> g]
  BY <1>4
<1>8. e \in FileRecord /\ e.name = files[i].name /\ e.size = g
  BY <1>4, <1>6, <1>7 DEF FileRecord
<1> HIDE DEF e
<1>9. /\ bytes' \in [Slot -> [Offset -> Byte]]
      /\ \A j \in Slot : j # i => bytes'[j] = bytes[j]
      /\ \A o \in Offset : bytes'[i][o] = IF at <= o /\ o < at + n THEN b ELSE bytes[i][o]
      /\ smashed' \in BOOLEAN
      /\ file_data # NULL => ~smashed'
  BY <1>1, <1>2, <1>5, CopyFacts, ZenonT(40)
<1>10. \A o \in Offset : o >= g => ~(o < at + n) /\ o >= files[i].size
  BY <1>1, <1>4, <1>5, <1>6, RamConstants DEF Offset
<1>11. \A o \in Offset : o >= e.size => bytes'[i][o] = Zero
  BY <1>8, <1>9, <1>10 DEF RamInv, ZeroBeyond
<1>12. ramfs /\ ~mounting /\ UNCHANGED <<ramfs, mounting, file_data>>
  BY DEF ramfs_write, Idle
<1> QED
  BY <1>2, <1>8, <1>9, <1>11, <1>12, SlotStep

(* ramfs_init with the contents area allocated: the first byte of the default files is
   all that is not zero. *)
LEMMA MountInv ==
    ASSUME Modest, HeapInv, RamInv, ramfs_init_data
    PROVE  RamInv'
<1> DEFINE n == Len(DefaultFiles)
           made(i) == [name |-> DefaultFiles[i + 1], size |-> 1]
<1>1. PICK b \in Byte :
          /\ files' = [i \in Slot |-> IF i < n THEN made(i) ELSE FreeSlot]
          /\ bytes' = [i \in Slot |-> IF i < n THEN [bytes[i] EXCEPT ![0] = b] ELSE bytes[i]]
  BY DEF ramfs_init_data
<1>2. /\ mounting /\ ramfs' = ramfs /\ smashed' = smashed /\ mounting' = FALSE
      /\ file_data' = heap_pos /\ Fits(heap_pos, MAX_FILES * MAX_FILE_SIZE)
  BY DEF ramfs_init_data, kmalloc
<1>3. heap_pos \in 0 .. HEAP_SIZE
  <2> DEFINE size == MAX_FILES * MAX_FILE_SIZE
  <2>1. size \in Size
    BY SizesAreHeapSizes
  <2>6. Fits(heap_pos, size)
    BY <1>2
  <2> HIDE DEF size
  <2>2. size \in Nat /\ HEAP_SIZE + size + 6 < WORD
    BY <2>1, HeapAssumption DEF Modest
  <2>3. heap_pos \in Nat /\ heap_pos <= HEAP_SIZE + 3 /\ HEAP_SIZE \in Nat /\ WORD \in Nat
    BY HeapAssumption DEF HeapInv, HeapTypeOK
  <2>5. Plus(heap_pos, size) = heap_pos + size
    BY <2>2, <2>3, PlusExact
  <2> QED
    BY <2>2, <2>3, <2>5, <2>6 DEF Fits
<1>4. /\ \A i \in Slot : files[i] = FreeSlot
      /\ bytes \in [Slot -> [Offset -> Byte]]
      /\ \A i \in Slot : \A o \in Offset : bytes[i][o] = Zero
  BY <1>2, FreeSlotIsRecord DEF RamInv, NoFilesYet, ZeroBeyond
<1>5. \A i \in Slot : i < n => i + 1 \in 1 .. n /\ DefaultFiles[i + 1] \in Name
  BY RamFsAssumption, RamConstants DEF Slot
<1>6. \A i \in Slot : i < n => made(i) \in FileRecord /\ made(i).name # NULL
                               /\ made(i).name = DefaultFiles[i + 1] /\ made(i).size = 1
  <2>1. 1 \in 0 .. MAX_FILE_SIZE
    BY RamConstants
  <2> QED
    BY <1>5, <2>1, RamFsAssumption DEF FileRecord
<1> HIDE DEF made
<1>7. /\ files' \in [Slot -> FileRecord]
      /\ \A i \in Slot : files'[i] = IF i < n THEN made(i) ELSE FreeSlot
  BY <1>1, <1>6, FreeSlotIsRecord
<1>9. \A i \in Slot : [bytes[i] EXCEPT ![0] = b] \in [Offset -> Byte]
         /\ \A o \in Offset : o >= 1 => [bytes[i] EXCEPT ![0] = b][o] = Zero
  BY <1>4, RamConstants DEF Offset
<1>10. bytes' \in [Slot -> [Offset -> Byte]]
  BY <1>1, <1>4, <1>9
<1>11. ZeroBeyond'
  <2> SUFFICES ASSUME NEW i \in Slot, NEW o \in Offset,
                      files'[i].name = NULL \/ o >= files'[i].size
               PROVE  bytes'[i][o] = Zero
    BY DEF ZeroBeyond
  <2>1. CASE i < n
    <3>1. o >= 1 /\ bytes'[i] = [bytes[i] EXCEPT ![0] = b]
      BY <1>1, <1>6, <1>7, <2>1
    <3> QED
      BY <1>9, <3>1
  <2>2. CASE ~(i < n)
    BY <1>1, <1>4, <2>2
  <2> QED
    BY <2>1, <2>2
<1>12. NoFilesYet'
  BY <1>2 DEF RamInv, NoFilesYet
<1> QED
  BY <1>2, <1>3, <1>7, <1>10, <1>11, <1>12 DEF RamInv, FilesStayInSlots

LEMMA RamNextInv ==
    ASSUME Modest, CountsFit, HeapInv, RamInv, [Next]_vars
    PROVE  RamInv'
<1>1. CASE allocate
  BY <1>1 DEF allocate, fsVars, RamInv, FilesStayInSlots, ZeroBeyond, NoFilesYet
<1>2. CASE ramfs_init
  BY <1>2 DEF ramfs_init, Idle, RamInv, FilesStayInSlots, ZeroBeyond, NoFilesYet
<1>3. CASE ramfs_init_data
  BY <1>3, MountInv
<1>4. CASE ramfs_init_fails
  BY <1>4 DEF ramfs_init_fails, RamInv, FilesStayInSlots, ZeroBeyond, NoFilesYet
<1>5. CASE \E name \in Name, size \in 0 .. MAX_FILE_SIZE, b \in Byte :
              ramfs_create_file(name, size, b)
  BY <1>5, CreateInv
<1>6. CASE \E i \in Slot, at \in Offset, count \in Count, b \in Byte :
              ramfs_write(i, at, count, b)
  BY <1>6, WriteInv
<1>7. CASE UNCHANGED vars
  BY <1>7 DEF vars, fsVars, RamInv, FilesStayInSlots, ZeroBeyond, NoFilesYet
<1> QED
  BY <1>1, <1>2, <1>3, <1>4, <1>5, <1>6, <1>7 DEF Next

LEMMA RamInvAlways ==
    ASSUME Modest, CountsFit
    PROVE  Spec => [](RamInv /\ HeapInv)
<1>1. HeapInv /\ RamInv /\ [Next]_vars => RamInv'
  BY RamNextInv
<1>2. Spec => []HeapInv
  BY RamFsUsesHeap, HeapInvAlways, PTL
<1> QED
  BY <1>1, <1>2, RamInitInv, PTL DEF Spec

(* However many files there are and in whatever order they are created, written and
   extended, ramfs_write and ramfs_create_file write to no byte outside the slot of
   their file once the contents area exists; and the table stays well formed. *)
THEOREM FilesStayInSlotsAlways ==
    ASSUME Modest, CountsFit
    PROVE  Spec => [](FilesStayInSlots /\ TypeOK)
<1>1. RamInv /\ HeapInv => FilesStayInSlots /\ TypeOK
  BY DEF RamInv, HeapInv, TypeOK, FileRecord
<1> QED
  BY <1>1, RamInvAlways, PTL

-----------------------------------------------------------------------------
(* The RAM filesystem is a store of files. *)

(* The bytes of a slot that its file has. *)
Held(size, slot) == [k \in 1 .. size |-> slot[k - 1]]

(* The file of a slot. *)
FileOf(e, slot) ==
    IF e.name = NULL THEN NoFile ELSE [name |-> e.name, bytes |-> Held(e.size, slot)]

LEMMA ContentsAre ==
    /\ Contents = [i \in Slot |-> FileOf(files[i], bytes[i])]
    /\ Contents' = [i \in Slot |-> FileOf(files'[i], bytes'[i])]
BY DEF Contents, FileOf, Held

(* Overwriting part of what a slot holds, when what lies beyond is zero. *)
LEMMA HeldOverwritten ==
    ASSUME NEW size \in 0 .. MAX_FILE_SIZE, NEW at \in Nat, NEW n \in Nat,
           at + n <= MAX_FILE_SIZE, NEW b \in Byte,
           NEW old \in [Offset -> Byte], \A o \in Offset : o >= size => old[o] = Zero,
           NEW new \in [Offset -> Byte],
           \A o \in Offset : new[o] = IF at <= o /\ o < at + n THEN b ELSE old[o]
    PROVE  Held(Grown(size, at + n), new) = Store!Overwrite(Held(size, old), at, n, b)
<1> DEFINE g == IF at + n > size THEN at + n ELSE size
           s == Held(size, old)
<1>0. MAX_FILE_SIZE \in Nat
  BY RamConstants
<1>1. Len(s) = size /\ \A k \in 1 .. size : s[k] = old[k - 1]
  <2>1. size \in Nat
    BY <1>0
  <2>2. \A k \in 1 .. size : k - 1 \in Offset /\ old[k - 1] \in Byte
    BY <1>0 DEF Offset
  <2>3. s \in Seq(Byte)
    BY <2>1, <2>2 DEF Held
  <2> QED
    BY <2>1, <2>3 DEF Held
<1>2. g \in 0 .. MAX_FILE_SIZE /\ \A k \in 1 .. g : k - 1 \in Offset
  BY <1>0 DEF Offset
<1>3. \A k \in 1 .. g : new[k - 1] = IF k \in at + 1 .. at + n THEN b
                                     ELSE IF k <= size THEN old[k - 1] ELSE Zero
  BY <1>0, <1>2
<1>4. Held(g, new) = [k \in 1 .. g |-> new[k - 1]]
  BY DEF Held
<1>5. Store!Overwrite(s, at, n, b) =
         [k \in 1 .. g |-> IF k \in at + 1 .. at + n THEN b
                           ELSE IF k <= size THEN s[k] ELSE Zero]
  BY <1>1 DEF Store!Overwrite
<1>6. \A k \in 1 .. g : k <= size => s[k] = old[k - 1]
  BY <1>0, <1>1, <1>2
<1>7. Grown(size, at + n) = g
  BY DEF Grown
<1> HIDE DEF g, s
<1>8. Held(g, new) = Store!Overwrite(s, at, n, b)
  BY <1>3, <1>4, <1>5, <1>6
<1> QED
  BY <1>7, <1>8 DEF s

LEMMA HeldIsSeq ==
    ASSUME NEW size \in 0 .. MAX_FILE_SIZE, NEW slot \in [Offset -> Byte]
    PROVE  Held(size, slot) \in Seq(Byte) /\ Len(Held(size, slot)) = size
<1>1. size \in Nat /\ \A k \in 1 .. size : k - 1 \in Offset /\ slot[k - 1] \in Byte
  BY RamConstants DEF Offset
<1>2. Held(size, slot) \in Seq(Byte)
  BY <1>1 DEF Held
<1> QED
  BY <1>1, <1>2 DEF Held

(* A step that changes the file of one slot. *)
LEMMA OneFileChanges ==
    ASSUME NEW i \in Slot,
           \A j \in Slot : j # i => files'[j] = files[j] /\ bytes'[j] = bytes[j]
    PROVE  Contents' = [Contents EXCEPT ![i] = FileOf(files'[i], bytes'[i])]
<1> DEFINE C == Contents
           D == Contents'
           f == FileOf(files'[i], bytes'[i])
<1>1. /\ C = [j \in Slot |-> C[j]] /\ D = [j \in Slot |-> D[j]]
      /\ \A j \in Slot : j # i => D[j] = C[j]
      /\ D[i] = f
  BY ContentsAre
<1> HIDE DEF C, D, f
<1>2. D = [C EXCEPT ![i] = f]
  BY <1>1
<1> QED
  BY <1>2 DEF C, D, f

LEMMA CreateIsCreate ==
    ASSUME RamInv, RamInv',
           NEW name \in Name, NEW size \in 0 .. MAX_FILE_SIZE, NEW b \in Byte,
           ramfs_create_file(name, size, b)
    PROVE  \E i \in Slot : Store!Create(i, name, size, b)
<1>1. PICK i \in Slot : /\ FirstFree(i) /\ Copy(i, 0, size, b)
                        /\ files' = [files EXCEPT ![i] = [name |-> RamKept[name], size |-> size]]
  BY DEF ramfs_create_file
<1>2. files \in [Slot -> FileRecord] /\ bytes \in [Slot -> [Offset -> Byte]]
      /\ bytes' \in [Slot -> [Offset -> Byte]]
  BY DEF RamInv
<1>3. /\ files'[i] = [name |-> RamKept[name], size |-> size]
      /\ \A j \in Slot : j # i => files'[j] = files[j]
  BY <1>1, <1>2
<1>4. /\ files'[i].name = RamKept[name] /\ files'[i].size = size /\ files[i].name = NULL
      /\ RamKept[name] # NULL
  BY <1>1, <1>3, RamFsAssumption DEF FirstFree
<1>5. /\ \A j \in Slot : j # i => bytes'[j] = bytes[j]
      /\ \A o \in Offset : bytes'[i][o] = IF 0 <= o /\ o < 0 + size THEN b ELSE bytes[i][o]
  <2>1. 0 \in 0 .. MAX_FILE_SIZE /\ size \in Nat /\ 0 + size <= MAX_FILE_SIZE
    BY RamConstants
  <2> QED
    BY <1>1, <2>1, CopyFacts
<1>6. \A o \in Offset : bytes[i][o] = Zero
  BY <1>4 DEF RamInv, ZeroBeyond
<1>7. Held(size, bytes'[i]) = Store!Overwrite(<<>>, 0, size, b)
  <2>1. 0 \in 0 .. MAX_FILE_SIZE /\ 0 \in Nat /\ size \in Nat /\ 0 + size <= MAX_FILE_SIZE
    BY RamConstants
  <2>2. bytes[i] \in [Offset -> Byte] /\ bytes'[i] \in [Offset -> Byte]
    BY <1>2
  <2>3. Held(Grown(0, 0 + size), bytes'[i]) = Store!Overwrite(Held(0, bytes[i]), 0, size, b)
    BY <1>5, <1>6, <2>1, <2>2, HeldOverwritten
  <2>4. Grown(0, 0 + size) = size
    BY <2>1 DEF Grown
  <2>5. Held(0, bytes[i]) = <<>>
    BY <2>1, <2>2, HeldIsSeq
  <2> QED
    BY <2>3, <2>4, <2>5
<1> DEFINE f == [name |-> RamKept[name], bytes |-> Store!Overwrite(<<>>, 0, size, b)]
<1>8. FileOf(files'[i], bytes'[i]) = f
  BY <1>4, <1>7 DEF FileOf
<1>9. Contents' = [Contents EXCEPT ![i] = f]
  BY <1>3, <1>5, <1>8, OneFileChanges
<1>10. Contents[i] = NoFile
  BY <1>4, ContentsAre DEF FileOf
<1>11. \A j \in Slot : Contents[j] # NoFile => Contents[j].name # name
  <2>1. \A j \in Slot : files[j].name # name
    BY DEF ramfs_create_file, Exists
  <2> QED
    BY <2>1, ContentsAre DEF FileOf
<1> HIDE DEF Contents
<1> QED
  BY <1>9, <1>10, <1>11 DEF Store!Create

(* A file is not mistaken for the absence of one. *)
NoFileIsNoFile == NoFile \notin [name : Name, bytes : Seq(Byte)]

LEMMA WriteIsWrite ==
    ASSUME CountsFit, NoFileIsNoFile, RamInv, RamInv', NEW i \in Slot, NEW at \in Offset,
           NEW count \in Count, NEW b \in Byte, ramfs_write(i, at, count, b)
    PROVE  Store!Write(i, at, Written(at, count), b)
<1> DEFINE n == Written(at, count)
           size == files[i].size
           name == files[i].name
           g == Grown(size, at + n)
           e == [files[i] EXCEPT !.size = g]
<1>1. /\ n \in 0 .. MAX_FILE_SIZE - at /\ n \in Nat /\ Plus(at, n) = at + n
  BY WrittenFits
<1>2. Copy(i, at, n, b) /\ name # NULL
  BY DEF ramfs_write
<1>3. files \in [Slot -> FileRecord] /\ bytes \in [Slot -> [Offset -> Byte]]
      /\ bytes' \in [Slot -> [Offset -> Byte]]
  BY DEF RamInv
<1>4. size \in 0 .. MAX_FILE_SIZE /\ name \in Name /\ files[i] = [name |-> name, size |-> size]
  BY <1>2, <1>3 DEF FileRecord
<1>5. files' = [files EXCEPT ![i] = e]
  BY <1>1 DEF ramfs_write
<1> HIDE DEF n
<1>6. at \in 0 .. MAX_FILE_SIZE /\ at \in Nat /\ at + n <= MAX_FILE_SIZE
  BY <1>1, RamConstants DEF Offset
<1> HIDE DEF g
<1>7. e.name = name /\ e.size = g
  BY <1>4
<1> HIDE DEF e
<1>8. /\ files'[i].name = name /\ files'[i].size = g
      /\ \A j \in Slot : j # i => files'[j] = files[j]
  BY <1>3, <1>5, <1>7
<1>9. /\ \A j \in Slot : j # i => bytes'[j] = bytes[j]
      /\ \A o \in Offset : bytes'[i][o] = IF at <= o /\ o < at + n THEN b ELSE bytes[i][o]
  BY <1>1, <1>2, <1>6, CopyFacts
<1>10. \A o \in Offset : o >= size => bytes[i][o] = Zero
  BY DEF RamInv, ZeroBeyond
<1>11. bytes[i] \in [Offset -> Byte] /\ bytes'[i] \in [Offset -> Byte]
  BY <1>3
<1> HIDE DEF size
<1>12. Held(g, bytes'[i]) = Store!Overwrite(Held(size, bytes[i]), at, n, b)
  <2> DEFINE old == bytes[i]
             new == bytes'[i]
  <2>1. /\ old \in [Offset -> Byte] /\ \A o \in Offset : o >= size => old[o] = Zero
        /\ new \in [Offset -> Byte]
        /\ \A o \in Offset : new[o] = IF at <= o /\ o < at + n THEN b ELSE old[o]
    BY <1>9, <1>10, <1>11
  <2> HIDE DEF old, new
  <2>2. size \in 0 .. MAX_FILE_SIZE
    BY <1>4
  <2>3. Held(Grown(size, at + n), new) = Store!Overwrite(Held(size, old), at, n, b)
    BY <1>1, <1>6, <2>1, <2>2, HeldOverwritten
  <2> QED
    BY <2>3 DEF g, old, new
<1>13. /\ Contents[i] = [name |-> name, bytes |-> Held(size, bytes[i])]
       /\ Contents[i].name = name /\ Contents[i].bytes = Held(size, bytes[i])
  BY <1>2, ContentsAre DEF FileOf, size
<1>14. Contents[i] # NoFile
  BY <1>4, <1>11, <1>13, HeldIsSeq DEF NoFileIsNoFile
<1> HIDE DEF name
<1>15. FileOf(files'[i], bytes'[i]) = [name |-> name, bytes |-> Held(g, bytes'[i])]
  BY <1>2, <1>8 DEF FileOf
<1>16. Contents' = [Contents EXCEPT ![i] = [name |-> name, bytes |-> Held(g, bytes'[i])]]
  BY <1>8, <1>9, <1>15, OneFileChanges
<1> HIDE DEF Contents
<1>17. Store!Write(i, at, n, b)
  BY <1>12, <1>13, <1>14, <1>16 DEF Store!Write
<1> QED
  BY <1>17 DEF n

LEMMA MountIsMount ==
    ASSUME RamInv, RamInv', ramfs_init_data
    PROVE  UNCHANGED Contents \/ Store!Mount
<1>1. \A i \in Slot : files[i].name = NULL
  BY FreeSlotIsRecord DEF RamInv, NoFilesYet, ramfs_init_data
<1>2. Contents = [i \in Slot |-> NoFile]
  BY <1>1, ContentsAre DEF FileOf
<1>3. ASSUME NEW i \in Slot, Contents'[i] # NoFile
      PROVE  Len(Contents'[i].bytes) <= MAX_FILE_SIZE
  <2>1. files'[i] \in FileRecord /\ bytes'[i] \in [Offset -> Byte]
    BY DEF RamInv
  <2>2. files'[i].size \in 0 .. MAX_FILE_SIZE
    BY <2>1 DEF FileRecord
  <2>3. Contents'[i].bytes = Held(files'[i].size, bytes'[i])
    BY <1>3, ContentsAre DEF FileOf
  <2> DEFINE size == files'[i].size
             slot == bytes'[i]
  <2>4. size \in 0 .. MAX_FILE_SIZE /\ slot \in [Offset -> Byte]
        /\ Contents'[i].bytes = Held(size, slot)
    BY <2>1, <2>2, <2>3
  <2> HIDE DEF size, slot, Contents
  <2>5. Len(Held(size, slot)) = size /\ size <= MAX_FILE_SIZE
    BY <2>4, HeldIsSeq, RamConstants
  <2> QED
    BY <2>4, <2>5
<1> HIDE DEF Contents
<1> QED
  BY <1>2, <1>3 DEF Store!Mount

LEMMA RamStepRefines ==
    ASSUME CountsFit, NoFileIsNoFile, RamInv, RamInv', [Next]_vars
    PROVE  smashed' \/ Store!Next \/ UNCHANGED Contents
<1>1. CASE UNCHANGED fsVars
  BY <1>1 DEF fsVars, Contents
<1>2. CASE allocate
  BY <1>1, <1>2 DEF allocate
<1>3. CASE ramfs_init
  BY <1>3 DEF ramfs_init, Contents
<1>4. CASE ramfs_init_data
  BY <1>4, MountIsMount DEF Store!Next
<1>5. CASE ramfs_init_fails
  BY <1>5 DEF ramfs_init_fails, Contents
<1>6. CASE \E name \in Name, size \in 0 .. MAX_FILE_SIZE, b \in Byte :
              ramfs_create_file(name, size, b)
  BY <1>6, CreateIsCreate DEF Store!Next
<1>7. CASE \E i \in Slot, at \in Offset, count \in Count, b \in Byte :
              ramfs_write(i, at, count, b)
  <2>1. PICK i \in Slot, at \in Offset, count \in Count, b \in Byte :
              ramfs_write(i, at, count, b)
    BY <1>7
  <2>2. Store!Write(i, at, Written(at, count), b)
    BY <2>1, WriteIsWrite
  <2>3. Written(at, count) \in 0 .. MAX_FILE_SIZE - at
    BY WrittenFits
  <2>4. at \in 0 .. MAX_FILE_SIZE
    BY RamConstants DEF Offset
  <2> QED
    BY <2>2, <2>3, <2>4 DEF Store!Next
<1>8. CASE UNCHANGED vars
  BY <1>1, <1>8 DEF vars
<1> QED
  BY <1>2, <1>3, <1>4, <1>5, <1>6, <1>7, <1>8 DEF Next

(* The table and the contents area implement the store of files, whatever strncpy keeps of
   their names: ramfs_create_file makes one file of a name that none has, ramfs_write overwrites or extends the file of its
   inode and no other, and the gap a write past the end leaves reads as zeros. *)
THEOREM RamFsImplementsFileStore ==
    ASSUME Modest, CountsFit, NoFileIsNoFile
    PROVE  Spec => ImplementsFileStore
<1>1. Init => Store!Init
  <2> SUFFICES ASSUME Init PROVE Store!Init
    OBVIOUS
  <2>1. files = [i \in Slot |-> FreeSlot]
    BY DEF Init
  <2>2. \A i \in Slot : files[i].name = NULL
    BY <2>1, FreeSlotIsRecord
  <2> QED
    BY <2>2 DEF Store!Init, Contents
<1>2. RamInv /\ RamInv' /\ [Next]_vars => [smashed' \/ Store!Next]_Contents
  BY RamStepRefines
<1>3. Spec => []RamInv
  BY RamInvAlways, PTL
<1> QED
  BY <1>1, <1>2, <1>3, PTL DEF Spec, ImplementsFileStore

-----------------------------------------------------------------------------
(* The block filesystem. *)

Cell == {"zero", "t", "w"} \cup UNION {{buf[i] : i \in DOMAIN buf} : buf \in Buffer}
FsEntry == [name : AllNames, size : Nat, start : Metadata .. FsBlocks - 1]
Address == 0 .. FsBlocks * BLOCK_SIZE - 1

(* A well-formed filesystem: the blocks of the metadata are in use. *)
FsShape(f) ==
    /\ f.bitmap \subseteq 0 .. FsBlocks - 1
    /\ 0 .. Metadata - 1 \subseteq f.bitmap
    /\ f.files \in Seq(FsEntry) /\ Len(f.files) <= FsMaxFiles
    /\ f.data \in [Address -> Cell]
    /\ f = [bitmap |-> f.bitmap, files |-> f.files, data |-> f.data]

LEMMA FsConstants ==
    /\ BLOCK_SIZE \in Nat \ {0} /\ FsBlocks \in Nat /\ Metadata \in Nat \ {0}
    /\ FsMaxFiles \in Nat /\ FsMaxFiles >= 3 /\ FsBlocks >= Metadata + 5 /\ MaxFileSize \in Nat
    /\ FsBlocks * BLOCK_SIZE \in Nat
    /\ \A buf \in Buffer : buf \in Seq(Cell) /\ Len(buf) \in Nat
<1>1. /\ BLOCK_SIZE \in Nat \ {0} /\ FsBlocks \in Nat /\ Metadata \in Nat \ {0}
      /\ FsMaxFiles \in Nat /\ FsMaxFiles >= 3 /\ FsBlocks >= Metadata + 5 /\ MaxFileSize \in Nat
  BY FileSystemAssumption
<1>2. ASSUME NEW buf \in Buffer PROVE buf \in Seq(Cell) /\ Len(buf) \in Nat
  <2> DEFINE R == {buf[i] : i \in DOMAIN buf}
  <2>1. buf \in Seq(R) /\ R \subseteq Cell
    BY FileSystemAssumption DEF Cell
  <2> HIDE DEF R
  <2> QED
    BY <2>1
<1> QED
  BY <1>1, <1>2

(* alloc_block called once takes the lowest free block. *)
LEMMA LowestOne ==
    ASSUME NEW f, FreeBlocks(f) # {}
    PROVE  \E m \in FreeBlocks(f) : /\ \A c \in FreeBlocks(f) : m <= c
                                    /\ Lowest(f, 1) = {m}
<1>1. FreeBlocks(f) \subseteq Nat /\ FreeBlocks(f) \subseteq 0 .. FsBlocks - 1
  BY FsConstants DEF FreeBlocks
<1>2. PICK m \in FreeBlocks(f) : \A c \in FreeBlocks(f) : m <= c
  BY <1>1, LeastNumber
<1> DEFINE Below(b) == {c \in FreeBlocks(f) : c < b}
<1>3. Below(m) = {}
  BY <1>1, <1>2
<1>4. \A b \in FreeBlocks(f) : b # m => m \in Below(b)
  BY <1>1, <1>2
<1>5. \A b : IsFiniteSet(Below(b))
  <2>1. IsFiniteSet(0 .. FsBlocks - 1)
    BY FsConstants, FS_Interval
  <2> QED
    BY <1>1, <2>1, FS_Subset
<1> HIDE DEF Below
<1>6. ASSUME NEW b \in FreeBlocks(f), b # m PROVE ~(Cardinality(Below(b)) < 1)
  <2>1. Cardinality(Below(b)) \in Nat /\ Cardinality(Below(b)) # 0
    BY <1>4, <1>5, <1>6, FS_CardinalityType, FS_EmptySet
  <2> QED
    BY <2>1
<1>7. Cardinality(Below(m)) < 1
  <2>1. Cardinality(Below(m)) = 0
    BY <1>3, FS_EmptySet
  <2> QED
    BY <2>1
<1>8. Lowest(f, 1) = {b \in FreeBlocks(f) : Cardinality(Below(b)) < 1}
  BY DEF Lowest, Below
<1> QED
  BY <1>2, <1>6, <1>7, <1>8

LEMMA EntryFields ==
    ASSUME NEW f, FsShape(f), NEW i \in 1 .. Len(f.files)
    PROVE  /\ f.files[i] \in FsEntry
           /\ f.files[i] = [name |-> f.files[i].name, size |-> f.files[i].size,
                            start |-> f.files[i].start]
           /\ f.files[i].name \in AllNames /\ f.files[i].size \in Nat
           /\ f.files[i].start \in Metadata .. FsBlocks - 1
<1>1. f.files[i] \in FsEntry
  BY DEF FsShape
<1> QED
  BY <1>1 DEF FsEntry

LEMMA FsFields ==
    ASSUME NEW f, NEW B, NEW S, NEW D, f = [bitmap |-> B, files |-> S, data |-> D],
           NEW b, NEW s, NEW d
    PROVE  /\ [f EXCEPT !.bitmap = b] = [bitmap |-> b, files |-> S, data |-> D]
           /\ [f EXCEPT !.bitmap = b, !.files = s] = [bitmap |-> b, files |-> s, data |-> D]
           /\ [f EXCEPT !.data = d, !.files = s] = [bitmap |-> B, files |-> s, data |-> d]
<1> DEFINE g == [f EXCEPT !.bitmap = b]
           h == [f EXCEPT !.data = d]
<1>1. g = [bitmap |-> b, files |-> S, data |-> D] /\ h = [bitmap |-> B, files |-> S, data |-> d]
  OBVIOUS
<1>2. /\ [f EXCEPT !.bitmap = b, !.files = s] = [g EXCEPT !.files = s]
      /\ [f EXCEPT !.data = d, !.files = s] = [h EXCEPT !.files = s]
  OBVIOUS
<1>3. [f EXCEPT !.bitmap = b] = g
  OBVIOUS
<1> HIDE DEF g, h
<1>4. /\ [g EXCEPT !.files = s] = [bitmap |-> b, files |-> s, data |-> D]
      /\ [h EXCEPT !.files = s] = [bitmap |-> B, files |-> s, data |-> d]
  BY <1>1
<1> QED
  BY <1>1, <1>2, <1>3, <1>4

(* What fs_create makes of the filesystem. *)
LEMMA CreatedFacts ==
    ASSUME NEW f, FsShape(f), NEW name, FreeBlocks(f) # {}
    PROVE  \E m \in FreeBlocks(f) :
              /\ \A c \in FreeBlocks(f) : m <= c
              /\ Created(f, name) =
                    [bitmap |-> f.bitmap \cup {m},
                     files |-> Append(f.files, [name |-> name, size |-> 0, start |-> m]),
                     data |-> f.data]
<1>1. PICK m \in FreeBlocks(f) : Lowest(f, 1) = {m} /\ \A c \in FreeBlocks(f) : m <= c
  BY LowestOne
<1>2. (CHOOSE b \in Lowest(f, 1) : TRUE) = m
  BY <1>1
<1>3. f = [bitmap |-> f.bitmap, files |-> f.files, data |-> f.data]
  BY DEF FsShape
<1> DEFINE b == f.bitmap \cup {m}
           s == Append(f.files, [name |-> name, size |-> 0, start |-> m])
<1>4. Created(f, name) = [f EXCEPT !.bitmap = b, !.files = s]
  BY <1>1, <1>2 DEF Created
<1> HIDE DEF b, s
<1>5. Created(f, name) = [bitmap |-> b, files |-> s, data |-> f.data]
  BY <1>3, <1>4, FsFields
<1> QED
  BY <1>1, <1>5 DEF b, s

LEMMA CreatedShape ==
    ASSUME NEW f, FsShape(f), NEW name \in AllNames, FreeBlocks(f) # {},
           Len(f.files) < FsMaxFiles
    PROVE  FsShape(Created(f, name))
<1>1. PICK m \in FreeBlocks(f) :
          Created(f, name) =
              [bitmap |-> f.bitmap \cup {m},
               files |-> Append(f.files, [name |-> name, size |-> 0, start |-> m]),
               data |-> f.data]
  BY CreatedFacts
<1> DEFINE g == Created(f, name)
           e == [name |-> name, size |-> 0, start |-> m]
<1>2. m \in 0 .. FsBlocks - 1 /\ m \in Metadata .. FsBlocks - 1
  BY FsConstants DEF FsShape, FreeBlocks
<1>3. e \in FsEntry /\ e.name = name
  BY <1>2 DEF FsEntry
<1>4. g.bitmap = f.bitmap \cup {m} /\ g.files = Append(f.files, e) /\ g.data = f.data
      /\ g = [bitmap |-> g.bitmap, files |-> g.files, data |-> g.data]
  BY <1>1
<1> HIDE DEF g, e
<1>5. f.files \in Seq(FsEntry) /\ Len(f.files) \in Nat
  BY DEF FsShape
<1>6. /\ g.files \in Seq(FsEntry) /\ Len(g.files) = Len(f.files) + 1
      /\ \A i \in 1 .. Len(f.files) : g.files[i] = f.files[i]
      /\ g.files[Len(f.files) + 1] = e
  BY <1>3, <1>4, <1>5
<1>9. Len(g.files) <= FsMaxFiles
  BY <1>5, <1>6, FsConstants
<1>10. g.bitmap \subseteq 0 .. FsBlocks - 1 /\ 0 .. Metadata - 1 \subseteq g.bitmap
  BY <1>2, <1>4 DEF FsShape
<1>11. g.data \in [Address -> Cell]
  BY <1>4 DEF FsShape
<1> QED
  BY <1>4, <1>6, <1>9, <1>10, <1>11 DEF FsShape, g

(* What fs_write makes of the filesystem when it gets its blocks ... *)
IsStored(g, c, i, buf) ==
    /\ g.bitmap = c.bitmap
    /\ g.files = [c.files EXCEPT ![i] = [name |-> c.files[i].name,
                                         size |-> c.files[i].size + Len(buf),
                                         start |-> c.files[i].start]]
    /\ g.data = [k \in Address |-> IF k - Position(c, i) \in 0 .. Len(buf) - 1
                                   THEN buf[k - Position(c, i) + 1] ELSE c.data[k]]

LEMMA StoredFacts ==
    ASSUME NEW c, FsShape(c), NEW i \in 1 .. Len(c.files), NEW buf \in Seq(Cell)
    PROVE  IsStored(Stored(c, i, buf), c, i, buf) /\ FsShape(Stored(c, i, buf))
<1> DEFINE e == [name |-> c.files[i].name, size |-> c.files[i].size + Len(buf),
                 start |-> c.files[i].start]
           s == [c.files EXCEPT ![i] = e]
           d == [k \in Address |-> IF k - Position(c, i) \in 0 .. Len(buf) - 1
                                   THEN buf[k - Position(c, i) + 1] ELSE c.data[k]]
           g == Stored(c, i, buf)
<1>0. /\ c.files \in Seq(FsEntry) /\ c.data \in [Address -> Cell]
      /\ c = [bitmap |-> c.bitmap, files |-> c.files, data |-> c.data]
  BY DEF FsShape
<1>1. /\ c.files[i] = [name |-> c.files[i].name, size |-> c.files[i].size,
                       start |-> c.files[i].start]
      /\ c.files[i].name \in AllNames /\ c.files[i].size \in Nat
      /\ c.files[i].start \in Metadata .. FsBlocks - 1
  BY EntryFields
<1>2. e \in FsEntry /\ e.name = c.files[i].name
  BY <1>1 DEF FsEntry
<1>3. [c.files[i] EXCEPT !.size = c.files[i].size + Len(buf)] = e
  BY <1>1
<1>4. d \in [Address -> Cell]
  <2> DEFINE p == Position(c, i)
  <2>1. p \in Int
    BY <1>1, FsConstants DEF Position
  <2> HIDE DEF p
  <2>2. \A k \in Address : k \in Int
    BY FsConstants DEF Address
  <2>3. \A k \in Address : k - p \in 0 .. Len(buf) - 1 => buf[k - p + 1] \in Cell
    BY <2>1, <2>2
  <2> QED
    BY <1>0, <2>3 DEF p
<1>5. DOMAIN c.data = Address
  BY <1>0
<1>6. g = [c EXCEPT !.data = d, !.files = s]
  <2> HIDE DEF e
  <2>1. g = [c EXCEPT !.data = [k \in DOMAIN c.data |-> IF k - Position(c, i) \in 0 .. Len(buf) - 1
                                           THEN buf[k - Position(c, i) + 1] ELSE c.data[k]],
                      !.files = [c.files EXCEPT ![i] = [c.files[i] EXCEPT !.size = c.files[i].size + Len(buf)]]]
    BY <1>0 DEF Stored
  <2> QED
    BY <1>3, <1>5, <2>1
<1> HIDE DEF e, d, s
<1>7. g = [bitmap |-> c.bitmap, files |-> s, data |-> d]
  BY <1>0, <1>6, FsFields
<1> HIDE DEF g
<1>8. g.bitmap = c.bitmap /\ g.files = s /\ g.data = d
      /\ g = [bitmap |-> g.bitmap, files |-> g.files, data |-> g.data]
  BY <1>7
<1>9. /\ s \in Seq(FsEntry) /\ Len(s) = Len(c.files) /\ s[i] = e
      /\ \A j \in 1 .. Len(c.files) : j # i => s[j] = c.files[j]
  BY <1>0, <1>2 DEF s
<1>12. FsShape(g)
  BY <1>4, <1>8, <1>9 DEF FsShape
<1> QED
  BY <1>8, <1>12 DEF IsStored, g, d, s, e

(* ... and, in any case, of the bitmap. *)
LEMMA ClaimedFacts ==
    ASSUME NEW f, FsShape(f), NEW i, NEW buf
    PROVE  /\ Claimed(f, i, buf).bitmap = f.bitmap \cup Lowest(f, Wanted(f, i, buf))
           /\ Claimed(f, i, buf).files = f.files /\ Claimed(f, i, buf).data = f.data
           /\ FsShape(Claimed(f, i, buf))
<1> DEFINE b == f.bitmap \cup Lowest(f, Wanted(f, i, buf))
           g == Claimed(f, i, buf)
<1>1. f = [bitmap |-> f.bitmap, files |-> f.files, data |-> f.data]
  BY DEF FsShape
<1>2. b \subseteq 0 .. FsBlocks - 1 /\ f.bitmap \subseteq b
  BY DEF FsShape, Lowest, FreeBlocks
<1>3. g = [f EXCEPT !.bitmap = b]
  BY DEF Claimed
<1> HIDE DEF b
<1>4. g = [bitmap |-> b, files |-> f.files, data |-> f.data]
  BY <1>1, <1>3, FsFields
<1> HIDE DEF g
<1>5. g.bitmap = b /\ g.files = f.files /\ g.data = f.data
      /\ g = [bitmap |-> g.bitmap, files |-> g.files, data |-> g.data]
  BY <1>4
<1>6. FsShape(g)
  BY <1>2, <1>5 DEF FsShape
<1> QED
  BY <1>5, <1>6 DEF g, b

LEMMA WrittenShape ==
    ASSUME NEW f, FsShape(f), NEW i \in 1 .. Len(f.files), NEW buf \in Seq(Cell)
    PROVE  FsShape(FsWritten(f, i, buf))
<1> DEFINE c == Claimed(f, i, buf)
<1>1. FsShape(c) /\ c.files = f.files
  BY ClaimedFacts
<1> HIDE DEF c
<1>2. FsShape(Stored(c, i, buf))
  BY <1>1, StoredFacts
<1> QED
  BY <1>1, <1>2 DEF FsWritten, c

(* Deleting an entry shifts the ones above it down by one. *)
LEMMA WithoutFacts ==
    ASSUME NEW S, NEW s \in Seq(S), NEW i \in 1 .. Len(s)
    PROVE  /\ Without(s, i) \in Seq(S) /\ Len(Without(s, i)) = Len(s) - 1
           /\ \A k \in 1 .. Len(s) - 1 : Without(s, i)[k] = s[IF k < i THEN k ELSE k + 1]
<1>1. Without(s, i) = Removed(s, i)
  BY DEF Without, Removed
<1> QED
  BY <1>1, RemovedFacts

(* What fs_delete makes of the filesystem. *)
LEMMA DeletedFacts ==
    ASSUME NEW f, FsShape(f), NEW i \in 1 .. Len(f.files)
    PROVE  /\ Deleted(f, i).bitmap = f.bitmap \ Released(f, i)
           /\ Deleted(f, i).files = Without(f.files, i)
           /\ Deleted(f, i).data = f.data
           /\ FsShape(Deleted(f, i))
<1> DEFINE b == f.bitmap \ Released(f, i)
           s == Without(f.files, i)
           n == Len(f.files)
           g == Deleted(f, i)
<1>0. f.files \in Seq(FsEntry) /\ n \in Nat /\ n <= FsMaxFiles
      /\ f = [bitmap |-> f.bitmap, files |-> f.files, data |-> f.data]
  BY DEF FsShape
<1>1. /\ s \in Seq(FsEntry) /\ Len(s) = n - 1
      /\ \A k \in 1 .. n - 1 : s[k] = f.files[IF k < i THEN k ELSE k + 1]
  BY <1>0, WithoutFacts
<1>2. b \subseteq 0 .. FsBlocks - 1 /\ 0 .. Metadata - 1 \subseteq b
  <2>1. f.files[i].start \in Metadata .. FsBlocks - 1
    BY EntryFields
  <2>2. \A k \in Released(f, i) : k >= f.files[i].start
    BY <2>1, FsConstants DEF Released
  <2>3. \A k \in 0 .. Metadata - 1 : k \notin Released(f, i)
    BY <2>1, <2>2, FsConstants
  <2> QED
    BY <2>3 DEF FsShape
<1>3. g = [f EXCEPT !.bitmap = b, !.files = s]
  BY DEF Deleted
<1> HIDE DEF b, s, g
<1>4. g = [bitmap |-> b, files |-> s, data |-> f.data]
  BY <1>0, <1>3, FsFields
<1>5. g.bitmap = b /\ g.files = s /\ g.data = f.data
      /\ g = [bitmap |-> g.bitmap, files |-> g.files, data |-> g.data]
  BY <1>4
<1>7. Len(s) <= FsMaxFiles
  BY <1>0, <1>1, FsConstants
<1>8. FsShape(g)
  BY <1>1, <1>2, <1>5, <1>7 DEF FsShape
<1> QED
  BY <1>5, <1>8 DEF g, b, s

(* Every file lies in blocks it was given, these are in use, and no block was given to
   two files. *)
FsApart(f, own) ==
    /\ own = [i \in 1 .. Len(f.files) |-> own[i]]
    /\ \A i \in 1 .. Len(f.files) : own[i] \subseteq f.bitmap /\ Extent(f, i) \subseteq own[i]
    /\ \A i, j \in 1 .. Len(f.files) : i # j => own[i] \cap own[j] = {}

LEMMA BlocksOfOne ==
    ASSUME NEW size \in Nat, size <= BLOCK_SIZE
    PROVE  Blocks(size) = IF size = 0 THEN 0 ELSE 1
<1> DEFINE B == BLOCK_SIZE
<1>0. B \in Nat \ {0}
  BY FsConstants
<1> HIDE DEF B
<1>1. CASE size = 0
  <2>1. (0 + B - 1) \div B = 0
    BY <1>0
  <2> QED
    BY <1>1, <2>1 DEF Blocks, B
<1>2. CASE size # 0
  <2> DEFINE r == size - 1
  <2>1. r \in 0 .. B - 1 /\ size + B - 1 = B + r
    BY <1>0, <1>2 DEF B
  <2> HIDE DEF r
  <2>2. (B + r) \div B = 1
    BY <1>0, <2>1
  <2> QED
    BY <1>2, <2>1, <2>2 DEF Blocks, B
<1> QED
  BY <1>1, <1>2

(* The table after fs_create. *)
LEMMA CreatedTable ==
    ASSUME NEW f, FsShape(f), NEW name \in AllNames, FreeBlocks(f) # {}
    PROVE  /\ Len(Created(f, name).files) = Len(f.files) + 1
           /\ \A i \in 1 .. Len(f.files) : Created(f, name).files[i] = f.files[i]
           /\ Created(f, name).files[Len(f.files) + 1].name = name
           /\ Created(f, name).files[Len(f.files) + 1].size = 0
           /\ \E m \in FreeBlocks(f) :
                 /\ \A c \in FreeBlocks(f) : m <= c
                 /\ Created(f, name).files[Len(f.files) + 1].start = m
                 /\ Created(f, name).bitmap = f.bitmap \cup {m}
           /\ Created(f, name).data = f.data
<1>1. PICK m \in FreeBlocks(f) :
          /\ \A c \in FreeBlocks(f) : m <= c
          /\ Created(f, name) =
              [bitmap |-> f.bitmap \cup {m},
               files |-> Append(f.files, [name |-> name, size |-> 0, start |-> m]),
               data |-> f.data]
  BY CreatedFacts
<1> DEFINE g == Created(f, name)
           e == [name |-> name, size |-> 0, start |-> m]
<1>2. m \in Metadata .. FsBlocks - 1
  BY FsConstants DEF FsShape, FreeBlocks
<1>3. e \in FsEntry /\ e.name = name /\ e.size = 0 /\ e.start = m
  BY <1>2 DEF FsEntry
<1>4. g.bitmap = f.bitmap \cup {m} /\ g.files = Append(f.files, e) /\ g.data = f.data
  BY <1>1
<1> HIDE DEF g, e
<1>5. f.files \in Seq(FsEntry) /\ Len(f.files) \in Nat
  BY DEF FsShape
<1>6. /\ Len(g.files) = Len(f.files) + 1
      /\ \A i \in 1 .. Len(f.files) : g.files[i] = f.files[i]
      /\ g.files[Len(f.files) + 1] = e
  BY <1>3, <1>4, <1>5
<1> QED
  BY <1>1, <1>3, <1>4, <1>6 DEF g

(* An empty file, or one with a single byte, lies in its first block. *)
LEMMA ExtentOfOne ==
    ASSUME NEW f, FsShape(f), NEW i \in 1 .. Len(f.files), f.files[i].size \in {0, 1}
    PROVE  Extent(f, i) = {f.files[i].start}
<1> DEFINE a == f.files[i].start
           z == f.files[i].size
<1>0. a \in Metadata .. FsBlocks - 1
  BY EntryFields
<1>1. a \in Nat /\ 1 \in Nat /\ 1 <= BLOCK_SIZE /\ z \in {0, 1}
  BY <1>0, FsConstants
<1>2. Extent(f, i) = a .. a + (IF z = 0 THEN 0 ELSE Blocks(z) - 1)
  BY DEF Extent
<1> HIDE DEF a, z
<1>3. Blocks(1) = 1
  BY <1>1, BlocksOfOne
<1>4. (IF z = 0 THEN 0 ELSE Blocks(z) - 1) = 0
  BY <1>1, <1>3
<1>5. a .. a + 0 = {a}
  BY <1>1
<1> QED
  BY <1>2, <1>4, <1>5 DEF a

LEMMA SameExtent ==
    ASSUME NEW f, NEW g, NEW i, NEW j, f.files[i].start = g.files[j].start,
           f.files[i].size = g.files[j].size
    PROVE  Extent(f, i) = Extent(g, j)
BY DEF Extent

(* The sequence of given blocks with one more set, and with one removed. *)
LEMMA FunAppend ==
    ASSUME NEW n \in Nat, NEW s, s = [i \in 1 .. n |-> s[i]], NEW e
    PROVE  /\ Append(s, e) = [i \in 1 .. n + 1 |-> Append(s, e)[i]]
           /\ \A i \in 1 .. n : Append(s, e)[i] = s[i]
           /\ Append(s, e)[n + 1] = e
<1> DEFINE S == {s[i] : i \in 1 .. n} \cup {e}
<1>1. s \in Seq(S) /\ Len(s) = n
  <2>1. \A i \in 1 .. n : s[i] \in S
    OBVIOUS
  <2> HIDE DEF S
  <2>2. s \in [1 .. n -> S]
    BY <2>1
  <2> QED
    BY <2>2
<1>2. e \in S
  OBVIOUS
<1> HIDE DEF S
<1> QED
  BY <1>1, <1>2

LEMMA FunWithout ==
    ASSUME NEW n \in Nat, NEW s, s = [i \in 1 .. n |-> s[i]], NEW i \in 1 .. n
    PROVE  /\ Without(s, i) = [k \in 1 .. n - 1 |-> Without(s, i)[k]]
           /\ \A k \in 1 .. n - 1 : Without(s, i)[k] = s[IF k < i THEN k ELSE k + 1]
<1> DEFINE S == {s[k] : k \in 1 .. n}
           w == Without(s, i)
<1>1. s \in Seq(S) /\ Len(s) = n
  <2>1. \A k \in 1 .. n : s[k] \in S
    OBVIOUS
  <2> HIDE DEF S
  <2>2. s \in [1 .. n -> S]
    BY <2>1
  <2> QED
    BY <2>2
<1> HIDE DEF S
<1>2. /\ w \in Seq(S) /\ Len(w) = n - 1
      /\ \A k \in 1 .. n - 1 : w[k] = s[IF k < i THEN k ELSE k + 1]
  BY <1>1, WithoutFacts
<1> HIDE DEF w
<1>3. w = [k \in 1 .. n - 1 |-> w[k]]
  BY <1>2
<1> QED
  BY <1>2, <1>3 DEF w

LEMMA CreatedApart ==
    ASSUME NEW f, FsShape(f), NEW own, FsApart(f, own), NEW name \in AllNames,
           FreeBlocks(f) # {}, Len(f.files) < FsMaxFiles
    PROVE  FsApart(Created(f, name), Append(own, Lowest(f, 1)))
<1> DEFINE g == Created(f, name)
           n == Len(f.files)
           o == Append(own, Lowest(f, 1))
<1>0. n \in Nat
  BY DEF FsShape
<1>1. /\ Len(g.files) = n + 1 /\ \A i \in 1 .. n : g.files[i] = f.files[i]
      /\ g.files[n + 1].size = 0
  BY CreatedTable
<1>2. PICK m \in FreeBlocks(f) : /\ g.files[n + 1].start = m /\ g.bitmap = f.bitmap \cup {m}
                                 /\ \A c \in FreeBlocks(f) : m <= c
  BY CreatedTable
<1>3. Lowest(f, 1) = {m}
  <2>1. PICK k \in FreeBlocks(f) : Lowest(f, 1) = {k} /\ \A c \in FreeBlocks(f) : k <= c
    BY LowestOne
  <2>2. m <= k /\ k <= m /\ m \in Int /\ k \in Int
    BY <1>2, <2>1, FsConstants DEF FreeBlocks
  <2> QED
    BY <2>1, <2>2
<1>4. /\ o = [i \in 1 .. n + 1 |-> o[i]] /\ \A i \in 1 .. n : o[i] = own[i]
      /\ o[n + 1] = {m}
  BY <1>0, <1>3, FunAppend DEF FsApart
<1>5. m \notin f.bitmap
  BY DEF FreeBlocks
<1>6. Extent(g, n + 1) = {m}
  <2>1. FsShape(g) /\ n + 1 \in 1 .. Len(g.files)
    BY <1>0, <1>1, CreatedShape
  <2> QED
    BY <1>1, <1>2, <2>1, ExtentOfOne
<1>7. \A i \in 1 .. n : Extent(g, i) = Extent(f, i)
  BY <1>1, SameExtent
<1>8. /\ \A i \in 1 .. n : own[i] \subseteq f.bitmap /\ Extent(f, i) \subseteq own[i]
      /\ \A i, j \in 1 .. n : i # j => own[i] \cap own[j] = {}
  BY DEF FsApart
<1> HIDE DEF g, n, o
<1>9. \A i \in 1 .. n + 1 : i \in 1 .. n \/ i = n + 1
  BY <1>0
<1>10. \A i \in 1 .. n + 1 : o[i] \subseteq g.bitmap /\ Extent(g, i) \subseteq o[i]
  BY <1>2, <1>4, <1>6, <1>7, <1>8, <1>9
<1>11. \A i \in 1 .. n : m \notin o[i]
  BY <1>4, <1>5, <1>8
<1>12. ASSUME NEW i \in 1 .. n + 1, NEW j \in 1 .. n + 1, i # j PROVE o[i] \cap o[j] = {}
  <2>1. CASE i \in 1 .. n /\ j \in 1 .. n
    BY <1>4, <1>8, <1>12, <2>1
  <2>2. CASE i \in 1 .. n /\ j = n + 1
    BY <1>4, <1>11, <2>2
  <2>3. CASE i = n + 1 /\ j \in 1 .. n
    BY <1>4, <1>11, <2>3
  <2> QED
    BY <1>9, <1>12, <2>1, <2>2, <2>3
<1> QED
  BY <1>1, <1>4, <1>10, <1>12 DEF FsApart, g, o

(* The table after fs_write: only the size of one entry may differ. *)
IsWritten(g, f, i, buf) ==
    /\ Len(g.files) = Len(f.files)
    /\ \A j \in 1 .. Len(f.files) :
          /\ g.files[j].name = f.files[j].name
          /\ g.files[j].start = f.files[j].start
          /\ \/ g.files[j].size = f.files[j].size
             \/ j = i /\ g.files[j].size = f.files[i].size + Len(buf)
    /\ g.bitmap = f.bitmap \cup Lowest(f, Wanted(f, i, buf))

LEMMA WrittenTable ==
    ASSUME NEW f, FsShape(f), NEW i \in 1 .. Len(f.files), NEW buf \in Seq(Cell)
    PROVE  IsWritten(FsWritten(f, i, buf), f, i, buf)
<1> DEFINE c == Claimed(f, i, buf)
           g == FsWritten(f, i, buf)
           s == Stored(c, i, buf)
           e == [name |-> f.files[i].name, size |-> f.files[i].size + Len(buf),
                 start |-> f.files[i].start]
<1>1. /\ c.files = f.files /\ FsShape(c)
      /\ c.bitmap = f.bitmap \cup Lowest(f, Wanted(f, i, buf))
  BY ClaimedFacts
<1>2. g = c \/ g = s
  BY DEF FsWritten
<1> HIDE DEF c
<1>3. s.bitmap = c.bitmap /\ s.files = [f.files EXCEPT ![i] = e]
  <2>1. i \in 1 .. Len(c.files)
    BY <1>1
  <2>2. /\ s.bitmap = c.bitmap
        /\ s.files = [c.files EXCEPT ![i] = [name |-> c.files[i].name,
                                             size |-> c.files[i].size + Len(buf),
                                             start |-> c.files[i].start]]
    <3>1. IsStored(Stored(c, i, buf), c, i, buf)
      BY <1>1, <2>1, StoredFacts
    <3> QED
      BY <3>1 DEF IsStored
  <2> QED
    BY <1>1, <2>2
<1>4. e.name = f.files[i].name /\ e.size = f.files[i].size + Len(buf) /\ e.start = f.files[i].start
  OBVIOUS
<1> HIDE DEF e, s, g
<1>5. f.files \in Seq(FsEntry)
  BY DEF FsShape
<1>6. /\ Len(s.files) = Len(f.files) /\ s.files[i] = e
      /\ \A j \in 1 .. Len(f.files) : j # i => s.files[j] = f.files[j]
  BY <1>3, <1>5
<1>7. CASE g = c
  BY <1>1, <1>7 DEF IsWritten, g
<1>8. CASE g = s
  BY <1>1, <1>3, <1>4, <1>6, <1>8 DEF IsWritten, g
<1> QED
  BY <1>2, <1>7, <1>8

(* The blocks of a file after it has claimed some more. *)
Enlarged(own, f, i, buf) == [own EXCEPT ![i] = @ \cup Lowest(f, Wanted(f, i, buf))]

LEMMA WrittenApart ==
    ASSUME NEW f, FsShape(f), NEW own, FsApart(f, own), NEW i \in 1 .. Len(f.files),
           NEW buf \in Seq(Cell),
           Extent(FsWritten(f, i, buf), i) \subseteq Enlarged(own, f, i, buf)[i]
    PROVE  FsApart(FsWritten(f, i, buf), Enlarged(own, f, i, buf))
<1> DEFINE g == FsWritten(f, i, buf)
           n == Len(f.files)
           o == Enlarged(own, f, i, buf)
           new == Lowest(f, Wanted(f, i, buf))
<1>1. /\ Len(g.files) = n /\ g.bitmap = f.bitmap \cup new
      /\ \A j \in 1 .. n : j # i => /\ g.files[j].start = f.files[j].start
                                     /\ g.files[j].size = f.files[j].size
  <2>1. IsWritten(g, f, i, buf)
    BY WrittenTable
  <2> QED
    BY <2>1 DEF IsWritten
<1>2. \A j \in 1 .. n : j # i => Extent(g, j) = Extent(f, j)
  BY <1>1, SameExtent
<1>3. new \cap f.bitmap = {}
  BY DEF Lowest, FreeBlocks
<1>4. /\ own = [j \in 1 .. n |-> own[j]]
      /\ \A j \in 1 .. n : own[j] \subseteq f.bitmap /\ Extent(f, j) \subseteq own[j]
      /\ \A j, k \in 1 .. n : j # k => own[j] \cap own[k] = {}
  BY DEF FsApart
<1>5. o = [own EXCEPT ![i] = own[i] \cup new]
  BY DEF Enlarged
<1>6. Extent(g, i) \subseteq o[i]
  OBVIOUS
<1> HIDE DEF g, n, o, new
<1>7. /\ o = [j \in 1 .. n |-> o[j]] /\ \A j \in 1 .. n : j # i => o[j] = own[j]
      /\ o[i] = own[i] \cup new /\ i \in 1 .. n
  BY <1>4, <1>5 DEF n
<1>8. \A j \in 1 .. n : o[j] \subseteq g.bitmap /\ Extent(g, j) \subseteq o[j]
  BY <1>1, <1>2, <1>4, <1>6, <1>7
<1>9. \A j \in 1 .. n : j # i => o[j] \cap o[i] = {}
  BY <1>3, <1>4, <1>7
<1>10. \A j, k \in 1 .. n : j # k => o[j] \cap o[k] = {}
  BY <1>4, <1>7, <1>9
<1> QED
  BY <1>1, <1>7, <1>8, <1>10 DEF FsApart, g, o

(* fs_delete frees blocks of the deleted file only. *)
LEMMA ReleasedInExtent ==
    ASSUME NEW f, FsShape(f), NEW i \in 1 .. Len(f.files)
    PROVE  Released(f, i) \subseteq Extent(f, i)
<1> DEFINE a == f.files[i].start
           z == f.files[i].size
<1>0. a \in Metadata .. FsBlocks - 1 /\ z \in Nat
  BY EntryFields
<1>1. a \in Nat /\ z \in Nat /\ 0 <= BLOCK_SIZE /\ 0 \in Nat
  BY <1>0, FsConstants
<1>2. /\ Extent(f, i) = a .. a + (IF z = 0 THEN 0 ELSE Blocks(z) - 1)
      /\ Released(f, i) = a .. a + Blocks(z) - 1
  BY DEF Extent, Released
<1> HIDE DEF a, z
<1>3. CASE z = 0
  <2>1. Blocks(z) = 0
    BY <1>1, <1>3, BlocksOfOne
  <2>2. a .. a + 0 - 1 \subseteq a .. a + 0
    BY <1>1
  <2> QED
    BY <1>2, <1>3, <2>1, <2>2
<1>4. CASE z # 0
  <2> DEFINE b == Blocks(z)
  <2>1. b \in Int
    <3>1. z + BLOCK_SIZE - 1 \in Int /\ BLOCK_SIZE \in Nat \ {0}
      BY <1>1, FsConstants
    <3> QED
      BY <3>1 DEF Blocks
  <2>2. Extent(f, i) = a .. a + (b - 1) /\ Released(f, i) = a .. a + b - 1
    BY <1>2, <1>4
  <2> HIDE DEF b
  <2>3. a + (b - 1) = a + b - 1
    BY <1>1, <2>1
  <2> QED
    BY <2>2, <2>3
<1> QED
  BY <1>3, <1>4

LEMMA DeletedApart ==
    ASSUME NEW f, FsShape(f), NEW own, FsApart(f, own), NEW i \in 1 .. Len(f.files)
    PROVE  FsApart(Deleted(f, i), Without(own, i))
<1> DEFINE g == Deleted(f, i)
           n == Len(f.files)
           o == Without(own, i)
           At(k) == IF k < i THEN k ELSE k + 1
<1>1. f.files \in Seq(FsEntry) /\ n \in Nat
  BY DEF FsShape
<1>2. g.bitmap = f.bitmap \ Released(f, i) /\ g.files = Without(f.files, i)
  BY DeletedFacts
<1>3. Len(g.files) = n - 1 /\ \A k \in 1 .. n - 1 : g.files[k] = f.files[At(k)]
  BY <1>1, <1>2, WithoutFacts
<1>4. /\ \A k \in 1 .. n - 1 : At(k) \in 1 .. n /\ At(k) # i
      /\ \A j, k \in 1 .. n - 1 : At(j) = At(k) => j = k
  BY <1>1
<1>5. o = [k \in 1 .. n - 1 |-> o[k]] /\ \A k \in 1 .. n - 1 : o[k] = own[At(k)]
  <2>1. own = [k \in 1 .. n |-> own[k]]
    BY DEF FsApart
  <2> HIDE DEF n
  <2> QED
    BY <1>1, <2>1, FunWithout DEF n
<1>6. /\ \A k \in 1 .. n : own[k] \subseteq f.bitmap /\ Extent(f, k) \subseteq own[k]
      /\ \A j, k \in 1 .. n : j # k => own[j] \cap own[k] = {}
      /\ i \in 1 .. n
  BY DEF FsApart
<1>7. Released(f, i) \subseteq own[i]
  BY <1>6, ReleasedInExtent
<1>8. \A k \in 1 .. n - 1 : Extent(g, k) = Extent(f, At(k))
  BY <1>3, SameExtent
<1> HIDE DEF g, n, At, o
<1>9. ASSUME NEW k \in 1 .. n - 1
      PROVE  o[k] \subseteq g.bitmap /\ Extent(g, k) \subseteq o[k]
  <2>1. At(k) \in 1 .. n /\ At(k) # i /\ o[k] = own[At(k)]
    BY <1>4, <1>5
  <2>2. own[At(k)] \cap own[i] = {}
    BY <1>6, <2>1
  <2> QED
    BY <1>2, <1>6, <1>7, <1>8, <2>1, <2>2
<1>10. ASSUME NEW j \in 1 .. n - 1, NEW k \in 1 .. n - 1, j # k PROVE o[j] \cap o[k] = {}
  <2>1. At(j) \in 1 .. n /\ At(k) \in 1 .. n /\ At(j) # At(k)
    BY <1>4, <1>10
  <2> QED
    BY <1>5, <1>6, <2>1
<1> QED
  BY <1>3, <1>5, <1>9, <1>10 DEF FsApart, g, o

(* fs_init finds free blocks for its files: it takes them in order. *)
Fresh(f, own, m) == FsShape(f) /\ FsApart(f, own) /\ f.bitmap = 0 .. m - 1

LEMMA FreshLowest ==
    ASSUME NEW f, NEW own, NEW m \in Nat, m < FsBlocks, Fresh(f, own, m)
    PROVE  /\ FreeBlocks(f) # {} /\ Lowest(f, 1) = {m}
           /\ \A k \in FreeBlocks(f) : (\A c \in FreeBlocks(f) : k <= c) => k = m
           /\ f.bitmap \cup {m} = 0 .. (m + 1) - 1
<1>1. FreeBlocks(f) = m .. FsBlocks - 1
  BY FsConstants DEF Fresh, FreeBlocks
<1>2. m \in FreeBlocks(f) /\ \A k \in FreeBlocks(f) : k \in Nat /\ m <= k
  BY <1>1, FsConstants
<1>3. \A k \in FreeBlocks(f) : (\A c \in FreeBlocks(f) : k <= c) => k = m
  BY <1>2
<1>4. Lowest(f, 1) = {m}
  BY <1>2, <1>3, LowestOne
<1>5. f.bitmap \cup {m} = 0 .. (m + 1) - 1
  BY DEF Fresh
<1> QED
  BY <1>2, <1>3, <1>4, <1>5

LEMMA FreshCreate ==
    ASSUME NEW f, NEW own, NEW m \in Nat, m < FsBlocks, Fresh(f, own, m), NEW name \in AllNames,
           Len(f.files) < FsMaxFiles
    PROVE  Fresh(Created(f, name), Append(own, {m}), m + 1)
<1>1. FreeBlocks(f) # {} /\ Lowest(f, 1) = {m} /\ f.bitmap \cup {m} = 0 .. (m + 1) - 1
      /\ \A k \in FreeBlocks(f) : (\A c \in FreeBlocks(f) : k <= c) => k = m
  BY FreshLowest
<1>2. FsShape(f) /\ FsApart(f, own)
  BY DEF Fresh
<1>3. FsShape(Created(f, name))
  BY <1>1, <1>2, CreatedShape
<1>4. FsApart(Created(f, name), Append(own, {m}))
  <2>1. FsApart(Created(f, name), Append(own, Lowest(f, 1)))
    BY <1>1, <1>2, CreatedApart
  <2> QED
    BY <1>1, <2>1
<1>5. \E k \in FreeBlocks(f) : /\ \A c \in FreeBlocks(f) : k <= c
                               /\ Created(f, name).bitmap = f.bitmap \cup {k}
  BY <1>1, <1>2, CreatedTable
<1> QED
  BY <1>1, <1>3, <1>4, <1>5 DEF Fresh

LEMMA FreshWrite ==
    ASSUME NEW f, NEW own, NEW m \in Nat, m < FsBlocks, Fresh(f, own, m),
           NEW i \in 1 .. Len(f.files), f.files[i].size = 0, NEW x \in Cell
    PROVE  Fresh(FsWritten(f, i, <<x>>), [own EXCEPT ![i] = @ \cup {m}], m + 1)
<1> DEFINE g == FsWritten(f, i, <<x>>)
           o == Enlarged(own, f, i, <<x>>)
<1>1. Lowest(f, 1) = {m} /\ f.bitmap \cup {m} = 0 .. (m + 1) - 1
  BY FreshLowest
<1>2. FsShape(f) /\ FsApart(f, own) /\ <<x>> \in Seq(Cell) /\ Len(<<x>>) = 1
  BY DEF Fresh
<1>3. 0 + 1 <= BLOCK_SIZE /\ 1 <= BLOCK_SIZE /\ 0 <= BLOCK_SIZE /\ 0 \in Nat /\ 1 \in Nat
  BY FsConstants
<1>4. Wanted(f, i, <<x>>) = 1
  <2>1. Blocks(0) = 0 /\ Blocks(1) = 1
    BY <1>3, BlocksOfOne
  <2> QED
    BY <1>2, <2>1 DEF Wanted
<1>5. FsShape(g)
  BY <1>2, WrittenShape
<1>6. IsWritten(g, f, i, <<x>>)
  BY <1>2, WrittenTable
<1>7. /\ g.bitmap = f.bitmap \cup Lowest(f, Wanted(f, i, <<x>>))
      /\ i \in 1 .. Len(g.files) /\ g.files[i].start = f.files[i].start
      /\ g.files[i].size \in {0, 1}
  BY <1>2, <1>6 DEF IsWritten
<1>8. o = [own EXCEPT ![i] = own[i] \cup {m}]
  BY <1>1, <1>4 DEF Enlarged
<1> HIDE DEF g, o
<1>9. Extent(g, i) = {f.files[i].start} /\ Extent(f, i) = {f.files[i].start}
  BY <1>2, <1>5, <1>7, ExtentOfOne
<1>10. Extent(g, i) \subseteq o[i]
  <2>1. Extent(f, i) \subseteq own[i] /\ own = [j \in 1 .. Len(f.files) |-> own[j]]
    BY <1>2 DEF FsApart
  <2>2. o[i] = own[i] \cup {m}
    BY <1>8, <2>1
  <2> QED
    BY <1>9, <2>1, <2>2
<1>11. FsApart(g, o)
  BY <1>2, <1>10, WrittenApart DEF g, o
<1>12. Fresh(g, o, m + 1)
  BY <1>1, <1>4, <1>5, <1>7, <1>11 DEF Fresh
<1> QED
  BY <1>8, <1>12 DEF g

LEMMA ShortSequences ==
    ASSUME NEW x, NEW y, NEW z
    PROVE  /\ Append(<<>>, x) = <<x>> /\ Append(<<x>>, y) = <<x, y>>
           /\ Append(<<x, y>>, z) = <<x, y, z>>
<1> DEFINE S == {x, y, z}
           s1 == <<x>>
           s2 == <<x, y>>
           s3 == <<x, y, z>>
<1>a. /\ s1 \in Seq(S) /\ Len(s1) = 1 /\ s1[1] = x
      /\ s2 \in Seq(S) /\ Len(s2) = 2 /\ s2[1] = x /\ s2[2] = y
      /\ s3 \in Seq(S) /\ Len(s3) = 3 /\ s3[1] = x /\ s3[2] = y /\ s3[3] = z
      /\ x \in S /\ y \in S /\ z \in S
  OBVIOUS
<1>b. \A s \in Seq(S), t \in Seq(S) :
        Len(s) = Len(t) /\ (\A k \in 1 .. Len(s) : s[k] = t[k]) => s = t
  OBVIOUS
<1>c. <<>> \in Seq(S) /\ Len(<<>>) = 0
  OBVIOUS
<1>d. \A s \in Seq(S), e \in S :
        /\ Append(s, e) \in Seq(S) /\ Len(Append(s, e)) = Len(s) + 1
        /\ \A k \in 1 .. Len(s) : Append(s, e)[k] = s[k]
        /\ Append(s, e)[Len(s) + 1] = e
  OBVIOUS
<1>e. 1 \in 1 .. 1 /\ 1 \in 1 .. 2 /\ 2 \in 1 .. 2 /\ 1 + 1 = 2 /\ 2 + 1 = 3
  OBVIOUS
<1> HIDE DEF S, s1, s2, s3
<1>1. Append(<<>>, x) = <<x>> /\ Append(<<x>>, y) = <<x, y>>
  <2>1. /\ Append(<<>>, x) \in Seq(S) /\ Len(Append(<<>>, x)) = 1 /\ Append(<<>>, x)[1] = x
    BY <1>a, <1>c
  <2>2. Append(<<>>, x) = s1
    BY <1>a, <1>b, <2>1
  <2>a. /\ Append(s1, y) \in Seq(S) /\ Len(Append(s1, y)) = Len(s1) + 1
        /\ \A k \in 1 .. Len(s1) : Append(s1, y)[k] = s1[k]
        /\ Append(s1, y)[Len(s1) + 1] = y
    BY <1>a, <1>d, Zenon
  <2>3. /\ Append(s1, y) \in Seq(S) /\ Len(Append(s1, y)) = 2
        /\ Append(s1, y)[1] = x /\ Append(s1, y)[2] = y
    <3> DEFINE t == Append(s1, y)
    <3>1. /\ t \in Seq(S) /\ Len(t) = Len(s1) + 1 /\ \A k \in 1 .. Len(s1) : t[k] = s1[k]
          /\ t[Len(s1) + 1] = y
      BY <2>a
    <3> HIDE DEF t
    <3> QED
      BY <1>a, <3>1 DEF t
  <2>4. Append(s1, y) = s2
    BY <1>a, <1>b, <2>3
  <2> QED
    BY <2>2, <2>4, Zenon DEF s1, s2
<1>2. Append(<<x, y>>, z) = <<x, y, z>>
  <2>a. /\ Append(s2, z) \in Seq(S) /\ Len(Append(s2, z)) = Len(s2) + 1
        /\ \A k \in 1 .. Len(s2) : Append(s2, z)[k] = s2[k]
        /\ Append(s2, z)[Len(s2) + 1] = z
    BY <1>a, <1>d, Zenon
  <2>1. /\ Append(s2, z) \in Seq(S) /\ Len(Append(s2, z)) = 3
        /\ Append(s2, z)[1] = x /\ Append(s2, z)[2] = y /\ Append(s2, z)[3] = z
    <3> DEFINE t == Append(s2, z)
    <3>1. /\ t \in Seq(S) /\ Len(t) = Len(s2) + 1 /\ \A k \in 1 .. Len(s2) : t[k] = s2[k]
          /\ t[Len(s2) + 1] = z
      BY <2>a
    <3> HIDE DEF t
    <3> QED
      BY <1>a, <3>1 DEF t
  <2>2. Append(s2, z) = s3
    BY <1>a, <1>b, <2>1
  <2> QED
    BY <2>2, Zenon DEF s2, s3
<1> QED
  BY <1>1, <1>2

LEMMA ShortUpdates ==
    ASSUME NEW x, NEW y, NEW z, NEW u
    PROVE  /\ [<<x, y>> EXCEPT ![2] = @ \cup u] = <<x, y \cup u>>
           /\ [<<x, y, z>> EXCEPT ![3] = @ \cup u] = <<x, y, z \cup u>>
OBVIOUS

LEMMA FsInitShape == FsInit => FsShape(fs) /\ FsApart(fs, given)
<1> DEFINE root == Created(Empty, "/")
           t1 == Created(root, "test.txt")
           test == FsWritten(t1, 2, <<"t">>)
           w1 == Created(test, "welcome.txt")
           done == FsWritten(w1, 3, <<"w">>)
           M == Metadata
           o1 == <<{M}>>
           o2 == <<{M}, {M + 1}>>
           o3 == <<{M}, {M + 1, M + 2}>>
           o4 == <<{M}, {M + 1, M + 2}, {M + 3}>>
           o5 == <<{M}, {M + 1, M + 2}, {M + 3, M + 4}>>
<1>0. /\ M \in Nat /\ M < FsBlocks /\ M + 1 < FsBlocks /\ M + 2 < FsBlocks /\ M + 3 < FsBlocks
      /\ M + 4 < FsBlocks /\ 0 < FsMaxFiles /\ 1 < FsMaxFiles /\ 2 < FsMaxFiles
      /\ M + 1 + 1 = M + 2 /\ M + 2 + 1 = M + 3 /\ M + 3 + 1 = M + 4
      /\ M + 1 \in Nat /\ M + 2 \in Nat /\ M + 3 \in Nat /\ M + 4 \in Nat
  BY FsConstants
<1>a. /\ Append(<<>>, {M}) = o1 /\ Append(o1, {M + 1}) = o2
      /\ [o2 EXCEPT ![2] = @ \cup {M + 2}] = o3
      /\ Append(o3, {M + 3}) = o4 /\ [o4 EXCEPT ![3] = @ \cup {M + 4}] = o5
  <2>1. {M + 1} \cup {M + 2} = {M + 1, M + 2} /\ {M + 3} \cup {M + 4} = {M + 3, M + 4}
    OBVIOUS
  <2>2. Append(<<>>, {M}) = o1
    BY ShortSequences
  <2>5. Append(o1, {M + 1}) = o2
    BY ShortSequences
  <2>6. Append(o3, {M + 3}) = o4
    <3> DEFINE a == {M}
               b == {M + 1, M + 2}
               c == {M + 3}
    <3> HIDE DEF a, b, c
    <3>1. Append(<<a, b>>, c) = <<a, b, c>>
      BY ShortSequences
    <3> QED
      BY <3>1, Zenon DEF a, b, c
  <2>3. [o2 EXCEPT ![2] = @ \cup {M + 2}] = <<{M}, {M + 1} \cup {M + 2}>>
    BY ShortUpdates
  <2>4. [o4 EXCEPT ![3] = @ \cup {M + 4}] = <<{M}, {M + 1, M + 2}, {M + 3} \cup {M + 4}>>
    BY ShortUpdates
  <2> QED
    BY <2>1, <2>2, <2>3, <2>4, <2>5, <2>6
<1> HIDE DEF o1, o2, o3, o4, o5
<1>1. {"/", "test.txt", "welcome.txt"} \subseteq AllNames /\ "t" \in Cell /\ "w" \in Cell
  BY DEF AllNames, Cell
<1>2. Fresh(Empty, <<>>, M) /\ Len(Empty.files) = 0
  <2>1. /\ Empty.bitmap = 0 .. M - 1 /\ Empty.files = <<>>
        /\ Empty.data = [k \in Address |-> "zero"]
        /\ Empty = [bitmap |-> Empty.bitmap, files |-> Empty.files, data |-> Empty.data]
    BY DEF Empty, Address
  <2>2. Empty.data \in [Address -> Cell]
    BY <2>1 DEF Cell
  <2>3. 0 .. M - 1 \subseteq 0 .. FsBlocks - 1 /\ 0 <= FsMaxFiles
    BY FsConstants
  <2>4. Len(Empty.files) = 0 /\ Empty.files \in Seq(FsEntry)
    BY <2>1
  <2>5. FsShape(Empty)
    BY <2>1, <2>2, <2>3, <2>4 DEF FsShape
  <2>6. FsApart(Empty, <<>>)
    BY <2>4 DEF FsApart
  <2> QED
    BY <2>1, <2>4, <2>5, <2>6 DEF Fresh
<1>3. Fresh(root, o1, M + 1) /\ Len(root.files) = 1
  <2>1. FsShape(Empty) /\ FreeBlocks(Empty) # {}
    BY <1>0, <1>2, FreshLowest DEF Fresh
  <2>2. Fresh(root, Append(<<>>, {M}), M + 1)
    BY <1>0, <1>1, <1>2, FreshCreate
  <2>3. Len(root.files) = Len(Empty.files) + 1
    BY <1>1, <2>1, CreatedTable
  <2>4. Append(<<>>, {M}) = o1
    BY <1>a
  <2>5. Fresh(root, o1, M + 1)
    BY <2>2, <2>4, Zenon
  <2> QED
    BY <1>2, <2>3, <2>5
<1> HIDE DEF root
<1>4. Fresh(t1, o2, M + 2) /\ Len(t1.files) = 2 /\ t1.files[2].size = 0
  <2>1. FsShape(root) /\ FreeBlocks(root) # {}
    BY <1>0, <1>3, FreshLowest DEF Fresh
  <2>2. Fresh(t1, Append(o1, {M + 1}), M + 1 + 1)
    BY <1>0, <1>1, <1>3, FreshCreate
  <2>3. Len(t1.files) = Len(root.files) + 1 /\ t1.files[Len(root.files) + 1].size = 0
    BY <1>1, <2>1, CreatedTable
  <2>4. Append(o1, {M + 1}) = o2
    BY <1>a
  <2>5. Fresh(t1, o2, M + 2)
    BY <1>0, <2>2, <2>4, Zenon
  <2> QED
    BY <1>3, <2>3, <2>5
<1> HIDE DEF t1
<1>5. Fresh(test, o3, M + 3) /\ Len(test.files) = 2
  <2>1. FsShape(t1) /\ 2 \in 1 .. Len(t1.files) /\ <<"t">> \in Seq(Cell)
    BY <1>1, <1>4 DEF Fresh
  <2>2. Fresh(test, [o2 EXCEPT ![2] = @ \cup {M + 2}], M + 2 + 1)
    BY <1>0, <1>1, <1>4, <2>1, FreshWrite
  <2>3. Len(test.files) = Len(t1.files)
    <3>1. IsWritten(test, t1, 2, <<"t">>)
      BY <2>1, WrittenTable
    <3> QED
      BY <3>1 DEF IsWritten
  <2>4. [o2 EXCEPT ![2] = @ \cup {M + 2}] = o3
    BY <1>a
  <2> QED
    BY <1>0, <1>4, <2>2, <2>3, <2>4
<1> HIDE DEF test
<1>6. Fresh(w1, o4, M + 4) /\ Len(w1.files) = 3 /\ w1.files[3].size = 0
  <2>1. FsShape(test) /\ FreeBlocks(test) # {}
    BY <1>0, <1>5, FreshLowest DEF Fresh
  <2>2. Fresh(w1, Append(o3, {M + 3}), M + 3 + 1)
    BY <1>0, <1>1, <1>5, FreshCreate
  <2>3. Len(w1.files) = Len(test.files) + 1 /\ w1.files[Len(test.files) + 1].size = 0
    BY <1>1, <2>1, CreatedTable
  <2>4. Append(o3, {M + 3}) = o4
    BY <1>a
  <2>5. Fresh(w1, o4, M + 4)
    BY <1>0, <2>2, <2>4, Zenon
  <2> QED
    BY <1>5, <2>3, <2>5
<1> HIDE DEF w1
<1>7. Fresh(done, o5, M + 4 + 1)
  <2>1. 3 \in 1 .. Len(w1.files)
    BY <1>6
  <2>2. Fresh(done, [o4 EXCEPT ![3] = @ \cup {M + 4}], M + 4 + 1)
    BY <1>0, <1>1, <1>6, <2>1, FreshWrite
  <2>3. [o4 EXCEPT ![3] = @ \cup {M + 4}] = o5
    BY <1>a
  <2> QED
    BY <2>2, <2>3
<1> HIDE DEF done
<1>8. FsInit => fs = done /\ given = o5
  BY DEF FsInit, root, t1, test, w1, done, o5
<1> QED
  BY <1>7, <1>8 DEF Fresh

-----------------------------------------------------------------------------
(* The steps of the filesystem, as what they make of it. *)
MakesFile(name) ==
    /\ CanCreate(fs, name) /\ fs' = Created(fs, FsKept[name])
    /\ given' = Append(given, Lowest(fs, 1)) /\ spilled' = spilled

RemovesFile(i) ==
    /\ \A j \in 1 .. i - 1 : fs.files[j].name # fs.files[i].name
    /\ fs' = Deleted(fs, i) /\ given' = Without(given, i) /\ spilled' = spilled

WritesFile(i, buf) ==
    /\ fs' = FsWritten(fs, i, buf) /\ given' = Enlarged(given, fs, i, buf)
    /\ spilled' = (spilled \/ ~(Extent(fs', i) \subseteq given'[i]))

LEMMA FsSteps ==
    ASSUME FsShape(fs), FsNext
    PROVE  \/ \E name \in AllNames : MakesFile(name)
           \/ \E i \in 1 .. Len(fs.files) : RemovesFile(i)
           \/ \E i \in 1 .. Len(fs.files), buf \in Buffer : WritesFile(i, buf)
<1>1. DOMAIN fs.files = 1 .. Len(fs.files) /\ Len(fs.files) \in Nat
  BY DEF FsShape
<1>2. ASSUME NEW name \in AllNames, fs_create(name) PROVE MakesFile(name)
  BY <1>2 DEF fs_create, MakesFile
<1>3. ASSUME NEW name \in AllNames, fs_delete(name)
      PROVE  \E i \in 1 .. Len(fs.files) : RemovesFile(i)
  <2>1. PICK i \in FirstNamed(fs, name) :
            fs' = Deleted(fs, i) /\ given' = Without(given, i) /\ spilled' = spilled
    BY <1>3 DEF fs_delete
  <2>2. /\ i \in 1 .. Len(fs.files) /\ fs.files[i].name = name
        /\ \A j \in 1 .. Len(fs.files) : fs.files[j].name = name => i <= j
    BY <1>1 DEF FirstNamed, Named
  <2>3. \A j \in 1 .. i - 1 : j \in 1 .. Len(fs.files) /\ ~(i <= j)
    BY <1>1, <2>2
  <2> QED
    BY <2>1, <2>2, <2>3 DEF RemovesFile
<1>4. ASSUME NEW i \in 1 .. FsMaxFiles, NEW buf \in Buffer, fs_write(i, buf)
      PROVE  i \in 1 .. Len(fs.files) /\ WritesFile(i, buf)
  BY <1>1, <1>4 DEF fs_write, WritesFile, Enlarged
<1> QED
  BY <1>2, <1>3, <1>4 DEF FsNext

LEMMA FsShapeStep ==
    ASSUME FsShape(fs), FsNext
    PROVE  FsShape(fs)'
<1>1. ASSUME NEW name \in AllNames, MakesFile(name) PROVE FsShape(fs')
  <2>1. FsKept[name] \in AllNames /\ FreeBlocks(fs) # {} /\ Len(fs.files) < FsMaxFiles
    BY <1>1, FileSystemAssumption DEF MakesFile, CanCreate
  <2>2. FsShape(Created(fs, FsKept[name]))
    BY <2>1, CreatedShape
  <2> QED
    BY <1>1, <2>2 DEF MakesFile
<1>2. ASSUME NEW i \in 1 .. Len(fs.files), RemovesFile(i) PROVE FsShape(fs')
  BY <1>2, DeletedFacts DEF RemovesFile
<1>3. ASSUME NEW i \in 1 .. Len(fs.files), NEW buf \in Buffer, WritesFile(i, buf)
      PROVE  FsShape(fs')
  BY <1>3, FsConstants, WrittenShape DEF WritesFile
<1>4. FsShape(fs')
  BY <1>1, <1>2, <1>3, FsSteps
<1> QED
  BY <1>4

LEMMA FsShapeAlways == FsSpec => []FsShape(fs)
<1>1. FsInit => FsShape(fs)
  BY FsInitShape
<1>2. FsShape(fs) /\ [FsNext]_filesystemVars => FsShape(fs)'
  BY FsShapeStep DEF filesystemVars
<1> QED
  BY <1>1, <1>2, PTL DEF FsSpec

(* Whatever is created, extended and deleted, the blocks of the metadata are never given
   to a file, no block outside the filesystem is, and the table does not overflow. *)
THEOREM FsTypeCorrect == FsSpec => []FsTypeOK
<1>1. FsShape(fs) => FsTypeOK
  <2> SUFFICES ASSUME FsShape(fs) PROVE FsTypeOK
    OBVIOUS
  <2>1. DOMAIN fs.files = 1 .. Len(fs.files)
    BY DEF FsShape
  <2> QED
    BY <2>1, EntryFields DEF FsTypeOK, FsShape
<1> QED
  BY <1>1, FsShapeAlways, PTL

(* Until a write leaves the blocks of its file, every file lies in its own. *)
FsInv == FsShape(fs) /\ (spilled \/ FsApart(fs, given))

LEMMA FsApartStep ==
    ASSUME FsInv, FsNext
    PROVE  FsInv'
<1>1. FsShape(fs) /\ FsShape(fs')
  BY FsShapeStep DEF FsInv
<1>2. ASSUME NEW name \in AllNames, MakesFile(name), ~spilled'
      PROVE  FsApart(fs', given')
  <2>1. FsKept[name] \in AllNames /\ FreeBlocks(fs) # {} /\ Len(fs.files) < FsMaxFiles
    BY <1>2, FileSystemAssumption DEF MakesFile, CanCreate
  <2>2. FsApart(fs, given)
    BY <1>2 DEF MakesFile, FsInv
  <2>3. FsApart(Created(fs, FsKept[name]), Append(given, Lowest(fs, 1)))
    BY <1>1, <2>1, <2>2, CreatedApart
  <2> QED
    BY <1>2, <2>3 DEF MakesFile
<1>3. ASSUME NEW i \in 1 .. Len(fs.files), RemovesFile(i), ~spilled'
      PROVE  FsApart(fs', given')
  <2>1. FsApart(fs, given)
    BY <1>3 DEF RemovesFile, FsInv
  <2> QED
    BY <1>1, <1>3, <2>1, DeletedApart DEF RemovesFile
<1>4. ASSUME NEW i \in 1 .. Len(fs.files), NEW buf \in Buffer, WritesFile(i, buf), ~spilled'
      PROVE  FsApart(fs', given')
  <2>1. FsApart(fs, given) /\ Extent(fs', i) \subseteq given'[i]
    BY <1>4 DEF WritesFile, FsInv
  <2>2. Extent(FsWritten(fs, i, buf), i) \subseteq Enlarged(given, fs, i, buf)[i]
    BY <1>4, <2>1 DEF WritesFile
  <2>3. FsApart(FsWritten(fs, i, buf), Enlarged(given, fs, i, buf))
    BY <1>1, <2>1, <2>2, FsConstants, WrittenApart
  <2> QED
    BY <1>4, <2>3 DEF WritesFile
<1>5. spilled' \/ FsApart(fs', given')
  BY <1>1, <1>2, <1>3, <1>4, FsSteps
<1> QED
  BY <1>1, <1>5 DEF FsInv

LEMMA FsInvAlways == FsSpec => []FsInv
<1>1. FsInit => FsInv
  BY FsInitShape DEF FsInv
<1>2. FsInv /\ [FsNext]_filesystemVars => FsInv'
  <2>1. FsInv /\ UNCHANGED filesystemVars => FsInv'
    BY DEF FsInv, filesystemVars
  <2> QED
    BY <2>1, FsApartStep
<1> QED
  BY <1>1, <1>2, PTL DEF FsSpec

(* A write past the blocks given to its file is the only way for two files to share a
   block, or for a file to lie in a block that alloc_block could hand out: neither the
   deletions, which free blocks in the middle of the bitmap and only as many as the size
   tells, nor the blocks that failed writes keep, nor files of several blocks are. *)
THEOREM OnlySpillsOverlapAlways == FsSpec => []OnlySpillsOverlap
<1>1. FsInv => OnlySpillsOverlap
  <2> SUFFICES ASSUME FsShape(fs), FsApart(fs, given) PROVE FilesKeepApart
    BY DEF FsInv, OnlySpillsOverlap
  <2>1. DOMAIN fs.files = 1 .. Len(fs.files)
    BY DEF FsShape
  <2>2. \A i \in DOMAIN fs.files : Extent(fs, i) \subseteq given[i] /\ given[i] \subseteq fs.bitmap
    BY <2>1 DEF FsApart
  <2>3. \A i, j \in DOMAIN fs.files : i # j => given[i] \cap given[j] = {}
    BY <2>1 DEF FsApart
  <2> QED
    BY <2>2, <2>3 DEF FilesKeepApart
<1> QED
  BY <1>1, FsInvAlways, PTL

-----------------------------------------------------------------------------
(* The block filesystem is an append store. *)

(* fs_read of all of file i, and of all files. *)
FileAt(f, i) == [k \in 1 .. f.files[i].size |-> f.data[f.files[i].start * BLOCK_SIZE + k - 1]]

FilesOf(f) == [i \in 1 .. Len(f.files) |-> [name |-> f.files[i].name, contents |-> FileAt(f, i)]]

(* An entry and a place in the data that did not change hold the same file. *)
LEMMA SameFile ==
    ASSUME NEW f, NEW g, NEW i, NEW j, f.files[i] = g.files[j], f.data = g.data
    PROVE  FileAt(f, i) = FileAt(g, j)
BY DEF FileAt

LEMMA FilesOfSame ==
    ASSUME NEW f, NEW g, g.files = f.files, g.data = f.data
    PROVE  FilesOf(g) = FilesOf(f)
BY DEF FilesOf, FileAt

LEMMA FilesOfCreated ==
    ASSUME NEW f, FsShape(f), NEW name \in AllNames, FreeBlocks(f) # {}
    PROVE  FilesOf(Created(f, name)) = Append(FilesOf(f), [name |-> name, contents |-> <<>>])
<1> DEFINE g == Created(f, name)
           n == Len(f.files)
           e == [name |-> name, contents |-> <<>>]
           s == FilesOf(f)
           t == FilesOf(g)
           a == Append(s, e)
<1>0. n \in Nat
  BY DEF FsShape
<1>1. /\ Len(g.files) = n + 1 /\ \A i \in 1 .. n : g.files[i] = f.files[i]
      /\ g.files[n + 1].name = name /\ g.files[n + 1].size = 0 /\ g.data = f.data
  BY CreatedTable
<1>2. s = [i \in 1 .. n |-> s[i]] /\ t = [i \in 1 .. n + 1 |-> t[i]]
  BY <1>1 DEF FilesOf
<1>3. \A i \in 1 .. n : i \in 1 .. n + 1
  BY <1>0
<1>4. \A i \in 1 .. n : t[i] = s[i]
  <2> SUFFICES ASSUME NEW i \in 1 .. n PROVE t[i] = s[i]
    OBVIOUS
  <2>1. FileAt(g, i) = FileAt(f, i) /\ g.files[i].name = f.files[i].name
    BY <1>1, SameFile
  <2> QED
    BY <1>1, <1>3, <2>1 DEF FilesOf
<1>5. t[n + 1] = e
  <2>1. FileAt(g, n + 1) = <<>>
    BY <1>1 DEF FileAt
  <2>2. n + 1 \in 1 .. n + 1
    BY <1>0
  <2> QED
    BY <1>1, <2>1, <2>2 DEF FilesOf
<1> HIDE DEF n, e, s, t
<1>6. /\ a = [i \in 1 .. n + 1 |-> a[i]] /\ \A i \in 1 .. n : a[i] = s[i]
      /\ a[n + 1] = e
  BY <1>0, <1>2, FunAppend
<1> HIDE DEF a
<1>7. \A i \in 1 .. n + 1 : i \in 1 .. n \/ i = n + 1
  BY <1>0
<1>8. \A i \in 1 .. n + 1 : t[i] = a[i]
  BY <1>4, <1>5, <1>6, <1>7
<1>9. t = a
  BY <1>2, <1>6, <1>8
<1> QED
  BY <1>9 DEF a, s, t, e

LEMMA FilesOfDeleted ==
    ASSUME NEW f, FsShape(f), NEW i \in 1 .. Len(f.files)
    PROVE  FilesOf(Deleted(f, i)) = Without(FilesOf(f), i)
<1> DEFINE g == Deleted(f, i)
           n == Len(f.files)
           s == FilesOf(f)
           t == FilesOf(g)
           w == Without(s, i)
           At(k) == IF k < i THEN k ELSE k + 1
<1>0. f.files \in Seq(FsEntry) /\ n \in Nat /\ i \in 1 .. n
  BY DEF FsShape
<1>1. g.files = Without(f.files, i) /\ g.data = f.data
  BY DeletedFacts
<1>2. Len(g.files) = n - 1 /\ \A k \in 1 .. n - 1 : g.files[k] = f.files[At(k)]
  BY <1>0, <1>1, WithoutFacts
<1>3. s = [k \in 1 .. n |-> s[k]] /\ t = [k \in 1 .. n - 1 |-> t[k]]
  BY <1>2 DEF FilesOf
<1>4. \A k \in 1 .. n - 1 : At(k) \in 1 .. n
  BY <1>0
<1> HIDE DEF At
<1>5. \A k \in 1 .. n - 1 : t[k] = s[At(k)]
  <2> SUFFICES ASSUME NEW k \in 1 .. n - 1 PROVE t[k] = s[At(k)]
    OBVIOUS
  <2>1. FileAt(g, k) = FileAt(f, At(k)) /\ g.files[k].name = f.files[At(k)].name
    BY <1>1, <1>2, SameFile
  <2> QED
    BY <1>2, <1>4, <2>1 DEF FilesOf
<1> HIDE DEF n, s, t
<1>6. w = [k \in 1 .. n - 1 |-> w[k]] /\ \A k \in 1 .. n - 1 : w[k] = s[At(k)]
  BY <1>0, <1>3, FunWithout DEF At
<1> HIDE DEF w
<1>7. \A k \in 1 .. n - 1 : t[k] = w[k]
  BY <1>5, <1>6
<1>8. t = w
  BY <1>3, <1>6, <1>7
<1> QED
  BY <1>8 DEF w, s, t

(* Quotient and remainder. *)
LEMMA DivMod ==
    ASSUME NEW t \in Nat, NEW B \in Nat \ {0}
    PROVE  t \div B \in Nat /\ t % B \in 0 .. B - 1 /\ t = (t \div B) * B + (t % B)
<1> DEFINE q == t \div B
           r == t % B
<1>1. q \in Nat /\ r \in 0 .. B - 1 /\ t = B * q + r
  OBVIOUS
<1> HIDE DEF q, r
<1>2. B * q = q * B
  BY <1>1
<1> QED
  BY <1>1, <1>2 DEF q, r

(* The places of different blocks differ. *)
LEMMA PlacesApart ==
    ASSUME NEW B \in Nat \ {0}, NEW a \in Nat, NEW b \in Nat, a < b,
           NEW o \in 0 .. B - 1, NEW p \in 0 .. B - 1
    PROVE  a * B + o < b * B + p
<1> DEFINE r == b - a - 1
<1>1. r \in Nat /\ b = a + 1 + r
  OBVIOUS
<1> HIDE DEF r
<1>2. (a + 1 + r) * B = a * B + B + r * B
  BY <1>1
<1>3. a * B \in Nat /\ r * B \in Nat
  BY <1>1
<1> DEFINE x == a * B
           y == r * B
           z == b * B
<1>4. z = x + B + y
  BY <1>1, <1>2
<1>5. x \in Nat /\ y \in Nat
  BY <1>3
<1> HIDE DEF x, y, z
<1>6. x + o < z + p
  BY <1>4, <1>5
<1> QED
  BY <1>6 DEF x, z

(* The place of a byte of a one-block file is in the data. *)
LEMMA PlaceIsAddress ==
    ASSUME NEW a \in 0 .. FsBlocks - 1, NEW o \in 0 .. BLOCK_SIZE - 1
    PROVE  a * BLOCK_SIZE + o \in Address
<1>1. /\ BLOCK_SIZE \in Nat \ {0} /\ FsBlocks \in Nat /\ a \in Nat /\ a < FsBlocks
      /\ 0 \in 0 .. BLOCK_SIZE - 1
  BY FsConstants
<1>2. a * BLOCK_SIZE + o < FsBlocks * BLOCK_SIZE + 0
  BY <1>1, PlacesApart
<1>3. a * BLOCK_SIZE \in Nat /\ FsBlocks * BLOCK_SIZE \in Nat
  BY <1>1
<1> DEFINE x == a * BLOCK_SIZE
           y == FsBlocks * BLOCK_SIZE
<1>4. x \in Nat /\ y \in Nat /\ x + o < y + 0
  BY <1>2, <1>3
<1> HIDE DEF x, y
<1>5. x + o \in 0 .. y - 1
  BY <1>1, <1>4
<1> QED
  BY <1>5 DEF x, y, Address

(* A number of bytes that fills q blocks and some more takes more than q of them. *)
LEMMA BlocksCover ==
    ASSUME NEW z \in Nat, NEW o \in 0 .. z - 1
    PROVE  /\ o \div BLOCK_SIZE \in Nat /\ o % BLOCK_SIZE \in 0 .. BLOCK_SIZE - 1
           /\ o = (o \div BLOCK_SIZE) * BLOCK_SIZE + (o % BLOCK_SIZE)
           /\ Blocks(z) \in Nat /\ o \div BLOCK_SIZE < Blocks(z)
<1> DEFINE B == BLOCK_SIZE
           q == o \div B
           r == o % B
           t == z + B - 1
           u == t \div B
           v == t % B
<1>0. B \in Nat \ {0}
  BY FsConstants
<1> HIDE DEF B
<1>a. o \in Nat
  OBVIOUS
<1>1. q \in Nat /\ r \in 0 .. B - 1 /\ o = q * B + r
  BY <1>0, <1>a, DivMod
<1>2. t \in Nat /\ t >= o + B
  BY <1>0
<1> HIDE DEF t
<1>3. u \in Nat /\ v \in 0 .. B - 1 /\ t = u * B + v
  BY <1>0, <1>2, DivMod
<1> HIDE DEF q, r, u, v
<1>4. q < u
  <2> SUFFICES ASSUME u < q + 1 PROVE FALSE
    BY <1>1, <1>3
  <2>1. q + 1 \in Nat /\ 0 \in 0 .. B - 1
    BY <1>0, <1>1
  <2>2. u * B + v < (q + 1) * B + 0
    BY <1>0, <1>3, <2>1, PlacesApart
  <2>3. (q + 1) * B = q * B + B
    BY <1>0, <1>1
  <2> DEFINE x == q * B
             y == u * B
             w == (q + 1) * B
  <2>4. x \in Nat /\ y \in Nat /\ w = x + B /\ y + v < w + 0 /\ t = y + v /\ o = x + r
    BY <1>0, <1>1, <1>3, <2>2, <2>3
  <2> HIDE DEF x, y, w
  <2> QED
    BY <1>0, <1>1, <1>2, <1>3, <2>4
<1>5. Blocks(z) = u
  BY DEF Blocks, u, t, B
<1>6. /\ q \in Nat /\ r \in 0 .. B - 1 /\ o = q * B + r
      /\ Blocks(z) \in Nat /\ q < Blocks(z)
  BY <1>1, <1>3, <1>4, <1>5
<1> QED
  BY <1>6, Zenon DEF q, r, B

(* Every byte of a file is in a block of its own. *)
LEMMA PlaceInBlock ==
    ASSUME NEW f, FsShape(f), NEW own, FsApart(f, own), NEW i \in 1 .. Len(f.files),
           NEW o \in 0 .. f.files[i].size - 1
    PROVE  \E b \in own[i], r \in 0 .. BLOCK_SIZE - 1 :
              /\ b \in 0 .. FsBlocks - 1
              /\ f.files[i].start * BLOCK_SIZE + o = b * BLOCK_SIZE + r
<1> DEFINE a == f.files[i].start
           z == f.files[i].size
           B == BLOCK_SIZE
           q == o \div B
           r == o % B
           n == Blocks(z)
<1>0. a \in Metadata .. FsBlocks - 1 /\ z \in Nat
  BY EntryFields
<1>1. a \in Nat /\ B \in Nat \ {0} /\ z # 0 /\ o \in 0 .. z - 1
  BY <1>0, FsConstants
<1>2. q \in Nat /\ r \in 0 .. B - 1 /\ o = q * B + r /\ n \in Nat /\ q < n
  BY <1>0, <1>1, BlocksCover, Zenon
<1>3. Extent(f, i) = a .. a + (n - 1)
  BY <1>1 DEF Extent
<1>4. Extent(f, i) \subseteq own[i] /\ own[i] \subseteq 0 .. FsBlocks - 1
  BY DEF FsApart, FsShape
<1> HIDE DEF a, B, q, r, n, z
<1>5. a + q \in a .. a + (n - 1)
  BY <1>1, <1>2
<1>6. a + q \in own[i] /\ a + q \in 0 .. FsBlocks - 1
  BY <1>3, <1>4, <1>5
<1>7. a * B + o = (a + q) * B + r
  <2>1. (a + q) * B = a * B + q * B
    BY <1>1, <1>2
  <2> DEFINE x == a * B
             y == q * B
             w == (a + q) * B
  <2>2. x \in Nat /\ y \in Nat /\ w = x + y /\ o = y + r
    BY <1>1, <1>2, <2>1
  <2> HIDE DEF x, y, w
  <2>3. x + o = w + r
    BY <1>2, <2>2, <1>1
  <2> QED
    BY <2>3 DEF x, w
<1> QED
  BY <1>2, <1>6, <1>7 DEF a, B

(* The places of two files differ. *)
LEMMA FilePlaces ==
    ASSUME NEW f, FsShape(f), NEW own, FsApart(f, own), NEW i \in 1 .. Len(f.files),
           NEW j \in 1 .. Len(f.files), NEW o \in 0 .. f.files[j].size - 1
    PROVE  /\ f.files[j].start * BLOCK_SIZE + o \in Address
           /\ \A p \in 0 .. f.files[i].size - 1 :
                 i # j => f.files[j].start * BLOCK_SIZE + o # f.files[i].start * BLOCK_SIZE + p
<1>1. PICK b \in own[j], r \in 0 .. BLOCK_SIZE - 1 :
          /\ b \in 0 .. FsBlocks - 1
          /\ f.files[j].start * BLOCK_SIZE + o = b * BLOCK_SIZE + r
  BY PlaceInBlock
<1>2. ASSUME NEW p \in 0 .. f.files[i].size - 1, i # j
      PROVE  f.files[j].start * BLOCK_SIZE + o # f.files[i].start * BLOCK_SIZE + p
  <2>1. PICK d \in own[i], v \in 0 .. BLOCK_SIZE - 1 :
            /\ d \in 0 .. FsBlocks - 1
            /\ f.files[i].start * BLOCK_SIZE + p = d * BLOCK_SIZE + v
    BY PlaceInBlock
  <2>2. b # d
    BY <1>2 DEF FsApart
  <2>3. b \in Nat /\ d \in Nat /\ BLOCK_SIZE \in Nat \ {0}
    BY <1>1, <2>1, FsConstants
  <2>4. b < d => b * BLOCK_SIZE + r < d * BLOCK_SIZE + v
    BY <2>3, PlacesApart
  <2>5. d < b => d * BLOCK_SIZE + v < b * BLOCK_SIZE + r
    BY <2>3, PlacesApart
  <2> DEFINE x == b * BLOCK_SIZE
             y == d * BLOCK_SIZE
  <2>6. x \in Nat /\ y \in Nat /\ (b < d => x + r < y + v) /\ (d < b => y + v < x + r)
    BY <2>3, <2>4, <2>5
  <2> HIDE DEF x, y
  <2>7. x + r # y + v
    BY <2>2, <2>3, <2>6
  <2> QED
    BY <1>1, <2>1, <2>7 DEF x, y
<1>3. b * BLOCK_SIZE + r \in Address
  BY <1>1, PlaceIsAddress
<1> QED
  BY <1>1, <1>2, <1>3

(* What the places of file j hold after a write to file i that stayed in its blocks. *)
LEMMA PlaceAfterWrite ==
    ASSUME NEW c, FsShape(c), NEW i \in 1 .. Len(c.files), NEW buf \in Seq(Cell),
           NEW g, IsStored(g, c, i, buf), FsShape(g), NEW own, FsApart(g, own),
           NEW j \in 1 .. Len(c.files), NEW o \in 0 .. g.files[j].size - 1,
           Len(g.files) = Len(c.files), g.files[i].size = c.files[i].size + Len(buf),
           g.files[i].start = c.files[i].start, g.files[j].start = c.files[j].start
    PROVE  /\ c.data[c.files[j].start * BLOCK_SIZE + o] \in Cell
           /\ g.data[c.files[j].start * BLOCK_SIZE + o] =
                 IF j = i /\ o \in c.files[i].size .. c.files[i].size + Len(buf) - 1
                 THEN buf[o - c.files[i].size + 1]
                 ELSE c.data[c.files[j].start * BLOCK_SIZE + o]
<1> DEFINE a == c.files[i].start
           b == c.files[j].start
           s == c.files[i].size
           n == Len(buf)
           x == a * BLOCK_SIZE
           y == b * BLOCK_SIZE
<1>0. a \in Metadata .. FsBlocks - 1 /\ b \in Metadata .. FsBlocks - 1 /\ s \in Nat
      /\ g.files[j].size \in Nat
  BY EntryFields
<1>1. a \in Nat /\ b \in Nat /\ n \in Nat /\ BLOCK_SIZE \in Nat \ {0} /\ o \in Nat
  <2>1. \A k \in Nat : \A m \in 0 .. k - 1 : m \in Nat
    OBVIOUS
  <2>2. o \in Nat
    BY <1>0, <2>1
  <2>3. a \in Nat /\ b \in Nat
    BY <1>0, FsConstants
  <2> QED
    BY <2>2, <2>3, FsConstants
<1>3. x \in Nat /\ y \in Nat
  BY <1>1, SMTT(30)
<1>4. /\ y + o \in Address
      /\ \A p \in 0 .. (s + n) - 1 : i # j => y + o # x + p
  BY FilePlaces
<1>5. c.data \in [Address -> Cell]
  BY DEF FsShape
<1>6. Position(c, i) = x + s
  BY DEF Position
<1>7. g.data[y + o] = IF (y + o) - (x + s) \in 0 .. n - 1
                      THEN buf[(y + o) - (x + s) + 1] ELSE c.data[y + o]
  BY <1>4, <1>6 DEF IsStored
<1>8. CASE i = j
  <2>1. x = y
    BY <1>8
  <2> HIDE DEF x, y, s, n
  <2>2. (y + o) - (x + s) = o - s
    BY <1>0, <1>1, <1>3, <2>1
  <2>3. o - s \in 0 .. n - 1 <=> o \in s .. s + n - 1
    BY <1>0, <1>1
  <2>4. g.data[y + o] = IF o \in s .. s + n - 1 THEN buf[o - s + 1] ELSE c.data[y + o]
    BY <1>7, <2>2, <2>3
  <2> QED
    BY <1>4, <1>5, <1>8, <2>4 DEF y, s, n
<1>9. CASE i # j
  <2>1. (y + o) - (x + s) \notin 0 .. n - 1
    <3> SUFFICES ASSUME (y + o) - (x + s) \in 0 .. n - 1 PROVE FALSE
      OBVIOUS
    <3> DEFINE p == (y + o) - x
    <3> HIDE DEF x, y, s, n
    <3>1. p \in 0 .. (s + n) - 1 /\ x + p = y + o
      BY <1>0, <1>1, <1>3
    <3> QED
      BY <1>4, <1>9, <3>1
  <2> HIDE DEF x, s, n
  <2> QED
    BY <1>4, <1>5, <1>7, <1>9, <2>1 DEF y
<1> QED
  BY <1>8, <1>9

LEMMA IsExtension ==
    ASSUME NEW S, NEW t \in Seq(S), NEW buf \in Seq(S), NEW u \in Seq(S),
           Len(u) = Len(t) + Len(buf),
           \A k \in 1 .. Len(u) : u[k] = IF k <= Len(t) THEN t[k] ELSE buf[k - Len(t)]
    PROVE  u = t \o buf
BY SMTT(30)

(* The files after a write that stayed in the blocks of its file. *)
ExtendsIn(c, d, i, buf) ==
    d = [c EXCEPT ![i] = [name |-> c[i].name, contents |-> c[i].contents \o buf]]

LEMMA FilesOfStored ==
    ASSUME NEW c, FsShape(c), NEW i \in 1 .. Len(c.files), NEW buf \in Seq(Cell),
           NEW g, IsStored(g, c, i, buf), FsShape(g), NEW own, FsApart(g, own)
    PROVE  ExtendsIn(FilesOf(c), FilesOf(g), i, buf)
<1> DEFINE l == Len(c.files)
           s == c.files[i].size
           n == Len(buf)
           e == [name |-> c.files[i].name, size |-> c.files[i].size + Len(buf),
                 start |-> c.files[i].start]
<1>1. c.files \in Seq(FsEntry) /\ l \in Nat
  BY DEF FsShape
<1>2. s \in Nat /\ n \in Nat
  <2>1. s \in Nat
    BY EntryFields
  <2> QED
    BY <2>1
<1>3. g.files = [c.files EXCEPT ![i] = e]
  BY DEF IsStored
<1>4. e.name = c.files[i].name /\ e.size = s + n /\ e.start = c.files[i].start
  OBVIOUS
<1> HIDE DEF e
<1>5. /\ Len(g.files) = l /\ g.files[i] = e
      /\ \A j \in 1 .. l : j # i => g.files[j] = c.files[j]
  BY <1>1, <1>3
<1>6. \A j \in 1 .. l : g.files[j].name = c.files[j].name /\ g.files[j].start = c.files[j].start
  BY <1>4, <1>5
<1>7. g.files[i].size = s + n
  BY <1>4, <1>5
<1>8. ASSUME NEW j \in 1 .. l, j # i PROVE FileAt(g, j) = FileAt(c, j)
  <2> DEFINE z == c.files[j].size
             y == c.files[j].start * BLOCK_SIZE
  <2>1. z \in Nat /\ g.files[j].size = z
    BY <1>5, <1>8, EntryFields
  <2>2. c.files[j].start \in Metadata .. FsBlocks - 1
    BY EntryFields
  <2>3. y \in Int
    BY <2>2, FsConstants
  <2>4. \A o \in 0 .. z - 1 : g.data[y + o] = c.data[y + o]
    BY <1>5, <1>6, <1>7, <1>8, <2>1, PlaceAfterWrite
  <2>5. FileAt(g, j) = [k \in 1 .. z |-> g.data[y + k - 1]]
    BY <1>5, <1>8 DEF FileAt
  <2>6. FileAt(c, j) = [k \in 1 .. z |-> c.data[y + k - 1]]
    BY DEF FileAt
  <2> HIDE DEF z, y
  <2>7. \A k \in 1 .. z : k - 1 \in 0 .. z - 1 /\ y + (k - 1) = y + k - 1
    BY <1>2, <2>1, <2>3
  <2>8. \A k \in 1 .. z : g.data[y + k - 1] = c.data[y + k - 1]
    BY <2>4, <2>7
  <2> QED
    BY <2>5, <2>6, <2>8
<1>9. FileAt(g, i) = FileAt(c, i) \o buf
  <2> DEFINE y == c.files[i].start * BLOCK_SIZE
             t == FileAt(c, i)
             u == FileAt(g, i)
  <2>1. c.files[i].start \in Metadata .. FsBlocks - 1
    BY EntryFields
  <2>2. y \in Int
    BY <2>1, FsConstants
  <2>3. \A o \in 0 .. (s + n) - 1 :
           /\ c.data[y + o] \in Cell
           /\ g.data[y + o] = IF o \in s .. s + n - 1 THEN buf[o - s + 1] ELSE c.data[y + o]
    BY <1>5, <1>6, <1>7, PlaceAfterWrite
  <2>4. t = [k \in 1 .. s |-> c.data[y + k - 1]] /\ u = [k \in 1 .. s + n |-> g.data[y + k - 1]]
    BY <1>4, <1>5 DEF FileAt
  <2> HIDE DEF y, s, n, t, u
  <2>5. \A k \in 1 .. s + n :
           /\ k - 1 \in 0 .. (s + n) - 1 /\ y + (k - 1) = y + k - 1
           /\ (k - 1 \in s .. s + n - 1) <=> ~(k <= s)
           /\ (k - 1) - s + 1 = k - s
           /\ ~(k <= s) => k - s \in 1 .. n
    BY <1>2, <2>2
  <2>6. \A k \in 1 .. s + n :
           /\ c.data[y + k - 1] \in Cell
           /\ g.data[y + k - 1] = IF k <= s THEN c.data[y + k - 1] ELSE buf[k - s]
    BY <2>3, <2>5
  <2>7. \A k \in 1 .. s + n : ~(k <= s) => buf[k - s] \in Cell
    BY <2>5 DEF n
  <2>8. \A k \in 1 .. s : k \in 1 .. s + n
    BY <1>2
  <2>9. t \in Seq(Cell) /\ Len(t) = s /\ \A k \in 1 .. s : t[k] = c.data[y + k - 1]
    <3>1. t \in Seq(Cell)
      BY <1>2, <2>4, <2>6, <2>8
    <3> QED
      BY <1>2, <2>4, <3>1
  <2>10. \A k \in 1 .. s + n : g.data[y + k - 1] \in Cell
    BY <2>6, <2>7
  <2>11. u \in Seq(Cell) /\ Len(u) = s + n /\ \A k \in 1 .. s + n : u[k] = g.data[y + k - 1]
    <3>1. u \in Seq(Cell) /\ s + n \in Nat
      BY <1>2, <2>4, <2>10
    <3> QED
      BY <2>4, <3>1
  <2>12. \A k \in 1 .. s + n : u[k] = IF k <= s THEN t[k] ELSE buf[k - s]
    <3> SUFFICES ASSUME NEW k \in 1 .. s + n
                 PROVE  u[k] = IF k <= s THEN t[k] ELSE buf[k - s]
      OBVIOUS
    <3>1. u[k] = IF k <= s THEN c.data[y + k - 1] ELSE buf[k - s]
      BY <2>6, <2>11
    <3>2. k <= s => k \in 1 .. s
      BY <1>2
    <3> QED
      BY <2>9, <3>1, <3>2
  <2>13. Len(u) = Len(t) + Len(buf)
    BY <2>9, <2>11 DEF n
  <2>14. \A k \in 1 .. Len(u) : u[k] = IF k <= Len(t) THEN t[k] ELSE buf[k - Len(t)]
    BY <2>9, <2>11, <2>12
  <2> QED
    BY <2>9, <2>11, <2>13, <2>14, IsExtension DEF t, u
<1> DEFINE F == FilesOf(c)
           G == FilesOf(g)
           x == [name |-> F[i].name, contents |-> F[i].contents \o buf]
<1>10. F = [j \in 1 .. l |-> [name |-> c.files[j].name, contents |-> FileAt(c, j)]]
  BY DEF FilesOf
<1>11. G = [j \in 1 .. l |-> [name |-> g.files[j].name, contents |-> FileAt(g, j)]]
  BY <1>5 DEF FilesOf
<1>12. i \in 1 .. l
  OBVIOUS
<1> HIDE DEF F, G, l
<1>13. F[i].name = c.files[i].name /\ F[i].contents = FileAt(c, i)
  BY <1>10, <1>12
<1>14. G[i] = x
  BY <1>6, <1>9, <1>11, <1>12, <1>13
<1>15. \A j \in 1 .. l : j # i => G[j] = F[j]
  BY <1>6, <1>8, <1>10, <1>11
<1> HIDE DEF x
<1>16. G = [F EXCEPT ![i] = x]
  <2>1. G = [j \in 1 .. l |-> G[j]] /\ F = [j \in 1 .. l |-> F[j]]
    BY <1>10, <1>11
  <2> QED
    BY <1>12, <1>14, <1>15, <2>1
<1> QED
  BY <1>16 DEF F, G, x, ExtendsIn

(* Each step of the filesystem is one of the store, up to the first spill. *)
CreatesIn(c, d, name) ==
    /\ \A i \in DOMAIN c : c[i].name # name
    /\ d = Append(c, [name |-> FsKept[name], contents |-> <<>>])

DeletesIn(c, d, i) ==
    (\A j \in 1 .. i - 1 : c[j].name # c[i].name) /\ d = Without(c, i)

LEMMA FsStepRefines ==
    ASSUME FsInv, FsNext, ~spilled'
    PROVE  \/ \E name \in AllNames : CreatesIn(FilesOf(fs), FilesOf(fs'), name)
           \/ \E i \in DOMAIN FilesOf(fs) :
                 \/ DeletesIn(FilesOf(fs), FilesOf(fs'), i)
                 \/ \E buf \in Buffer : ExtendsIn(FilesOf(fs), FilesOf(fs'), i, buf)
           \/ FilesOf(fs') = FilesOf(fs)
<1>0. FsShape(fs) /\ FsShape(fs') /\ FsApart(fs', given')
  BY FsApartStep DEF FsInv
<1> DEFINE n == Len(fs.files)
<1>1. /\ n \in Nat /\ DOMAIN fs.files = 1 .. n /\ DOMAIN FilesOf(fs) = 1 .. n
      /\ \A i \in 1 .. n : FilesOf(fs)[i].name = fs.files[i].name
  BY <1>0 DEF FsShape, FilesOf
<1>2. ASSUME NEW name \in AllNames, MakesFile(name)
      PROVE  CreatesIn(FilesOf(fs), FilesOf(fs'), name)
  <2>1. FsKept[name] \in AllNames /\ FreeBlocks(fs) # {}
    BY <1>2, FileSystemAssumption DEF MakesFile, CanCreate
  <2>2. \A i \in 1 .. n : fs.files[i].name # name
    BY <1>1, <1>2 DEF MakesFile, CanCreate, Named
  <2>3. FilesOf(Created(fs, FsKept[name])) =
            Append(FilesOf(fs), [name |-> FsKept[name], contents |-> <<>>])
    BY <1>0, <2>1, FilesOfCreated
  <2> QED
    BY <1>1, <1>2, <2>2, <2>3 DEF CreatesIn, MakesFile
<1>3. ASSUME NEW i \in 1 .. n, RemovesFile(i)
      PROVE  DeletesIn(FilesOf(fs), FilesOf(fs'), i)
  <2>1. FilesOf(Deleted(fs, i)) = Without(FilesOf(fs), i)
    BY <1>0, FilesOfDeleted
  <2>2. \A j \in 1 .. i - 1 : j \in 1 .. n
    BY <1>1
  <2>3. \A j \in 1 .. i - 1 : FilesOf(fs)[j].name # FilesOf(fs)[i].name
    BY <1>1, <1>3, <2>2 DEF RemovesFile
  <2> QED
    BY <1>3, <2>1, <2>3 DEF DeletesIn, RemovesFile
<1>4. ASSUME NEW i \in 1 .. n, NEW buf \in Buffer, WritesFile(i, buf)
      PROVE  ExtendsIn(FilesOf(fs), FilesOf(fs'), i, buf) \/ FilesOf(fs') = FilesOf(fs)
  <2> DEFINE c == Claimed(fs, i, buf)
             g == Stored(c, i, buf)
  <2>1. c.files = fs.files /\ c.data = fs.data /\ FsShape(c)
    BY <1>0, ClaimedFacts
  <2>2. fs' = c \/ fs' = g
    BY <1>4 DEF FsWritten, WritesFile
  <2> HIDE DEF c
  <2>3. FilesOf(c) = FilesOf(fs)
    BY <2>1, FilesOfSame
  <2>4. CASE fs' = c
    BY <2>3, <2>4
  <2>5. CASE fs' = g
    <3>1. buf \in Seq(Cell) /\ i \in 1 .. Len(c.files)
      BY <2>1, FsConstants
    <3>2. IsStored(g, c, i, buf)
      BY <2>1, <3>1, StoredFacts
    <3>3. FsShape(g) /\ FsApart(g, given')
      BY <1>0, <2>5
    <3> HIDE DEF g
    <3>a. PICK own : FsApart(g, own)
      BY <3>3
    <3>4. ExtendsIn(FilesOf(c), FilesOf(g), i, buf)
      BY <2>1, <3>1, <3>2, <3>3, <3>a, FilesOfStored
    <3> QED
      BY <2>3, <2>5, <3>4
  <2> QED
    BY <2>2, <2>4, <2>5
<1> QED
  BY <1>0, <1>1, <1>2, <1>3, <1>4, FsSteps

(* The table, the bitmap and the data implement the append store up to the first spill: a
   file reads back as what was appended to it, over any number of blocks, through the
   creation, the extension and the deletion of others and through writes that run out of
   space. *)
THEOREM FsImplementsAppendStore == FsSpec => ImplementsAppendStore
<1>1. FsInv /\ [FsNext]_filesystemVars => [spilled' \/ FsStore!Next]_FsFiles
  <2> SUFFICES ASSUME FsInv, [FsNext]_filesystemVars, ~spilled'
               PROVE  FsStore!Next \/ UNCHANGED FsFiles
    OBVIOUS
  <2>1. FsFiles = FilesOf(fs) /\ FsFiles' = FilesOf(fs')
    BY DEF FsFiles, FsContents, FilesOf, FileAt
  <2>2. CASE FsNext
    <3>1. ASSUME NEW name \in AllNames, CreatesIn(FsFiles, FsFiles', name)
          PROVE  FsStore!Create(name)
      BY <3>1 DEF CreatesIn, FsStore!Create
    <3>2. ASSUME NEW i \in DOMAIN FsFiles, DeletesIn(FsFiles, FsFiles', i)
          PROVE  FsStore!Delete(i)
      BY <3>2 DEF DeletesIn, FsStore!Delete, Without
    <3>3. ASSUME NEW i \in DOMAIN FsFiles, NEW buf \in Buffer, ExtendsIn(FsFiles, FsFiles', i, buf)
          PROVE  FsStore!Extend(i, buf)
      BY <3>3 DEF ExtendsIn, FsStore!Extend
    <3>4. \/ \E name \in AllNames : CreatesIn(FsFiles, FsFiles', name)
          \/ \E i \in DOMAIN FsFiles :
                \/ DeletesIn(FsFiles, FsFiles', i)
                \/ \E buf \in Buffer : ExtendsIn(FsFiles, FsFiles', i, buf)
          \/ FsFiles' = FsFiles
      BY <2>1, <2>2, FsStepRefines
    <3> QED
      BY <3>1, <3>2, <3>3, <3>4 DEF FsStore!Next
  <2>3. CASE UNCHANGED filesystemVars
    BY <2>1, <2>3 DEF filesystemVars
  <2> QED
    BY <2>2, <2>3
<1> QED
  BY <1>1, FsInvAlways, PTL DEF FsSpec, ImplementsAppendStore

-----------------------------------------------------------------------------
(* The filesystems together: each sees its own steps only. *)
LEMMA StorageComponents == StorageSpec => Spec /\ FsSpec /\ VfsSpec
<1>1. StorageInit => Init /\ FsInit /\ VfsInit
  BY DEF StorageInit
<1>2. [StorageNext]_<<vars, filesystemVars, vfsVars>> =>
          [Next]_vars /\ [FsNext]_filesystemVars /\ [VfsNext]_vfsVars
  BY DEF StorageNext, ramfs_steps, filesystem_steps, vfs_steps
<1> QED
  BY <1>1, <1>2, PTL DEF StorageSpec, Spec, FsSpec, VfsSpec

(* The heap position, the table of files, the bitmap and the descriptors stay in their
   ranges, in every filesystem. *)
THEOREM StorageTypeCorrect ==
    ASSUME Modest, CountsFit
    PROVE  StorageSpec => []StorageTypeOK
<1>1. Spec => []TypeOK
  BY FilesStayInSlotsAlways, PTL
<1>2. VfsSpec => []VfsTypeOK
  BY ReadsDeliverSampleAlways, PTL
<1>3. TypeOK /\ FsTypeOK /\ VfsTypeOK => StorageTypeOK
  BY DEF StorageTypeOK
<1> QED
  BY <1>1, <1>2, <1>3, FsTypeCorrect, StorageComponents, PTL
=============================================================================
