--------------------------- MODULE KernelProofs ---------------------------
(***************************************************************************)
(* The composed kernel: the boot sequence, the program loader and the      *)
(* scheduler they run on.                                                  *)
(***************************************************************************)
EXTENDS Kernel, SchedulerProofs

-----------------------------------------------------------------------------
(* The boot sequence: what kmain has set up by the step it is at. *)

BootSteps == {"idt_init", "timer_init", "syscall_init", "keyboard_init", "command_byte", "enable_irq",
              "shell_init", "sti", "shell"}

BootInv ==
    /\ ~halted
    /\ boot \in BootSteps
    /\ sti => boot = "shell"
    /\ boot # "idt_init" =>
          /\ base = 32 /\ gates = 0 .. 47
          /\ 0 \notin mask => 32 \in handlers
          /\ 1 \notin mask => 33 \in handlers
    /\ boot \in {"command_byte", "enable_irq", "shell_init", "sti", "shell"} => 33 \in handlers

LEMMA BootNextInv ==
    BootInv /\ [KernelNext]_kernelVars => BootInv'
<1> SUFFICES ASSUME BootInv, [KernelNext]_kernelVars PROVE BootInv'
  OBVIOUS
<1>1. CASE idt_init
  BY <1>1 DEF idt_init, Step, BootInv, BootSteps, Irq
<1>2. CASE timer_init
  BY <1>2 DEF timer_init, Step, BootInv, BootSteps
<1>3. CASE syscall_init
  BY <1>3 DEF syscall_init, Step, BootInv, BootSteps
<1>4. CASE keyboard_init
  BY <1>4 DEF keyboard_init, Step, BootInv, BootSteps
<1>4a. CASE command_byte
  BY <1>4a DEF command_byte, Step, BootInv, BootSteps
<1>5. CASE enable_irq
  BY <1>5 DEF enable_irq, Step, BootInv, BootSteps
<1>6. CASE shell_init
  BY <1>6 DEF shell_init, Step, BootInv, BootSteps
<1>7. CASE sti_shell_run
  BY <1>7 DEF sti_shell_run, Step, BootInv, BootSteps
<1>8. ASSUME NEW i \in Irq, irq_handler(i) PROVE BootInv'
  <2>1. base = 32
    BY <1>8 DEF irq_handler, BootInv
  <2>2. base + i \in 32 .. 47
    BY <2>1 DEF Irq
  <2>3. ~halted' /\ UNCHANGED <<boot, sti, base, mask, gates, handlers>>
    BY <1>8, <2>2 DEF irq_handler
  <2> QED
    BY <2>3 DEF BootInv
<1>9. CASE pit_tick \/ key_press \/ UNCHANGED bootVars
  BY <1>9 DEF pit_tick, key_press, bootVars, BootInv
<1>10. 0 \in Irq /\ 1 \in Irq
  BY DEF Irq
<1> QED
  BY <1>1, <1>2, <1>3, <1>4, <1>4a, <1>5, <1>6, <1>7, <1>8, <1>9, <1>10
     DEF KernelNext, kernelVars, booting, kmain, pit, keyboard, timer_irq, keyboard_irq,
         executing, yielding, exiting, InShell

LEMMA BootExpects == BootInv => IrqsAreExpected
<1> SUFFICES ASSUME BootInv PROVE IrqsAreExpected
  OBVIOUS
<1>1. ASSUME sti, NEW i \in Irq \ mask PROVE base + i \in gates \cap handlers
  <2>1. base = 32 /\ gates = 0 .. 47 /\ (0 \notin mask => 32 \in handlers)
        /\ (1 \notin mask => 33 \in handlers)
    BY <1>1 DEF BootInv
  <2>2. CASE i = 0
    BY <2>1, <2>2
  <2>3. CASE i = 1
    BY <2>1, <2>3
  <2> QED
    BY <2>2, <2>3 DEF Irq
<1> QED
  BY <1>1 DEF BootInv, IrqsAreExpected

(* Through the whole boot and ever after no device interrupt finds a missing gate, a
   missing handler or the vector of an exception. *)
THEOREM IrqsAreExpectedAlways == KernelSpec => []IrqsAreExpected
<1>1. KernelInit => BootInv
  BY DEF KernelInit, BootInit, BootInv, BootSteps
<1> QED
  BY <1>1, BootNextInv, BootExpects, PTL DEF KernelSpec

-----------------------------------------------------------------------------
(* The kernel runs the scheduler by its specification, so what is proved of the
   scheduler holds of the kernel. *)

THEOREM KernelImplementsScheduler == KernelSpec => Spec
<1>1. KernelInit => Init
  BY DEF KernelInit, LoaderInit
<1>2. [KernelNext]_kernelVars => [Next]_vars
  <2> SUFFICES ASSUME [KernelNext]_kernelVars PROVE Next \/ UNCHANGED vars
    OBVIOUS
  <2>1. TRUE \in EntryArg
    BY DEF EntryArg
  <2>2. CASE executing
    BY <2>1, <2>2
       DEF executing, program_execute, load_headers, load_segment, load_done, execute_no_stack,
           alloc_stack, create_process, creating_process, create_fails, program_cleanup, Next
  <2>3. CASE booting \/ pit \/ keyboard \/ keyboard_irq
    BY <2>3 DEF booting, pit, keyboard, keyboard_irq
  <2>4. CASE timer_irq \/ yielding \/ exiting
    BY <2>4 DEF timer_irq, yielding, exiting, Scheduling, Next
  <2>5. CASE UNCHANGED kernelVars
    BY <2>5 DEF kernelVars
  <2> QED
    BY <2>2, <2>3, <2>4, <2>5 DEF KernelNext
<1> QED
  BY <1>1, <1>2, PTL DEF KernelSpec, Spec

(* The booted kernel, whose loader is the only creator, keeps the scheduler's promises
   while programs are loaded and interrupts strike, inside process_create too: only the
   slot of an unfinished creation has no live thread, no other thread is lost, and every
   used slot is within reach. *)
THEOREM KernelKeepsThreads ==
    ASSUME KernelCreates
    PROVE  KernelSpec => /\ [](ExitNeverReturns /\ UsedSlotsBelowNextPid /\ ReadyHasContext)
                         /\ LiveThreadsKept
<1>1. Spec => LiveThreadsKept
  BY LiveThreadsKeptAlways
<1>2. Spec => []ExitNeverReturns
  BY ExitNeverReturnsAlways
<1>3. Spec => []UsedSlotsBelowNextPid
  BY UsedSlotsBelowNextPidAlways
<1>4. Spec => []ReadyHasContext
  BY ReadyHasContextAlways
<1> QED
  BY <1>1, <1>2, <1>3, <1>4, KernelImplementsScheduler, PTL

-----------------------------------------------------------------------------
(* The loader. *)

LEMMA LoaderConstants ==
    /\ MAX_PROGRAM_SIZE \in Nat \ {0} /\ WordUnits \in Nat \ {0} /\ PageUnits \in Nat \ {0}
    /\ StackUnits \in Nat \ {0} /\ ProgramWord \in Nat \ {0}
    /\ HeaderUnits \subseteq 0 .. ProgramWord - 1 /\ SegmentUnits \subseteq 0 .. ProgramWord - 1
    /\ MAX_PROGRAM_SIZE % WordUnits = 0 /\ MAX_PROGRAM_SIZE % PageUnits = 0
    /\ MAX_PROGRAM_SIZE + StackUnits < ProgramWord /\ MAX_PROGRAM_SIZE < ProgramWord
BY LoaderAssumption

(* Sums and differences of two uint32_t values. *)
LEMMA WordWraps ==
    ASSUME NEW n \in Nat \ {0}, NEW a \in 0 .. n - 1, NEW b \in 0 .. n - 1
    PROVE  /\ (a + b) % n = IF a + b < n THEN a + b ELSE a + b - n
           /\ (a - b) % n = IF a - b < 0 THEN a - b + n ELSE a - b
OBVIOUS

LEMMA WordRange ==
    ASSUME NEW n \in Nat \ {0}, NEW z \in Int
    PROVE  z % n \in 0 .. n - 1
OBVIOUS

LEMMA TimesMonotone ==
    ASSUME NEW k \in Nat \ {0}, NEW q \in Nat, NEW m \in Nat, k * q < k * m + k
    PROVE  k * q <= k * m
<1>1. q <= m
  <2> SUFFICES ASSUME q >= m + 1 PROVE FALSE
    OBVIOUS
  <2>1. k * (m + 1) = k * m + k /\ k * q \in Nat /\ k * m \in Nat
    OBVIOUS
  <2>2. q - (m + 1) \in Nat
    OBVIOUS
  <2>3. k * (q - (m + 1)) >= 0 /\ k * (q - (m + 1)) = k * q - k * (m + 1)
    BY <2>2
  <2> QED
    BY <2>1, <2>3
<1>2. m - q \in Nat
  BY <1>1
<1>3. k * (m - q) >= 0 /\ k * (m - q) = k * m - k * q /\ k * q \in Nat /\ k * m \in Nat
  BY <1>2
<1> QED
  BY <1>3

(* Rounding up to an alignment that divides the size of the memory stays within it. *)
LEMMA AlignUpBetween ==
    ASSUME NEW a \in Nat, NEW k \in Nat \ {0}, NEW max \in Nat, max % k = 0, a <= max
    PROVE  AlignUp(a, k) \in Nat /\ a <= AlignUp(a, k) /\ AlignUp(a, k) <= max
<1> DEFINE x == a + k - 1
           q == x \div k
           m == max \div k
<1>1. x \in Nat
  OBVIOUS
<1>2. x = k * q + (x % k) /\ x % k \in 0 .. k - 1 /\ q \in Nat
  <2> HIDE DEF x
  <2> QED
    BY <1>1
<1>2a. max = k * m /\ m \in Nat
  OBVIOUS
<1>3. AlignUp(a, k) = q * k
  BY DEF AlignUp
<1> HIDE DEF q, m
<1>4. q * k = k * q /\ q * k \in Nat
  BY <1>2
<1>5. k * q = a + k - 1 - (x % k) /\ x % k \in Int
  BY <1>1, <1>2
<1>6. k * q >= a
  BY <1>2, <1>5
<1>7. k * q < k * m + k
  BY <1>2, <1>2a, <1>5
<1>8. k * q <= max
  BY <1>2, <1>2a, <1>7, TimesMonotone
<1> QED
  BY <1>3, <1>4, <1>6, <1>8

Regions == [start : 0 .. MAX_PROGRAM_SIZE, size : 0 .. ProgramWord - 1]

(* Giving back a region never takes the allocation pointer out of the memory. *)
LEMMA FreedWithin ==
    ASSUME NEW used \in 0 .. MAX_PROGRAM_SIZE, NEW region \in Regions
    PROVE  /\ Freed(region, used) \in 0 .. MAX_PROGRAM_SIZE
           /\ region.start + region.size < ProgramWord =>
                Freed(region, used) = IF region.start + region.size = used
                                      THEN region.start ELSE used
<1> DEFINE b == region.start
           z == region.size
           w == ProgramWord
<1>1. /\ b \in 0 .. MAX_PROGRAM_SIZE /\ z \in 0 .. w - 1 /\ w \in Nat \ {0}
      /\ MAX_PROGRAM_SIZE \in Nat /\ MAX_PROGRAM_SIZE < w
  BY LoaderConstants DEF Regions
<1>2. Freed(region, used) = IF (b + z) % w = used THEN (used - z) % w ELSE used
  BY DEF Freed
<1> HIDE DEF b, z, w
<1>3. b \in 0 .. w - 1 /\ used \in 0 .. w - 1 /\ z \in 0 .. w - 1
  BY <1>1
<1>4. (b + z) % w = IF b + z < w THEN b + z ELSE b + z - w
  BY <1>1, <1>3, WordWraps
<1>5. (used - z) % w = IF used - z < 0 THEN used - z + w ELSE used - z
  BY <1>1, <1>3, WordWraps
<1>6. (b + z) % w = used => (used - z) % w = b
  BY <1>1, <1>4, <1>5
<1>7. Freed(region, used) = IF (b + z) % w = used THEN b ELSE used
  BY <1>2, <1>6
<1>8. Freed(region, used) \in 0 .. MAX_PROGRAM_SIZE
  BY <1>1, <1>7
<1>9. b + z < w => Freed(region, used) = IF b + z = used THEN b ELSE used
  BY <1>4, <1>7
<1> QED
  BY <1>8, <1>9 DEF b, z, w

(* What is being loaded, with the allocation pointer at used: the regions lie below it,
   apart from each other and above the header table, which was allocated first.  So the
   header table is the last region, and is given back, only when nothing lies above it. *)
Intact(used, phdrs, regions) ==
    /\ Units(phdrs) \subseteq 0 .. used - 1
    /\ \A i \in 1 .. Len(regions) : Units(regions[i]) \subseteq 0 .. used - 1
    /\ \A i, j \in 1 .. Len(regions) : i # j => Units(regions[i]) \cap Units(regions[j]) = {}
    /\ \A i \in 1 .. Len(regions) : \A u \in Units(regions[i]) : \A v \in Units(phdrs) : v < u

LEMMA IntactAppend ==
    ASSUME NEW used \in Nat, NEW phdrs, NEW regions \in Seq(Regions),
           Intact(used, phdrs, regions), NEW region \in Regions, used <= region.start
    PROVE  /\ Append(regions, region) \in Seq(Regions)
           /\ Intact(region.start + region.size, phdrs, Append(regions, region))
<1> DEFINE start == region.start
           size == region.size
           new == Units(region)
           all == Append(regions, region)
           top == start + size
<1>0. start \in Nat /\ size \in Nat
  BY LoaderConstants DEF Regions
<1>1. \A u \in new : u \in Nat /\ start <= u /\ u < start + size
  BY <1>0 DEF Units
<1>2. \A u \in 0 .. used - 1 : u \in Nat /\ u < start /\ u \in 0 .. top - 1
  BY <1>0
<1>3. new \subseteq 0 .. top - 1
  BY <1>0 DEF Units
<1> HIDE DEF new, top, start, size
<1>4. /\ all \in Seq(Regions) /\ Len(all) = Len(regions) + 1 /\ Len(regions) \in Nat
      /\ \A i \in 1 .. Len(regions) : all[i] = regions[i]
      /\ all[Len(regions) + 1] = region
  OBVIOUS
<1> HIDE DEF all
<1>5. \A i \in 1 .. Len(all) : i \in 1 .. Len(regions) \/ i = Len(regions) + 1
  BY <1>4
<1>6. \A i \in 1 .. Len(regions) : Units(all[i]) \subseteq 0 .. used - 1
  BY <1>4 DEF Intact
<1>6a. Units(all[Len(regions) + 1]) = new
  BY <1>4 DEF new
<1>7. Units(phdrs) \subseteq 0 .. used - 1
  BY DEF Intact
<1>8. Units(phdrs) \subseteq 0 .. top - 1
  BY <1>2, <1>7
<1>9. \A i \in 1 .. Len(all) : Units(all[i]) \subseteq 0 .. top - 1
  BY <1>2, <1>3, <1>5, <1>6, <1>6a
<1>10. \A i \in 1 .. Len(regions) : Units(all[i]) \cap new = {}
  <2> SUFFICES ASSUME NEW i \in 1 .. Len(regions), NEW u \in Units(all[i]), u \in new PROVE FALSE
    OBVIOUS
  <2>1. u < start /\ u \in Nat
    BY <1>2, <1>6
  <2>2. start <= u
    BY <1>1
  <2> QED
    BY <1>0, <2>1, <2>2
<1>11. ASSUME NEW i \in 1 .. Len(all), NEW j \in 1 .. Len(all), i # j
       PROVE  Units(all[i]) \cap Units(all[j]) = {}
  <2>1. CASE i \in 1 .. Len(regions) /\ j \in 1 .. Len(regions)
    BY <1>4, <1>11, <2>1 DEF Intact
  <2>2. CASE i = Len(regions) + 1 /\ j \in 1 .. Len(regions)
    BY <1>6a, <1>10, <2>2
  <2>3. CASE j = Len(regions) + 1 /\ i \in 1 .. Len(regions)
    BY <1>6a, <1>10, <2>3
  <2> QED
    BY <1>5, <1>11, <2>1, <2>2, <2>3
<1>12. ASSUME NEW i \in 1 .. Len(all), NEW u \in Units(all[i]), NEW v \in Units(phdrs) PROVE v < u
  <2>1. CASE i \in 1 .. Len(regions)
    BY <1>4, <2>1 DEF Intact
  <2>2. CASE i = Len(regions) + 1
    <3>1. u \in Nat /\ start <= u
      BY <1>1, <1>6a, <2>2
    <3>2. v \in Nat /\ v < start
      BY <1>2, <1>7
    <3> QED
      BY <1>0, <3>1, <3>2
  <2> QED
    BY <1>5, <2>1, <2>2
<1>13. Intact(top, phdrs, all)
  BY <1>8, <1>9, <1>11, <1>12 DEF Intact
<1> QED
  BY <1>4, <1>13 DEF all, top, start, size

(* Giving back the header table leaves the rest intact. *)
LEMMA IntactFree ==
    ASSUME NEW used \in 0 .. MAX_PROGRAM_SIZE, NEW phdrs \in Regions, NEW regions \in Seq(Regions),
           Intact(used, phdrs, regions)
    PROVE  Intact(Freed(phdrs, used), NoRegion, regions)
<1> DEFINE b == phdrs.start
           z == phdrs.size
           f == Freed(phdrs, used)
<1>0. /\ b \in 0 .. MAX_PROGRAM_SIZE /\ z \in 0 .. ProgramWord - 1 /\ used \in Nat
      /\ MAX_PROGRAM_SIZE \in Nat /\ MAX_PROGRAM_SIZE < ProgramWord /\ ProgramWord \in Nat
  BY LoaderConstants DEF Regions
<1>1. Units(phdrs) = b .. b + z - 1
  BY DEF Units
<1>2. b + z < ProgramWord => f = IF b + z = used THEN b ELSE used
  BY FreedWithin
<1>2a. Units(NoRegion) = {}
  BY DEF Units, NoRegion
<1> HIDE DEF b, z, f
<1>3. z > 0 => b + z <= used
  <2> SUFFICES ASSUME z > 0 PROVE b + z <= used
    OBVIOUS
  <2>1. b + z - 1 \in Units(phdrs)
    BY <1>0, <1>1
  <2>2. b + z - 1 \in 0 .. used - 1
    BY <2>1 DEF Intact
  <2> QED
    BY <1>0, <2>2
<1>4. f = IF b + z = used THEN b ELSE used
  BY <1>0, <1>2, <1>3
<1>5. CASE f = used
  BY <1>2a, <1>5 DEF Intact, f
<1>6. CASE f # used
  <2>1. f = b /\ z > 0 /\ b + z = used
    BY <1>0, <1>4, <1>6
  <2>2. used - 1 \in Units(phdrs)
    BY <1>0, <1>1, <2>1
  <2>3. ASSUME NEW i \in 1 .. Len(regions) PROVE Units(regions[i]) = {}
    <3> SUFFICES ASSUME NEW u \in Units(regions[i]) PROVE FALSE
      OBVIOUS
    <3>1. u \in 0 .. used - 1 /\ used - 1 < u
      BY <2>2 DEF Intact
    <3> QED
      BY <1>0, <3>1
  <2> QED
    BY <1>2a, <2>3 DEF Intact, f
<1> QED
  BY <1>5, <1>6

LoadRecord ==
    [at : {"idle", "segments", "execute", "create", "cleanup"}, left : Nat,
     phdrs : Regions, regions : Seq(Regions), wrapped : BOOLEAN]

Loading == load.at \in {"segments", "execute", "create"}

LoaderInv ==
    /\ program_memory_used \in 0 .. MAX_PROGRAM_SIZE
    /\ load \in LoadRecord
    /\ Loading /\ ~load.wrapped => Intact(program_memory_used, load.phdrs, load.regions)
    /\ load.at = "create" => Len(load.regions) # 0

LEMMA NotLoadingIsRecord ==
    /\ NotLoading \in LoadRecord /\ NotLoading.at = "idle"
    /\ Loaded \in LoadRecord /\ Loaded.at = "cleanup"
<1>1. NoRegion \in Regions /\ <<>> \in Seq(Regions)
  BY LoaderConstants DEF NoRegion, Regions
<1> QED
  BY <1>1 DEF NotLoading, Loaded, LoadRecord

(* A region that fits lies above everything allocated, inside program_memory unless the
   sum wrapped around. *)
LEMMA RegionFacts ==
    ASSUME program_memory_used \in 0 .. MAX_PROGRAM_SIZE,
           NEW alignment \in Nat \ {0}, MAX_PROGRAM_SIZE % alignment = 0,
           NEW size \in 0 .. ProgramWord - 1, Fits(size, alignment)
    PROVE  /\ Region(size, alignment) \in Regions
           /\ Region(size, alignment).start = Start(alignment)
           /\ Region(size, alignment).size = size
           /\ Start(alignment) \in Nat /\ program_memory_used <= Start(alignment)
           /\ End(size, alignment) \in 0 .. MAX_PROGRAM_SIZE
           /\ Start(alignment) + size < ProgramWord => End(size, alignment) = Start(alignment) + size
<1> DEFINE b == Start(alignment)
<1>1. program_memory_used \in Nat /\ MAX_PROGRAM_SIZE \in Nat /\ ProgramWord \in Nat \ {0}
      /\ MAX_PROGRAM_SIZE < ProgramWord /\ program_memory_used <= MAX_PROGRAM_SIZE
  BY LoaderConstants
<1>2. b \in Nat /\ program_memory_used <= b /\ b <= MAX_PROGRAM_SIZE
  BY <1>1, AlignUpBetween DEF Start
<1>3. End(size, alignment) = (b + size) % ProgramWord
      /\ Region(size, alignment) = [start |-> b, size |-> size]
      /\ End(size, alignment) <= MAX_PROGRAM_SIZE
  BY DEF End, Region, Fits
<1> HIDE DEF b
<1>4. b \in 0 .. ProgramWord - 1 /\ b + size \in Int
  BY <1>1, <1>2
<1>5. (b + size) % ProgramWord \in 0 .. ProgramWord - 1
  BY <1>1, <1>4, WordRange
<1>6. b + size < ProgramWord => (b + size) % ProgramWord = b + size
  BY <1>1, <1>2, <1>4, WordWraps
<1>7. End(size, alignment) \in 0 .. MAX_PROGRAM_SIZE
  BY <1>1, <1>3, <1>5
<1>8. [start |-> b, size |-> size] \in Regions
  BY <1>1, <1>2 DEF Regions
<1> QED
  BY <1>2, <1>3, <1>6, <1>7, <1>8 DEF b

LEMMA LoadHeadersInv ==
    ASSUME LoaderInv, NEW ph_size \in HeaderUnits, NEW phnum \in 0 .. MaxSegments,
           load_headers(ph_size, phnum)
    PROVE  LoaderInv'
<1> DEFINE table == Region(ph_size, WordUnits)
           top == End(ph_size, WordUnits)
           w == Wraps(ph_size, WordUnits)
           b == Start(WordUnits)
<1>0. Fits(ph_size, WordUnits) /\ ph_size \in 0 .. ProgramWord - 1 /\ phnum \in Nat
      /\ ProgramWord \in Nat
  BY LoaderConstants, LoaderAssumption DEF load_headers
<1>1. /\ table \in Regions /\ table.start = b /\ table.size = ph_size /\ b \in Nat
      /\ top \in 0 .. MAX_PROGRAM_SIZE /\ (b + ph_size < ProgramWord => top = b + ph_size)
  BY <1>0, RegionFacts, LoaderConstants DEF LoaderInv
<1>1a. w \in BOOLEAN /\ (~w => b + ph_size < ProgramWord)
  BY <1>0, <1>1 DEF Wraps
<1>2. \/ /\ program_memory_used' = top
         /\ load' = [at |-> "segments", left |-> phnum, phdrs |-> table, regions |-> <<>>,
                     wrapped |-> w]
      \/ program_memory_used' = Freed(table, top) /\ load' = load
  BY DEF load_headers
<1>3. load.at = "idle" /\ load \in LoadRecord
  BY DEF load_headers, LoaderRuns, LoaderInv
<1> HIDE DEF table, top, w, b
<1>4. CASE /\ program_memory_used' = top
           /\ load' = [at |-> "segments", left |-> phnum, phdrs |-> table, regions |-> <<>>,
                       wrapped |-> w]
  <2>1. <<>> \in Seq(Regions)
    OBVIOUS
  <2>2. load' \in LoadRecord /\ load'.at = "segments" /\ load'.phdrs = table
        /\ load'.regions = <<>> /\ load'.wrapped = w
    BY <1>0, <1>1, <1>1a, <1>4, <2>1 DEF LoadRecord
  <2>3. ASSUME ~w PROVE Intact(top, table, <<>>)
    <3>1. top = b + ph_size
      BY <1>1, <1>1a, <2>3
    <3>2. Units(table) \subseteq 0 .. top - 1
      BY <1>0, <1>1, <3>1 DEF Units
    <3> QED
      BY <3>2 DEF Intact
  <2> QED
    BY <1>1, <1>4, <2>2, <2>3 DEF LoaderInv, Loading
<1>5. CASE program_memory_used' = Freed(table, top) /\ load' = load
  <2>1. Freed(table, top) \in 0 .. MAX_PROGRAM_SIZE
    BY <1>1, FreedWithin
  <2> QED
    BY <1>3, <1>5, <2>1 DEF LoaderInv, Loading
<1> QED
  BY <1>2, <1>4, <1>5

LEMMA LoadSegmentInv ==
    ASSUME LoaderInv, NEW vaddr \in SegmentUnits, NEW memsz \in SegmentUnits,
           load_segment(vaddr, memsz)
    PROVE  LoaderInv'
<1> DEFINE size == SegmentSize(vaddr, memsz)
           b == Start(PageUnits)
           new == Region(size, PageUnits)
           top == End(size, PageUnits)
           w == load.wrapped \/ vaddr + memsz >= ProgramWord \/ Wraps(size, PageUnits)
           used == program_memory_used
           all == Append(load.regions, new)
<1>0. load.at = "segments" /\ load.left > 0 /\ load \in LoadRecord
      /\ used \in Nat /\ used \in 0 .. MAX_PROGRAM_SIZE
  BY LoaderConstants DEF load_segment, LoaderRuns, LoaderInv
<1>1. load.regions \in Seq(Regions) /\ load.left \in Nat /\ load.phdrs \in Regions
      /\ (~load.wrapped => Intact(used, load.phdrs, load.regions))
  BY <1>0 DEF LoadRecord, LoaderInv, Loading
<1>1a. size \in 0 .. ProgramWord - 1
  <2>1. vaddr + memsz \in Int /\ ProgramWord \in Nat \ {0}
    BY LoaderConstants
  <2> QED
    BY <2>1, WordRange DEF SegmentSize
<1>2. \/ /\ Fits(size, PageUnits)
         /\ used' = top
         /\ load' = [load EXCEPT !.left = load.left - 1, !.regions = all, !.wrapped = w]
      \/ used' = Freed(load.phdrs, used) /\ load' = NotLoading
      \/ /\ Fits(size, PageUnits)
         /\ used' = Freed(load.phdrs, top) /\ load' = NotLoading
  BY DEF load_segment
<1>3. ASSUME Fits(size, PageUnits)
      PROVE  /\ new \in Regions /\ new.start = b /\ new.size = size /\ b \in Nat /\ used <= b
             /\ top \in 0 .. MAX_PROGRAM_SIZE /\ (b + size < ProgramWord => top = b + size)
  BY <1>0, <1>1a, <1>3, RegionFacts, LoaderConstants
<1>3a. ASSUME b \in Nat PROVE ~w => ~load.wrapped /\ b + size < ProgramWord
  <2>1. ProgramWord \in Nat /\ size \in Nat
    BY <1>1a, LoaderConstants
  <2>2. ~Wraps(size, PageUnits) => b + size < ProgramWord
    BY <1>3a, <2>1 DEF Wraps
  <2> QED
    BY <2>2
<1>3b. w \in BOOLEAN
  OBVIOUS
<1> HIDE DEF size, b, new, top, w
<1>4. CASE /\ Fits(size, PageUnits)
           /\ used' = top
           /\ load' = [load EXCEPT !.left = load.left - 1, !.regions = all, !.wrapped = w]
  <2>1. all \in Seq(Regions)
    BY <1>1, <1>3, <1>4
  <2>2. ASSUME ~w PROVE Intact(top, load.phdrs, all)
    <3>1. Intact(b + size, load.phdrs, all)
      BY <1>0, <1>1, <1>3, <1>3a, <1>4, <2>2, IntactAppend
    <3> QED
      BY <1>3, <1>3a, <1>4, <2>2, <3>1
  <2>3. load.left - 1 \in Nat
    BY <1>0, <1>1
  <2> HIDE DEF all
  <2>4. load' \in LoadRecord /\ load'.at = load.at /\ load'.phdrs = load.phdrs
        /\ load'.regions = all /\ load'.wrapped = w
    BY <1>0, <1>3b, <1>4, <2>1, <2>3 DEF LoadRecord
  <2> QED
    BY <1>0, <1>3, <1>4, <2>2, <2>4 DEF LoaderInv, Loading
<1>5. ASSUME used' \in 0 .. MAX_PROGRAM_SIZE, load' = NotLoading PROVE LoaderInv'
  BY <1>5, NotLoadingIsRecord DEF LoaderInv, Loading
<1>6. CASE used' = Freed(load.phdrs, used) /\ load' = NotLoading
  <2>1. Freed(load.phdrs, used) \in 0 .. MAX_PROGRAM_SIZE
    BY <1>0, <1>1, FreedWithin
  <2> QED
    BY <1>5, <1>6, <2>1
<1>7. CASE Fits(size, PageUnits) /\ used' = Freed(load.phdrs, top) /\ load' = NotLoading
  <2>1. Freed(load.phdrs, top) \in 0 .. MAX_PROGRAM_SIZE
    BY <1>1, <1>3, <1>7, FreedWithin
  <2> QED
    BY <1>5, <1>7, <2>1
<1> QED
  BY <1>2, <1>4, <1>6, <1>7

LEMMA LoadDoneInv ==
    ASSUME LoaderInv, load_done
    PROVE  LoaderInv'
<1> DEFINE used == program_memory_used
           f == Freed(load.phdrs, used)
<1>0. load.at = "segments" /\ load \in LoadRecord /\ used \in 0 .. MAX_PROGRAM_SIZE
  BY DEF load_done, LoaderRuns, LoaderInv
<1>1. load.regions \in Seq(Regions) /\ load.phdrs \in Regions
      /\ (~load.wrapped => Intact(used, load.phdrs, load.regions))
  BY <1>0 DEF LoadRecord, LoaderInv, Loading
<1>2. used' = f /\ load' = [load EXCEPT !.at = "execute", !.phdrs = NoRegion]
  BY DEF load_done
<1>3. f \in 0 .. MAX_PROGRAM_SIZE /\ (~load.wrapped => Intact(f, NoRegion, load.regions))
  BY <1>0, <1>1, FreedWithin, IntactFree
<1>4. NoRegion \in Regions
  BY LoaderConstants DEF NoRegion, Regions
<1>5. load' \in LoadRecord /\ load'.at = "execute" /\ load'.phdrs = NoRegion
      /\ load'.regions = load.regions /\ load'.wrapped = load.wrapped
  BY <1>0, <1>2, <1>4 DEF LoadRecord
<1> QED
  BY <1>2, <1>3, <1>5 DEF LoaderInv, Loading

LEMMA AllocStackInv ==
    ASSUME LoaderInv, alloc_stack
    PROVE  LoaderInv'
<1> DEFINE new == Region(StackUnits, WordUnits)
           b == Start(WordUnits)
           top == End(StackUnits, WordUnits)
           used == program_memory_used
           all == Append(load.regions, new)
<1>0. load.at = "execute" /\ load \in LoadRecord /\ StackUnits \in 0 .. ProgramWord - 1
      /\ used \in Nat /\ used \in 0 .. MAX_PROGRAM_SIZE
  BY LoaderConstants DEF alloc_stack, LoaderRuns, LoaderInv
<1>1. load.regions \in Seq(Regions)
      /\ (~load.wrapped => Intact(used, load.phdrs, load.regions))
  BY <1>0 DEF LoadRecord, LoaderInv, Loading
<1>2. /\ new \in Regions /\ new.start = b /\ new.size = StackUnits /\ b \in Nat /\ used <= b
      /\ top \in 0 .. MAX_PROGRAM_SIZE /\ (b + StackUnits < ProgramWord => top = b + StackUnits)
  BY <1>0, RegionFacts, LoaderConstants DEF alloc_stack
<1>3. used' = top /\ load' = [load EXCEPT !.at = "create", !.regions = all]
  BY DEF alloc_stack
<1>4. top = b + StackUnits
  <2>1. new.start <= MAX_PROGRAM_SIZE
    BY <1>2, LoaderConstants DEF Regions
  <2> HIDE DEF new, b, top
  <2> QED
    BY <1>2, <2>1, LoaderConstants
<1> HIDE DEF new, b, top
<1>5. all \in Seq(Regions) /\ Len(all) # 0
  BY <1>1, <1>2
<1>6. ASSUME ~load.wrapped PROVE Intact(top, load.phdrs, all)
  <2>1. Intact(b + StackUnits, load.phdrs, all)
    BY <1>0, <1>1, <1>2, <1>6, IntactAppend
  <2> QED
    BY <1>4, <2>1
<1> HIDE DEF all
<1>7. load' \in LoadRecord /\ load'.at = "create" /\ load'.phdrs = load.phdrs
      /\ load'.regions = all /\ load'.wrapped = load.wrapped
  BY <1>0, <1>3, <1>5 DEF LoadRecord
<1> QED
  BY <1>2, <1>3, <1>5, <1>6, <1>7 DEF LoaderInv, Loading

(* The steps after which only the counter matters. *)
LEMMA LoadEndsInv ==
    ASSUME LoaderInv, program_memory_used' \in 0 .. MAX_PROGRAM_SIZE,
           load' = Loaded \/ load' = NotLoading
    PROVE  LoaderInv'
<1>1. load' \in LoadRecord /\ load'.at \in {"cleanup", "idle"}
  BY NotLoadingIsRecord
<1> QED
  BY <1>1 DEF LoaderInv, Loading

LEMMA CreateFailsInv ==
    ASSUME LoaderInv, create_fails
    PROVE  LoaderInv'
<1> DEFINE used == program_memory_used
           last == load.regions[Len(load.regions)]
<1>0. load.at = "create" /\ load \in LoadRecord /\ used \in 0 .. MAX_PROGRAM_SIZE
      /\ Len(load.regions) # 0
  BY DEF create_fails, LoaderRuns, LoaderInv
<1>1. load.regions \in Seq(Regions)
  BY <1>0 DEF LoadRecord
<1>2. last \in Regions
  BY <1>0, <1>1
<1>4. used' = Freed(last, used) /\ load' = Loaded
  BY DEF create_fails
<1> HIDE DEF last
<1>5. Freed(last, used) \in 0 .. MAX_PROGRAM_SIZE
  BY <1>0, <1>2, FreedWithin
<1> QED
  BY <1>4, <1>5, LoadEndsInv

LEMMA LoaderNextInv == LoaderInv /\ [KernelNext]_kernelVars => LoaderInv'
<1> SUFFICES ASSUME LoaderInv, [KernelNext]_kernelVars PROVE LoaderInv'
  OBVIOUS
<1>1. ASSUME UNCHANGED loaderVars PROVE LoaderInv'
  BY <1>1 DEF loaderVars, LoaderInv, Loading
<1>2. CASE execute_no_stack \/ create_process
  <2>1. program_memory_used' = program_memory_used /\ load' = Loaded
    BY <1>2 DEF execute_no_stack, create_process
  <2>2. program_memory_used' \in 0 .. MAX_PROGRAM_SIZE
    BY <2>1 DEF LoaderInv
  <2> QED
    BY <2>1, <2>2, LoadEndsInv
<1>3. CASE program_cleanup
  <2>1. program_memory_used' = 0 /\ load' = NotLoading
    BY <1>3 DEF program_cleanup
  <2>2. program_memory_used' \in 0 .. MAX_PROGRAM_SIZE
    BY <2>1, LoaderConstants
  <2> QED
    BY <2>1, <2>2, LoadEndsInv
<1>3a. CASE creating_process
  BY <1>1, <1>3a DEF creating_process
<1>4. ASSUME program_execute PROVE LoaderInv'
  BY <1>2, <1>3, <1>3a, <1>4, LoadHeadersInv, LoadSegmentInv, LoadDoneInv, AllocStackInv,
     CreateFailsInv
     DEF program_execute
<1> QED
  BY <1>1, <1>4
     DEF KernelNext, kernelVars, booting, pit, keyboard, timer_irq, keyboard_irq, executing,
         yielding, exiting, Scheduling

LEMMA LoaderIntact == LoaderInv => LoadKeepsApart
<1> SUFFICES ASSUME LoaderInv PROVE LoadKeepsApart
  OBVIOUS
<1> DEFINE used == program_memory_used
           regions == load.regions
           phdrs == load.phdrs
<1>0. /\ regions \in Seq(Regions) /\ Len(regions) \in Nat
      /\ used \in 0 .. MAX_PROGRAM_SIZE /\ used \in Nat
  BY LoaderConstants DEF LoaderInv, LoadRecord
<1>2. /\ DOMAIN Allocated = 1 .. Len(regions) + 1
      /\ \A i \in 1 .. Len(regions) : Allocated[i] = regions[i]
      /\ Allocated[Len(regions) + 1] = phdrs
  BY <1>0 DEF Allocated
<1>3. \A i \in DOMAIN Allocated : i \in 1 .. Len(regions) \/ i = Len(regions) + 1
  BY <1>0, <1>2
<1>4. ASSUME Loading, ~load.wrapped
      PROVE  /\ \A i \in DOMAIN Allocated : Units(Allocated[i]) \subseteq 0 .. used - 1
             /\ \A i, j \in DOMAIN Allocated :
                   i # j => Units(Allocated[i]) \cap Units(Allocated[j]) = {}
  <2>0. Intact(used, phdrs, regions)
    BY <1>4 DEF LoaderInv
  <2> HIDE DEF regions, phdrs
  <2>1. \A i \in DOMAIN Allocated : Units(Allocated[i]) \subseteq 0 .. used - 1
    BY <1>2, <1>3, <2>0 DEF Intact
  <2>2. \A i \in 1 .. Len(regions) : Units(regions[i]) \cap Units(phdrs) = {}
    <3> SUFFICES ASSUME NEW i \in 1 .. Len(regions), NEW v \in Units(regions[i]), v \in Units(phdrs)
                 PROVE  FALSE
      OBVIOUS
    <3>1. v < v /\ v \in 0 .. used - 1
      BY <2>0 DEF Intact
    <3> QED
      BY <1>0, <3>1
  <2>3. ASSUME NEW i \in DOMAIN Allocated, NEW j \in DOMAIN Allocated, i # j
        PROVE  Units(Allocated[i]) \cap Units(Allocated[j]) = {}
    <3>1. CASE i \in 1 .. Len(regions) /\ j \in 1 .. Len(regions)
      BY <1>2, <2>0, <2>3, <3>1 DEF Intact
    <3>2. CASE i = Len(regions) + 1 /\ j \in 1 .. Len(regions)
      BY <1>2, <2>2, <3>2
    <3>3. CASE j = Len(regions) + 1 /\ i \in 1 .. Len(regions)
      BY <1>2, <2>2, <3>3
    <3> QED
      BY <1>3, <2>3, <3>1, <3>2, <3>3
  <2> QED
    BY <2>1, <2>3
<1> QED
  BY <1>0, <1>4 DEF LoadKeepsApart, Loading

(* While program_execute works on them, the header table, the segments and the stack of
   a program stay inside program_memory and apart, for all sizes and alignments and on
   all the paths that give memory back, as long as no sum of sizes of the file wraps
   around; and program_memory_used never leaves program_memory, wrapped or not. *)
THEOREM LoadKeepsApartAlways == KernelSpec => []LoadKeepsApart
<1>1. KernelInit => LoaderInv
  <2> SUFFICES ASSUME KernelInit PROVE LoaderInv
    OBVIOUS
  <2>1. program_memory_used = 0 /\ load = NotLoading
    BY DEF KernelInit, LoaderInit
  <2> QED
    BY <2>1, NotLoadingIsRecord, LoaderConstants DEF LoaderInv, Loading
<1> QED
  BY <1>1, LoaderNextInv, LoaderIntact, PTL DEF KernelSpec
=============================================================================
