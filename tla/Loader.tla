------------------------------- MODULE Loader -------------------------------
(***************************************************************************)
(* kernel/program_loader.c on top of the scheduler: program_execute loads  *)
(* the program headers and segments of an ELF file into program_memory, a  *)
(* bump allocator, allocates a stack and starts a process.                 *)
(*                                                                         *)
(* The loader runs on the kernel thread and the timer can strike between   *)
(* any two of its steps.  The filesystem is taken at its contract: a file  *)
(* opens or not, a read returns what was asked for or not.  The failures   *)
(* before the first allocation change nothing and are not steps.           *)
(***************************************************************************)
EXTENDS Scheduler, Integers, Sequences

CONSTANTS
    MAX_PROGRAM_SIZE,  \* units of program_memory (1 MB)
    WordUnits,         \* the alignment of the header table and of the stack (4)
    PageUnits,         \* the alignment of a segment (4096)
    StackUnits,        \* stack_size (8 KB)
    HeaderUnits,       \* the sizes of a program header table
    SegmentUnits,      \* the values of p_vaddr and p_memsz of a PT_LOAD segment
    MaxSegments,       \* bound on e_phnum
    ProgramWord        \* units a uint32_t counts (4 GB)

ASSUME LoaderAssumption ==
    /\ {MAX_PROGRAM_SIZE, WordUnits, PageUnits, StackUnits} \subseteq Nat \ {0}
    /\ MaxSegments \in Nat
    /\ ProgramWord \in Nat
    /\ HeaderUnits \subseteq 0 .. ProgramWord - 1 /\ SegmentUnits \subseteq 0 .. ProgramWord - 1
    /\ MAX_PROGRAM_SIZE % WordUnits = 0 /\ MAX_PROGRAM_SIZE % PageUnits = 0
    /\ MAX_PROGRAM_SIZE + StackUnits < ProgramWord

VARIABLES
    program_memory_used,
    load    \* the progress of program_execute: where it is, the segments left to load,
            \* the header table and the other regions it allocated, and whether a size
            \* of the file made a uint32_t sum wrap around

loaderVars == <<program_memory_used, load>>

NoRegion == [start |-> 0, size |-> 0]
NotLoading ==
    [at |-> "idle", left |-> 0, phdrs |-> NoRegion, regions |-> <<>>, wrapped |-> FALSE]

(* Only program_cleanup is left: what was allocated is not looked at any more. *)
Loaded == [NotLoading EXCEPT !.at = "cleanup"]

(* program_loader_init *)
LoaderInit ==
    /\ Init
    /\ program_memory_used = 0
    /\ load = NotLoading

AlignUp(a, alignment) == ((a + alignment - 1) \div alignment) * alignment

(* Where program_alloc_memory places the next region. *)
Start(alignment) == AlignUp(program_memory_used, alignment)

(* program_memory_used after the allocation: aligned_addr + size, a uint32_t. *)
End(size, alignment) == (Start(alignment) + size) % ProgramWord
Fits(size, alignment) == End(size, alignment) <= MAX_PROGRAM_SIZE
Wraps(size, alignment) == Start(alignment) + size >= ProgramWord
Region(size, alignment) == [start |-> Start(alignment), size |-> size]

Freed_always(region, used) == (used - region.size) % ProgramWord

(* program_free_memory: program_memory_used once region is given back, which has
   an effect only for the last region allocated. *)
Freed(region, used) ==
    IF (region.start + region.size) % ProgramWord = used
    THEN (used - region.size) % ProgramWord
    ELSE used

LoaderRuns(step) == Running /\ cpu = KernelThread /\ load.at = step

(* program_load up to the program headers: the file is open and its header valid. *)
load_headers(ph_size, phnum) ==
    /\ LoaderRuns("idle")
    /\ Fits(ph_size, WordUnits)
    /\ \/ /\ program_memory_used' = End(ph_size, WordUnits)
          /\ load' = [at |-> "segments", left |-> phnum,
                      phdrs |-> Region(ph_size, WordUnits), regions |-> <<>>,
                      wrapped |-> Wraps(ph_size, WordUnits)]
       \/ /\ program_memory_used' =      \* "Failed to read program headers"
                Freed(Region(ph_size, WordUnits), End(ph_size, WordUnits))
          /\ UNCHANGED load
    /\ UNCHANGED vars

(* What program_load asks for: vaddr + memsz, a uint32_t. *)
SegmentSize(vaddr, memsz) == (vaddr + memsz) % ProgramWord

(* One round of the loop over the segments: allocated and read, not allocated, not read. *)
load_segment(vaddr, memsz) ==
    LET size == SegmentSize(vaddr, memsz)
    IN  /\ LoaderRuns("segments")
        /\ load.left > 0
        /\ \/ /\ Fits(size, PageUnits)
              /\ program_memory_used' = End(size, PageUnits)
              /\ load' = [load EXCEPT !.left = @ - 1,
                                      !.regions = Append(@, Region(size, PageUnits)),
                                      !.wrapped = @ \/ vaddr + memsz >= ProgramWord
                                                    \/ Wraps(size, PageUnits)]
           \/ /\ ~Fits(size, PageUnits)
              /\ program_memory_used' = Freed(load.phdrs, program_memory_used)
              /\ load' = NotLoading
           \/ /\ Fits(size, PageUnits)
              /\ program_memory_used' = Freed(load.phdrs, End(size, PageUnits))
              /\ load' = NotLoading
        /\ UNCHANGED vars

(* "Clean up": the header table is given back and the program is loaded. *)
load_done ==
    /\ LoaderRuns("segments")
    /\ load.left = 0
    /\ program_memory_used' = Freed(load.phdrs, program_memory_used)
    /\ load' = [load EXCEPT !.at = "execute", !.phdrs = NoRegion]
    /\ UNCHANGED vars

(* program_execute_from_info *)
execute_no_stack ==
    /\ LoaderRuns("execute")
    /\ ~Fits(StackUnits, WordUnits)
    /\ load' = Loaded
    /\ UNCHANGED <<vars, program_memory_used>>

alloc_stack ==
    /\ LoaderRuns("execute")
    /\ Fits(StackUnits, WordUnits)
    /\ program_memory_used' = End(StackUnits, WordUnits)
    /\ load' = [load EXCEPT !.at = "create",
                            !.regions = Append(@, Region(StackUnits, WordUnits))]
    /\ UNCHANGED vars

(* The call of process_create, with interrupts on; the loader goes on when it returns. *)
create_process ==
    /\ LoaderRuns("create")
    /\ process_create_scan(TRUE)
    /\ load' = Loaded
    /\ UNCHANGED program_memory_used

creating_process ==
    /\ process_create_raise \/ process_create_claim \/ process_create_context
    /\ UNCHANGED loaderVars

create_fails ==
    /\ LoaderRuns("create")
    /\ \A s \in Slot : ~Free(state, s)
    /\ program_memory_used' = Freed(load.regions[Len(load.regions)], program_memory_used)
    /\ load' = Loaded
    /\ UNCHANGED vars

(* "Free program memory (simplified - just reset counter)" *)
program_cleanup ==
    /\ LoaderRuns("cleanup")
    /\ program_memory_used' = 0
    /\ load' = NotLoading
    /\ UNCHANGED vars

program_execute ==
    \/ \E ph_size \in HeaderUnits, phnum \in 0 .. MaxSegments : load_headers(ph_size, phnum)
    \/ \E vaddr, memsz \in SegmentUnits : load_segment(vaddr, memsz)
    \/ load_done
    \/ execute_no_stack \/ alloc_stack
    \/ create_process \/ creating_process \/ create_fails
    \/ program_cleanup

-----------------------------------------------------------------------------
Allocated == Append(load.regions, load.phdrs)
Units(region) == region.start .. region.start + region.size - 1

(* What is being loaded is intact: as long as program_execute may still write or
   read them, the header table, the segments and the stack lie inside program_memory
   below program_memory_used and do not overlap, whatever was given back on the way,
   unless a size of the file wrapped a sum around.  program_memory_used is within
   program_memory in any case. *)
LoadKeepsApart ==
    /\ program_memory_used \in 0 .. MAX_PROGRAM_SIZE
    /\ load.at \in {"segments", "execute", "create"} /\ ~load.wrapped =>
          /\ \A i \in DOMAIN Allocated :
                Units(Allocated[i]) \subseteq 0 .. program_memory_used - 1
          /\ \A i, j \in DOMAIN Allocated :
                i # j => Units(Allocated[i]) \cap Units(Allocated[j]) = {}
=============================================================================
