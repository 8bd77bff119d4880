----------------------------- MODULE Scheduler -----------------------------
(***************************************************************************)
(* The process table and the round-robin scheduler of kernel/process.c,    *)
(* driven by the timer interrupt of drivers/timer.c and by the system      *)
(* calls SYS_EXIT and SYS_YIELD (kernel/syscall.c).                        *)
(*                                                                         *)
(* One CPU runs one thread of control at a time.  A thread is born when    *)
(* context_init prepares the context of a slot; it is on the CPU (cpu) or  *)
(* it is saved in the context of a slot.  context_switch is taken here at  *)
(* the level of its C contract: it saves the CPU in the first context and  *)
(* continues with what the second one holds.                               *)
(*                                                                         *)
(* The timer handler and a system call run behind interrupt gates, with    *)
(* interrupts off, so schedule is one step.  process_create is called by   *)
(* ordinary kernel code (program_loader.c) with interrupts on: the timer   *)
(* can strike between its steps.                                           *)
(***************************************************************************)
EXTENDS Naturals

(* Definitions of the form Op_what_is_wrong, here and in the other modules, are
   the mutants PROJECT.json names: plausible slips in the code of Op, each placed
   before the definition it stands against and used by nothing else. *)

CONSTANTS
    MAX_PROCESSES,  \* slots of the process table (8 in process.h)
    MaxThreads,     \* bound on the threads ever born
    Creators,       \* the threads whose code calls process_create
    MayExit,        \* the slots whose program calls sys_exit
    NullEntry       \* process_create may be called with a NULL entry point

ASSUME SchedulerAssumption ==
    /\ MAX_PROCESSES \in Nat \ {0}
    /\ MaxThreads \in Nat \ {0}
    /\ Creators \subseteq 1 .. MaxThreads
    /\ NullEntry \in BOOLEAN

Slot == 0 .. MAX_PROCESSES - 1
Thread == 1 .. MaxThreads
KernelThread == 1   \* the thread kmain runs on; it lives in slot 0
NoThread == 0       \* a context that no context_init or switch has written

VARIABLES
    state,            \* processes[i].state (PROCESS_BLOCKED is never assigned)
    next_pid,         \* one past the highest slot ever used
    current_process,  \* and current_process_ptr = &processes[current_process]
    context,          \* processes[i].context: the thread saved there
    cpu,              \* the thread the CPU executes
    creating,         \* the progress of each thread inside process_create
    exited,           \* the threads that called process_exit
    born              \* how many threads were born

vars == <<state, next_pid, current_process, context, cpu, creating, exited, born>>

States == {"EMPTY", "READY", "RUNNING", "ZOMBIE"}
Free_ready_too(st, p) == st[p] # "RUNNING"
Free(st, p) == st[p] \in {"EMPTY", "ZOMBIE"}

Idle == [at |-> "idle", slot |-> 0, raise |-> FALSE, entry |-> FALSE]
Creation ==
    [at : {"idle", "raise", "claim", "context"}, slot : Slot,
     raise : BOOLEAN, entry : BOOLEAN]

-----------------------------------------------------------------------------
(* process_init *)
Init ==
    /\ state = [p \in Slot |-> IF p = 0 THEN "RUNNING" ELSE "EMPTY"]
    /\ next_pid = 1
    /\ current_process = 0
    /\ context = [p \in Slot |-> NoThread]
    /\ cpu = KernelThread
    /\ creating = [t \in Thread |-> Idle]
    /\ exited = {}
    /\ born = 1

Probe_from_zero(i) == i % next_pid

(* The loop of schedule looks at slot (current + i) % next_pid on its i-th attempt. *)
Probe(i) == (current_process + i) % next_pid

(* The i-th attempt is the first one to meet a READY slot. *)
FirstReady(st, i) ==
    /\ st[Probe(i)] = "READY"
    /\ \A j \in 1 .. i - 1 : st[Probe(j)] # "READY"

Demote_dropped(st) == st
Demote_zombie_too(st) == [st EXCEPT ![current_process] = "READY"]

(* The running process goes back to READY; a ZOMBIE stays a ZOMBIE. *)
Demote(st) ==
    IF st[current_process] = "RUNNING"
    THEN [st EXCEPT ![current_process] = "READY"]
    ELSE st

(* The call of context_switch, by its contract: save the CPU in slot p's context
   and go on with slot q's. *)
context_switch(p, q) ==
    /\ context' = [context EXCEPT ![p] = cpu]
    /\ cpu' = context[q]

Dispatch_forgets_current(st, n) ==
    /\ current_process' = current_process
    /\ state' = [st EXCEPT ![n] = "RUNNING"]
    /\ context_switch(current_process, n)

(* Slot n takes the CPU; the switch is skipped when it has it already. *)
Dispatch(st, n) ==
    /\ current_process' = n
    /\ state' = [st EXCEPT ![n] = "RUNNING"]
    /\ IF n # current_process
       THEN context_switch(current_process, n)
       ELSE UNCHANGED <<context, cpu>>

(* schedule, entered with the process states st. *)
schedule(st) ==
    \/ /\ next_pid <= 1
       /\ state' = st
       /\ UNCHANGED <<current_process, context, cpu>>
    \/ /\ next_pid > 1
       /\ \E i \in 1 .. MAX_PROCESSES :
             /\ FirstReady(Demote(st), i)
             /\ Dispatch(Demote(st), Probe(i))
    \/ /\ next_pid > 1
       /\ \A i \in 1 .. MAX_PROCESSES : Demote(st)[Probe(i)] # "READY"
       /\ state' = IF Demote(st)[current_process] = "READY"
                   THEN [Demote(st) EXCEPT ![current_process] = "RUNNING"]
                   ELSE Demote(st)
       /\ UNCHANGED <<current_process, context, cpu>>

-----------------------------------------------------------------------------
(* A CPU that was switched to a context nobody wrote executes no kernel code any more. *)
Alive == cpu # NoThread

(* The thread on the CPU runs its own code, outside process_create. *)
Running == Alive /\ creating[cpu].at = "idle"

(* IRQ0: the handler calls schedule on every tick. *)
timer_interrupt_handler ==
    /\ Alive
    /\ schedule(state)
    /\ UNCHANGED <<next_pid, creating, exited, born>>

sys_yield ==
    /\ Running
    /\ schedule(state)
    /\ UNCHANGED <<next_pid, creating, exited, born>>

process_exit ==
    /\ Running
    /\ current_process \in MayExit
    /\ exited' = exited \cup {cpu}
    /\ schedule([state EXCEPT ![current_process] = "ZOMBIE"])
    /\ UNCHANGED <<next_pid, creating, born>>

(* The slot that the scan of process_create stops at. *)
FirstFree(s) == Free(state, s) /\ \A p \in 0 .. s - 1 : ~Free(state, p)

context_init_skipped(s, entry) == UNCHANGED <<born, context>>

(* The call of context_init, by its contract: a new thread in slot s.  A NULL entry
   point skips it. *)
context_init(s, entry) ==
    IF entry
    THEN /\ born < MaxThreads
         /\ born' = born + 1
         /\ context' = [context EXCEPT ![s] = born + 1]
    ELSE UNCHANGED <<born, context>>

EntryArg == IF NullEntry THEN BOOLEAN ELSE {TRUE}

(* process_create, first step: the scan, and the test whether next_pid must be raised. *)
process_create_scan(entry) ==
    /\ Running
    /\ cpu \in Creators
    /\ entry => born < MaxThreads
    /\ \E s \in Slot :
          /\ FirstFree(s)
          /\ creating' = [creating EXCEPT ![cpu] =
                [at |-> "raise", slot |-> s, raise |-> s >= next_pid, entry |-> entry]]
    /\ UNCHANGED <<state, next_pid, current_process, context, cpu, exited, born>>

At(step) == Alive /\ creating[cpu].at = step
Goto(step) == creating' = [creating EXCEPT ![cpu].at = step]

process_create_raise_always ==
    /\ At("raise")
    /\ next_pid' = next_pid + 1
    /\ Goto("claim")
    /\ UNCHANGED <<state, current_process, context, cpu, exited, born>>

process_create_raise_never ==
    /\ At("raise")
    /\ Goto("claim")
    /\ UNCHANGED <<state, next_pid, current_process, context, cpu, exited, born>>

(* Second step: next_pid is stored, if the test said so. *)
process_create_raise ==
    /\ At("raise")
    /\ next_pid' = IF creating[cpu].raise THEN creating[cpu].slot + 1 ELSE next_pid
    /\ Goto("claim")
    /\ UNCHANGED <<state, current_process, context, cpu, exited, born>>

(* Third step: the slot is filled in and becomes READY. *)
process_create_claim ==
    /\ At("claim")
    /\ state' = [state EXCEPT ![creating[cpu].slot] = "READY"]
    /\ Goto("context")
    /\ UNCHANGED <<next_pid, current_process, context, cpu, exited, born>>

(* Last step: the context is written and process_create returns. *)
process_create_context ==
    /\ At("context")
    /\ context_init(creating[cpu].slot, creating[cpu].entry)
    /\ creating' = [creating EXCEPT ![cpu] = Idle]
    /\ UNCHANGED <<state, next_pid, current_process, cpu, exited>>

Next ==
    \/ timer_interrupt_handler
    \/ sys_yield
    \/ process_exit
    \/ \E entry \in EntryArg : process_create_scan(entry)
    \/ process_create_raise
    \/ process_create_claim
    \/ process_create_context

Spec == Init /\ [][Next]_vars

(* The PIT interrupts periodically, IRQ0 is unmasked and acknowledged before
   its handler runs, and every context has the interrupt flag set. *)
FairSpec == Spec /\ WF_vars(timer_interrupt_handler)

-----------------------------------------------------------------------------
TypeOK ==
    /\ state \in [Slot -> States]
    /\ next_pid \in 1 .. MAX_PROCESSES
    /\ current_process \in Slot
    /\ context \in [Slot -> Thread \cup {NoThread}]
    /\ cpu \in Thread \cup {NoThread}
    /\ creating \in [Thread -> Creation]
    /\ exited \in SUBSET Thread
    /\ born \in Thread

(* Only the slot the scheduler calls current is ever RUNNING: the demotion in
   schedule, the dispatch and the reuse of slots by process_create, whoever is
   interrupted where, never leave two slots RUNNING. *)
RunningIsCurrent == \A p \in Slot : state[p] = "RUNNING" => p = current_process

(* The CPU always executes a thread that somebody started: no switch goes to a
   context that neither context_init nor an earlier switch has written ("Set up
   process context" comes after the slot is READY). *)
CpuNeverLost == cpu # NoThread

(* A thread is in one place: no two slots hold the same saved thread, and the
   thread on the CPU is saved, if anywhere, in the current slot (where the next
   switch overwrites it). *)
OneHomePerThread ==
    /\ \A p, q \in Slot : context[p] = context[q] /\ context[p] # NoThread => p = q
    /\ \A p \in Slot : context[p] = cpu /\ cpu # NoThread => p = current_process

(* Every slot in use, and the current one, is below next_pid, the bound of the
   loops of schedule and process_print_list: no process is out of their reach, not
   even between the claim of a slot and the return of process_create. *)
UsedSlotsBelowNextPid ==
    \A p \in Slot : state[p] # "EMPTY" \/ p = current_process => p < next_pid

(* Slot p was claimed by a process_create that has not written its context yet. *)
Unfinished(p) == \E t \in Thread : creating[t].at = "context" /\ creating[t].slot = p

(* Only the slot of an unfinished creation can send the CPU to uninitialised memory:
   every other slot that schedule may pick holds a context that somebody wrote. *)
ReadyHasContext ==
    \A p \in Slot :
       state[p] = "READY" /\ p # current_process /\ ~Unfinished(p) => context[p] # NoThread

(* process_exit does not return ("A process that exits should not return, it should
   yield."), except through one window: a thread that exited executes again only in
   the slot of an unfinished creation, whose old context it is. *)
ExitNeverReturns == cpu \in exited => Unfinished(current_process)

(* Thread t can go on: it is on the CPU or saved in a READY slot, and no unfinished
   creation is going to overwrite it there. *)
Settled(t) ==
    \/ t = cpu /\ ~Unfinished(current_process)
    \/ \E p \in Slot : context[p] = t /\ state[p] = "READY" /\ ~Unfinished(p)

(* No running program is lost: a thread that can go on can still go on after every tick,
   yield, exit of another one and step of a creation, until it exits itself. *)
LiveThreadsKept == [][\A t \in Thread : Settled(t) /\ t \notin exited' => Settled(t)']_vars

(* A step of process_create only takes slots that are free at that moment
   ("Find an empty slot"): it never turns a live process into a new one. *)
CreateTakesFreeSlot ==
    [][process_create_claim => Free(state, creating[cpu].slot)]_vars

(* Round robin starves nobody: a READY process eventually runs, unless the CPU is lost in
   the slot of an unfinished creation. *)
ReadyEventuallyRuns ==
    \A p \in Slot : state[p] = "READY" ~> (state[p] = "RUNNING" \/ ~Alive)
=============================================================================
