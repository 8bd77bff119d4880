-------------------------- MODULE SchedulerProofs --------------------------
(***************************************************************************)
(* What Scheduler promises for every number of slots and threads, with the *)
(* timer striking anywhere in process_create.  The first half holds for    *)
(* any set of creators; the second one for the kernel as it is, whose only *)
(* caller of process_create is the kernel thread, which never exits.       *)
(***************************************************************************)
EXTENDS Scheduler, TLAPS

(* Threads are numbered in the order of their birth. *)
BornBound ==
    /\ \A p \in Slot : context[p] <= born
    /\ cpu <= born

Safe == TypeOK /\ RunningIsCurrent /\ OneHomePerThread /\ BornBound

-----------------------------------------------------------------------------
(* The scan of schedule stays inside the used part of the table. *)
LEMMA ProbeInTable ==
    ASSUME TypeOK, NEW i \in 1 .. MAX_PROCESSES
    PROVE  Probe(i) \in 0 .. next_pid - 1 /\ Probe(i) \in Slot
BY SchedulerAssumption DEF Probe, TypeOK, Slot

(* The demotion keeps the type and leaves nobody RUNNING. *)
LEMMA DemoteLeavesNoneRunning ==
    ASSUME TypeOK, NEW STATE st, st \in [Slot -> States],
           \A p \in Slot : st[p] = "RUNNING" => p = current_process
    PROVE  /\ Demote(st) \in [Slot -> States]
           /\ \A p \in Slot : Demote(st)[p] # "RUNNING"
BY DEF Demote, TypeOK, States

(* What schedule does to the table and the CPU keeps Safe. *)
LEMMA ScheduleSafe ==
    ASSUME Safe, Alive,
           NEW STATE st, st \in [Slot -> States],
           \A p \in Slot : st[p] = "RUNNING" => p = current_process,
           schedule(st), next_pid' = next_pid, born' = born
    PROVE  /\ state' \in [Slot -> States]
           /\ current_process' \in Slot
           /\ context' \in [Slot -> Thread \cup {NoThread}]
           /\ cpu' \in Thread \cup {NoThread}
           /\ RunningIsCurrent' /\ OneHomePerThread' /\ BornBound'
<1> USE DEF Safe
<1>1. CASE next_pid <= 1 /\ state' = st /\ UNCHANGED <<current_process, context, cpu>>
  BY <1>1 DEF TypeOK, RunningIsCurrent, OneHomePerThread, BornBound
<1>2. CASE \E i \in 1 .. MAX_PROCESSES : Dispatch(Demote(st), Probe(i))
  <2> DEFINE d == Demote(st)
  <2>0. d \in [Slot -> States] /\ \A p \in Slot : d[p] # "RUNNING"
    BY DemoteLeavesNoneRunning
  <2>1. PICK n \in Slot : Dispatch(d, n)
    BY <1>2, ProbeInTable
  <2>2. /\ current_process' = n
        /\ state' = [d EXCEPT ![n] = "RUNNING"]
    BY <2>1 DEF Dispatch
  <2>3. state' \in [Slot -> States] /\ RunningIsCurrent'
    BY <2>0, <2>2 DEF RunningIsCurrent, States
  <2>4. CASE n = current_process
    <3>1. UNCHANGED <<context, cpu>>
      BY <2>1, <2>4 DEF Dispatch
    <3> QED
      BY <2>2, <2>3, <2>4, <3>1 DEF TypeOK, OneHomePerThread, BornBound
  <2>5. CASE n # current_process
    <3>1. /\ context' = [context EXCEPT ![current_process] = cpu]
          /\ cpu' = context[n]
      BY <2>1, <2>5 DEF Dispatch, context_switch
    <3>2. /\ context' \in [Slot -> Thread \cup {NoThread}]
          /\ cpu' \in Thread \cup {NoThread}
      BY <3>1 DEF TypeOK
    <3>3. OneHomePerThread'
      BY <2>2, <2>5, <3>1 DEF TypeOK, OneHomePerThread, Alive
    <3>4. BornBound'
      BY <3>1 DEF TypeOK, BornBound
    <3> QED
      BY <2>2, <2>3, <3>2, <3>3, <3>4
  <2> QED
    BY <2>4, <2>5
<1>3. CASE /\ state' = IF Demote(st)[current_process] = "READY"
                       THEN [Demote(st) EXCEPT ![current_process] = "RUNNING"]
                       ELSE Demote(st)
           /\ UNCHANGED <<current_process, context, cpu>>
  <2>1. /\ Demote(st) \in [Slot -> States]
        /\ \A p \in Slot : Demote(st)[p] # "RUNNING"
    BY DemoteLeavesNoneRunning
  <2>2. state' \in [Slot -> States] /\ RunningIsCurrent'
    BY <1>3, <2>1 DEF RunningIsCurrent, States
  <2> QED
    BY <1>3, <2>2 DEF TypeOK, OneHomePerThread, BornBound
<1> QED
  BY <1>1, <1>2, <1>3 DEF schedule

(* A new thread gets a number no context holds. *)
LEMMA ContextInitSafe ==
    ASSUME Safe, Alive, NEW STATE s, s \in Slot, NEW STATE entry, context_init(s, entry),
           cpu' = cpu, current_process' = current_process
    PROVE  /\ context' \in [Slot -> Thread \cup {NoThread}]
           /\ born' \in Thread
           /\ OneHomePerThread' /\ BornBound'
<1> USE DEF Safe
<1>1. CASE UNCHANGED <<born, context>>
  BY <1>1 DEF TypeOK, OneHomePerThread, BornBound
<1>2. CASE /\ born < MaxThreads
           /\ born' = born + 1
           /\ context' = [context EXCEPT ![s] = born + 1]
  <2>1. context' \in [Slot -> Thread \cup {NoThread}] /\ born' \in Thread
    BY <1>2, SchedulerAssumption DEF TypeOK, Thread
  <2>2. BornBound'
    BY <1>2, SchedulerAssumption DEF TypeOK, Thread, NoThread, BornBound
  <2>3. OneHomePerThread'
    BY <1>2, SchedulerAssumption DEF TypeOK, Thread, NoThread, BornBound, OneHomePerThread
  <2> QED
    BY <2>1, <2>2, <2>3
<1> QED
  BY <1>1, <1>2 DEF context_init

LEMMA InitSafe == Init => Safe
BY SchedulerAssumption
   DEF Init, Safe, TypeOK, RunningIsCurrent, OneHomePerThread, BornBound, Slot, Thread,
       States, KernelThread, NoThread, Creation, Idle

LEMMA NextSafe == Safe /\ [Next]_vars => Safe'
<1> SUFFICES ASSUME Safe, [Next]_vars PROVE Safe'
  OBVIOUS
<1> USE DEF Safe
<1>0. TypeOK /\ \A p \in Slot : state[p] = "RUNNING" => p = current_process
  BY DEF RunningIsCurrent
<1>1. CASE timer_interrupt_handler
  <2>1. Alive /\ schedule(state) /\ UNCHANGED <<next_pid, creating, exited, born>>
    BY <1>1 DEF timer_interrupt_handler
  <2> QED
    BY <1>0, <2>1, ScheduleSafe DEF TypeOK
<1>2. CASE sys_yield
  <2>1. Alive /\ schedule(state) /\ UNCHANGED <<next_pid, creating, exited, born>>
    BY <1>2 DEF sys_yield, Running
  <2> QED
    BY <1>0, <2>1, ScheduleSafe DEF TypeOK
<1>3. CASE process_exit
  <2> DEFINE st == [state EXCEPT ![current_process] = "ZOMBIE"]
  <2>1. Alive /\ schedule(st) /\ UNCHANGED <<next_pid, creating, born>>
    BY <1>3 DEF process_exit, Running
  <2>2. st \in [Slot -> States] /\ \A p \in Slot : st[p] = "RUNNING" => p = current_process
    BY <1>0 DEF TypeOK, States
  <2>3. exited' \in SUBSET Thread
    BY <1>3, <2>1 DEF process_exit, TypeOK, Alive
  <2> QED
    BY <2>1, <2>2, <2>3, ScheduleSafe DEF TypeOK
<1>5. ASSUME NEW entry \in EntryArg, process_create_scan(entry) PROVE Safe'
  <2>0. entry \in BOOLEAN
    BY DEF EntryArg
  <2>1. cpu \in Thread
    BY <1>5 DEF process_create_scan, Running, Alive, TypeOK
  <2>2. PICK s \in Slot : creating' = [creating EXCEPT ![cpu] =
                [at |-> "raise", slot |-> s, raise |-> s >= next_pid, entry |-> entry]]
    BY <1>5 DEF process_create_scan
  <2>2a. (s >= next_pid) \in BOOLEAN
    OBVIOUS
  <2>3. creating' \in [Thread -> Creation]
    BY <2>0, <2>1, <2>2, <2>2a DEF TypeOK, Creation
  <2> QED
    BY <1>5, <2>3
    DEF process_create_scan, TypeOK, RunningIsCurrent, OneHomePerThread, BornBound
<1>6. CASE process_create_raise
  <2>1. cpu \in Thread
    BY <1>6 DEF process_create_raise, At, Alive, TypeOK
  <2>2. creating' \in [Thread -> Creation]
    BY <1>6, <2>1 DEF process_create_raise, Goto, TypeOK, Creation
  <2>3. next_pid' \in 1 .. MAX_PROCESSES
    BY <1>6, <2>1, SchedulerAssumption DEF process_create_raise, TypeOK, Creation, Slot
  <2> QED
    BY <1>6, <2>2, <2>3
    DEF process_create_raise, TypeOK, RunningIsCurrent, OneHomePerThread, BornBound
<1>7. CASE process_create_claim
  <2>1. cpu \in Thread
    BY <1>7 DEF process_create_claim, At, Alive, TypeOK
  <2>2. creating' \in [Thread -> Creation]
    BY <1>7, <2>1 DEF process_create_claim, Goto, TypeOK, Creation
  <2>3. state' \in [Slot -> States] /\ RunningIsCurrent'
    BY <1>7, <2>1 DEF process_create_claim, TypeOK, Creation, States, RunningIsCurrent
  <2> QED
    BY <1>7, <2>2, <2>3
    DEF process_create_claim, TypeOK, OneHomePerThread, BornBound
<1>8. CASE process_create_context
  <2>1. Alive /\ cpu \in Thread
    BY <1>8 DEF process_create_context, At, Alive, TypeOK
  <2>2. creating[cpu].slot \in Slot
    BY <2>1 DEF TypeOK, Creation
  <2>3. creating' \in [Thread -> Creation]
    <3>1. Idle \in Creation
      BY SchedulerAssumption DEF Idle, Creation, Slot
    <3> QED
      BY <1>8, <2>1, <3>1 DEF process_create_context, TypeOK
  <2>4. UNCHANGED <<state, next_pid, current_process, cpu, exited>>
    BY <1>8 DEF process_create_context
  <2>5. /\ context' \in [Slot -> Thread \cup {NoThread}]
        /\ born' \in Thread /\ OneHomePerThread' /\ BornBound'
    BY <1>8, <2>1, <2>2, <2>4, ContextInitSafe DEF process_create_context
  <2> QED
    BY <2>3, <2>4, <2>5 DEF TypeOK, RunningIsCurrent
<1>9. CASE UNCHANGED vars
  BY <1>9 DEF vars, TypeOK, RunningIsCurrent, OneHomePerThread, BornBound
<1> QED
  BY <1>1, <1>2, <1>3, <1>5, <1>6, <1>7, <1>8, <1>9 DEF Next

THEOREM SafeAlways == Spec => []Safe
BY InitSafe, NextSafe, PTL DEF Spec

(* The process table keeps its type: next_pid stays within the table and every
   slot the scheduler computes exists, whatever the timer interrupts. *)
THEOREM TypeCorrect == Spec => []TypeOK
BY SafeAlways, PTL DEF Safe

(* At most one slot is RUNNING, the current one, in every reachable state. *)
THEOREM RunningIsCurrentAlways == Spec => []RunningIsCurrent
BY SafeAlways, PTL DEF Safe

(* No two slots ever resume the same saved thread. *)
THEOREM OneHomePerThreadAlways == Spec => []OneHomePerThread
BY SafeAlways, PTL DEF Safe

-----------------------------------------------------------------------------
(* The kernel as it is: process_create has one caller, program_execute on the kernel
   thread, which passes the entry point of a program, and the program of slot 0
   (shell_run) never calls sys_exit. *)
KernelCreates == Creators = {KernelThread} /\ NullEntry = FALSE /\ 0 \notin MayExit

(* The creation the kernel thread is in. *)
New == creating[KernelThread]

(* How far the creation has come: until the claim its slot is free, and next_pid has
   been raised above it before it is claimed. *)
CreationInOrder ==
    /\ \A t \in Thread : t # KernelThread => creating[t] = Idle
    /\ New.at # "idle" => New.slot # 0 /\ New.entry = TRUE
    /\ New.at \in {"raise", "claim"} => Free(state, New.slot)
    /\ New.at = "raise" => (New.raise <=> New.slot >= next_pid)
    /\ New.at \in {"claim", "context"} => New.slot < next_pid
    /\ New.at = "context" => state[New.slot] # "EMPTY"

(* The kernel thread lives in slot 0. *)
KernelInSlotZero ==
    /\ state[0] \in {"READY", "RUNNING"}
    /\ cpu = KernelThread <=> current_process = 0
    /\ current_process # 0 => context[0] = KernelThread
    /\ KernelThread \notin exited

(* Outside the slot of an unfinished creation, what schedule may resume and what the
   CPU executes is a thread that was born and has not exited. *)
ReadyIsResumable ==
    /\ \A p \in Slot :
          state[p] = "READY" /\ ~Unfinished(p) =>
             context[p] \in 1 .. born /\ context[p] \notin exited
    /\ ~Unfinished(current_process) => cpu \in 1 .. born /\ cpu \notin exited

(* The strengthening that makes the window of an unfinished creation the only one:
   slot 0 is always there to be scheduled and the current slot is RUNNING between
   steps. *)
Orderly ==
    /\ UsedSlotsBelowNextPid
    /\ state[current_process] = "RUNNING"
    /\ CreationInOrder
    /\ KernelInSlotZero
    /\ ReadyIsResumable
    /\ exited \subseteq 1 .. born

(* Only the kernel thread's creation can be unfinished. *)
LEMMA UnfinishedIsNew ==
    ASSUME TypeOK, CreationInOrder
    PROVE  \A p \in Slot : Unfinished(p) <=> New.at = "context" /\ New.slot = p
<1>1. KernelThread \in Thread
  BY SchedulerAssumption DEF KernelThread, Thread
<1>2. Idle.at # "context"
  BY DEF Idle
<1> QED
  BY <1>1, <1>2 DEF CreationInOrder, Unfinished, New

LEMMA InitOrderly == Init => Orderly
<1> SUFFICES ASSUME Init PROVE Orderly
  OBVIOUS
<1>0. KernelThread \in Thread /\ 0 \in Slot
  BY SchedulerAssumption DEF KernelThread, Thread, Slot
<1>1. \A t \in Thread : creating[t] = Idle
  BY DEF Init
<1>2. CreationInOrder
  BY <1>0, <1>1 DEF CreationInOrder, New, Idle
<1>3. \A p \in Slot : ~Unfinished(p)
  BY <1>1 DEF Unfinished, Idle
<1> QED
  BY <1>0, <1>2, <1>3
     DEF Init, Orderly, UsedSlotsBelowNextPid, KernelInSlotZero, ReadyIsResumable, KernelThread

(* With slot 0 READY after the demotion, the scan of schedule succeeds. *)
LEMMA ScanFindsKernel ==
    ASSUME TypeOK, current_process < next_pid, NEW STATE st, st[0] = "READY"
    PROVE  \E i \in 1 .. MAX_PROCESSES : st[Probe(i)] = "READY"
<1>1. next_pid - current_process \in 1 .. MAX_PROCESSES
  BY SchedulerAssumption DEF TypeOK, Slot
<1>2. Probe(next_pid - current_process) = 0
  BY SchedulerAssumption DEF TypeOK, Slot, Probe
<1> QED
  BY <1>1, <1>2

(* What a step may not do to the threads that can go on. *)
Kept == \A t \in Thread : Settled(t) /\ t \notin exited' => Settled(t)'

(* The slot of an unfinished creation does not change when no creation proceeds. *)
LEMMA SameUnfinished ==
    ASSUME UNCHANGED creating, NEW p
    PROVE  Unfinished(p)' <=> Unfinished(p)
BY DEF Unfinished

(* schedule called by a thread that goes on living (a tick, a yield) or by one
   that has just become a ZOMBIE; ex is the set of exited threads after it. *)
LEMMA ScheduleOrderly ==
    ASSUME Safe, Orderly, Alive,
           NEW STATE st, st \in [Slot -> States], NEW STATE ex,
           \/ st = state /\ ex = exited
           \/ /\ st = [state EXCEPT ![current_process] = "ZOMBIE"]
              /\ ex = exited \cup {cpu} /\ current_process # 0,
           schedule(st), UNCHANGED <<next_pid, born, creating>>, exited' = ex
    PROVE  Orderly' /\ Kept
<1> DEFINE d == Demote(st)
           u(p) == Unfinished(p)
<1>0. /\ current_process < next_pid /\ current_process \in Slot
      /\ 0 \in Slot /\ state \in [Slot -> States]
      /\ cpu \in Thread /\ born \in Nat /\ cpu \in 1 .. born
      /\ KernelThread \in Thread /\ KernelThread \in 1 .. born
      /\ context \in [Slot -> Thread \cup {NoThread}]
  BY SchedulerAssumption
     DEF Safe, TypeOK, BornBound, Orderly, UsedSlotsBelowNextPid, Slot, Alive, Thread, NoThread,
         KernelThread
<1>1. /\ d \in [Slot -> States]
      /\ d[0] = "READY"
      /\ \A p \in Slot : p # current_process => d[p] = state[p]
      /\ d[current_process] \in {"READY", "ZOMBIE"}
      /\ d[current_process] = "READY" <=> st = state
      /\ st = state => ex = exited
  BY <1>0 DEF Demote, Orderly, KernelInSlotZero, States, Safe, RunningIsCurrent
<1>1a. \A p \in Slot : d[p] # "RUNNING"
  BY <1>0, <1>1 DEF Safe, RunningIsCurrent
<1>1b. \A p : Unfinished(p)' <=> u(p)
  BY SameUnfinished
<1>1c. ex \subseteq 1 .. born /\ KernelThread \notin ex /\ exited \subseteq ex
       /\ ex \subseteq exited \cup {cpu}
  BY <1>0 DEF Orderly, KernelInSlotZero
<1>2. CASE next_pid <= 1
  <2>1. current_process = 0 /\ st = state /\ ex = exited
    BY <1>0, <1>2 DEF Safe, TypeOK, Slot
  <2>2. UNCHANGED <<state, current_process, context, cpu>>
    BY <1>2, <2>1 DEF schedule, Safe, TypeOK
  <2>3. UNCHANGED vars
    BY <2>1, <2>2 DEF vars
  <2> QED
    BY <2>3
       DEF vars, Orderly, UsedSlotsBelowNextPid, CreationInOrder, New, Free, KernelInSlotZero,
           ReadyIsResumable, Unfinished, Kept, Settled
<1>3. CASE next_pid > 1
  <2>1. \E i \in 1 .. MAX_PROCESSES : d[Probe(i)] = "READY"
    BY <1>0, <1>1, ScanFindsKernel DEF Safe
  <2>2. PICK i \in 1 .. MAX_PROCESSES :
              d[Probe(i)] = "READY" /\ Dispatch(d, Probe(i))
    BY <1>3, <2>1 DEF schedule, FirstReady, Safe, TypeOK
  <2> DEFINE n == Probe(i)
  <2>3. n \in Slot /\ n < next_pid
    BY ProbeInTable, SchedulerAssumption DEF Safe, TypeOK
  <2> HIDE DEF n, d, u
  <2>4. current_process' = n /\ state' = [d EXCEPT ![n] = "RUNNING"] /\ d[n] = "READY"
    BY <2>2 DEF Dispatch, n
  <2>5. UsedSlotsBelowNextPid'
    BY <1>1, <2>3, <2>4 DEF Orderly, UsedSlotsBelowNextPid
  <2>6. state'[0] \in {"READY", "RUNNING"} /\ state'[current_process'] = "RUNNING"
    BY <1>0, <1>1, <2>3, <2>4
  <2>6a. CreationInOrder'
    <3>0. New' = New /\ UNCHANGED <<creating, next_pid>>
      BY DEF New
    <3>1. New.slot \in Slot
      BY <1>0 DEF New, Safe, TypeOK, Creation
    <3>2. ASSUME Free(state, New.slot) PROVE Free(state', New.slot)
      <4>1. New.slot # current_process
        BY <3>2 DEF Free, Orderly
      <4>2. d[New.slot] = state[New.slot] /\ New.slot # n
        BY <1>1, <2>4, <3>1, <3>2, <4>1 DEF Free
      <4> QED
        BY <1>1, <2>4, <3>1, <3>2, <4>2 DEF Free
    <3>3. ASSUME state[New.slot] # "EMPTY" PROVE state'[New.slot] # "EMPTY"
      BY <1>0, <1>1, <2>4, <3>1, <3>3
    <3> QED
      BY <3>0, <3>2, <3>3 DEF Orderly, CreationInOrder, Free
  <2>7. CASE n = current_process
    <3>1. UNCHANGED <<context, cpu>>
      BY <2>2, <2>7 DEF Dispatch, n
    <3>2. st = state /\ ex = exited
      BY <1>1, <2>4, <2>7
    <3>2a. state' = state
      BY <1>0, <1>1, <2>3, <2>4, <2>7, <3>2 DEF Demote, Orderly, d
    <3>3. ReadyIsResumable'
      BY <1>1b, <2>4, <2>7, <3>1, <3>2, <3>2a DEF Orderly, ReadyIsResumable, u
    <3>4. KernelInSlotZero'
      BY <2>4, <2>7, <3>1, <3>2, <3>2a DEF Orderly, KernelInSlotZero
    <3>5. Kept
      BY <1>1b, <2>4, <2>7, <3>1, <3>2a DEF Kept, Settled, u
    <3> QED
      BY <1>1c, <2>5, <2>6, <2>6a, <3>3, <3>4, <3>5 DEF Orderly
  <2>8. CASE n # current_process
    <3>1. /\ context' = [context EXCEPT ![current_process] = cpu]
          /\ cpu' = context[n]
      BY <2>2, <2>8 DEF Dispatch, context_switch, n
    <3>2. state[n] = "READY"
      BY <1>1, <2>3, <2>4, <2>8
    <3>3. \A p \in Slot : p # current_process => context[p] # cpu
      BY <1>0 DEF Safe, OneHomePerThread, Alive
    <3>4. KernelInSlotZero'
      <4>1. context[n] = KernelThread <=> n = 0
        BY <1>0, <2>3, <2>8, <3>3
           DEF Orderly, KernelInSlotZero, Safe, OneHomePerThread, NoThread, KernelThread
      <4>2. n # 0 => context'[0] = KernelThread
        BY <1>0, <2>8, <3>1 DEF Orderly, KernelInSlotZero
      <4> QED
        BY <1>1c, <2>4, <2>6, <3>1, <4>1, <4>2 DEF KernelInSlotZero
    <3>6. ReadyIsResumable'
      <4>1. ASSUME NEW p \in Slot, state'[p] = "READY", ~u(p)
            PROVE  context'[p] \in 1 .. born /\ context'[p] \notin ex
        <5>1. p # n /\ d[p] = "READY"
          BY <1>1, <2>3, <2>4, <4>1
        <5>2. CASE p = current_process
          <6>1. context'[p] = cpu /\ ex = exited
            BY <1>0, <1>1, <3>1, <5>1, <5>2
          <6>2. cpu \notin exited
            BY <4>1, <5>2 DEF Orderly, ReadyIsResumable, u
          <6> QED
            BY <1>0, <6>1, <6>2
        <5>3. CASE p # current_process
          <6>1. context'[p] = context[p] /\ state[p] = "READY" /\ context[p] # cpu
            BY <1>0, <1>1, <3>1, <3>3, <5>1, <5>3
          <6>2. context[p] \in 1 .. born /\ context[p] \notin exited
            BY <4>1, <6>1 DEF Orderly, ReadyIsResumable, u
          <6> QED
            BY <1>1c, <6>1, <6>2
        <5> QED
          BY <5>2, <5>3
      <4>2. ASSUME ~u(n) PROVE context[n] \in 1 .. born /\ context[n] \notin ex
        <5>1. context[n] \in 1 .. born /\ context[n] \notin exited /\ context[n] # cpu
          BY <2>3, <2>8, <3>2, <3>3, <4>2 DEF Orderly, ReadyIsResumable, u
        <5> QED
          BY <1>1c, <5>1
      <4> QED
        BY <1>1b, <2>4, <3>1, <4>1, <4>2 DEF ReadyIsResumable, u
    <3>7. Kept
      <4> SUFFICES ASSUME NEW t \in Thread, Settled(t), t \notin ex
                   PROVE  Settled(t)'
        BY DEF Kept
      <4>1. CASE t = cpu /\ ~u(current_process)
        <5>1. st = state
          BY <4>1
        <5>2. context'[current_process] = t /\ state'[current_process] = "READY"
          BY <1>0, <1>1, <2>3, <2>4, <2>8, <3>1, <4>1, <5>1
        <5> QED
          BY <1>0, <1>1b, <4>1, <5>2 DEF Settled
      <4>2. ASSUME NEW p \in Slot, context[p] = t, state[p] = "READY", ~u(p)
            PROVE  Settled(t)'
        <5>1. p # current_process
          BY <4>2 DEF Orderly
        <5>2. CASE p = n
          BY <1>1b, <2>4, <3>1, <4>2, <5>2 DEF Settled
        <5>3. CASE p # n
          <6>1. context'[p] = t /\ state'[p] = "READY"
            BY <1>0, <1>1, <2>3, <2>4, <3>1, <4>2, <5>1, <5>3
          <6> QED
            BY <1>1b, <4>2, <6>1 DEF Settled
        <5> QED
          BY <5>2, <5>3
      <4> QED
        BY <4>1, <4>2 DEF Settled, u
    <3> QED
      BY <1>1c, <2>5, <2>6, <2>6a, <3>4, <3>6, <3>7 DEF Orderly
  <2> QED
    BY <2>7, <2>8
<1> QED
  BY <1>2, <1>3 DEF Safe, TypeOK

(* After a step of the kernel thread's creation too only that one can be unfinished. *)
LEMMA NextUnfinishedIsNew ==
    ASSUME CreationInOrder, NEW new, creating' = [creating EXCEPT ![KernelThread] = new], TypeOK
    PROVE  /\ New' = new
           /\ \A t \in Thread : t # KernelThread => creating'[t] = Idle
           /\ \A p \in Slot : Unfinished(p)' <=> new.at = "context" /\ new.slot = p
<1>1. KernelThread \in Thread
  BY SchedulerAssumption DEF KernelThread, Thread
<1>2. Idle.at # "context"
  BY DEF Idle
<1>3. creating'[KernelThread] = new
      /\ \A t \in Thread : t # KernelThread => creating'[t] = Idle
  BY <1>1 DEF CreationInOrder, TypeOK
<1> QED
  BY <1>1, <1>2, <1>3 DEF New, Unfinished

(* A step of a creation is taken by the kernel thread, in slot 0. *)
LEMMA KernelThreadCreates ==
    ASSUME Safe, Orderly, Alive, creating[cpu].at # "idle"
    PROVE  cpu = KernelThread /\ current_process = 0 /\ creating[cpu] = New
<1>1. cpu \in Thread /\ Idle.at = "idle"
  BY DEF Safe, TypeOK, Alive, Idle
<1> QED
  BY <1>1 DEF Orderly, CreationInOrder, KernelInSlotZero, New

LEMMA ScanOrderly ==
    ASSUME Safe, Orderly, KernelCreates, process_create_scan(TRUE) PROVE Orderly' /\ Kept
<1>1. PICK s \in Slot :
        /\ FirstFree(s)
        /\ creating' = [creating EXCEPT ![cpu] =
              [at |-> "raise", slot |-> s, raise |-> s >= next_pid, entry |-> TRUE]]
  BY DEF process_create_scan
<1>2. cpu = KernelThread /\ UNCHANGED <<state, next_pid, current_process, context, cpu, exited, born>>
  BY DEF process_create_scan, KernelCreates
<1> DEFINE new == [at |-> "raise", slot |-> s, raise |-> s >= next_pid, entry |-> TRUE]
<1>3. new.at = "raise" /\ new.slot = s /\ new.entry = TRUE /\ (new.raise <=> s >= next_pid)
  OBVIOUS
<1>4. creating' = [creating EXCEPT ![KernelThread] = new]
  BY <1>1, <1>2
<1> HIDE DEF new
<1>5. New' = new /\ (\A t \in Thread : t # KernelThread => creating'[t] = Idle)
      /\ \A p \in Slot : ~Unfinished(p)'
  BY <1>3, <1>4, NextUnfinishedIsNew DEF Safe, Orderly
<1>6. New.at = "idle" /\ \A p \in Slot : ~Unfinished(p)
  <2>1. New.at = "idle"
    BY <1>2 DEF process_create_scan, Running, New
  <2> QED
    BY <2>1, UnfinishedIsNew DEF Safe, Orderly
<1>7. Free(state, s) /\ s # 0
  BY <1>1 DEF FirstFree, Free, Orderly, KernelInSlotZero
<1>8. CreationInOrder'
  BY <1>2, <1>3, <1>5, <1>7 DEF CreationInOrder, Free
<1>9. current_process \in Slot
  BY DEF Safe, TypeOK
<1>10. ReadyIsResumable' /\ Kept
  BY <1>2, <1>5, <1>6, <1>9 DEF Orderly, ReadyIsResumable, Kept, Settled
<1> QED
  BY <1>2, <1>8, <1>10 DEF Orderly, UsedSlotsBelowNextPid, KernelInSlotZero

LEMMA RaiseOrderly ==
    ASSUME Safe, Orderly, process_create_raise PROVE Orderly' /\ Kept
<1>0. cpu = KernelThread /\ current_process = 0 /\ creating[cpu] = New /\ New.at = "raise"
  BY KernelThreadCreates DEF process_create_raise, At
<1>1. UNCHANGED <<state, current_process, context, cpu, exited, born>>
      /\ next_pid' = IF New.raise THEN New.slot + 1 ELSE next_pid
  BY <1>0 DEF process_create_raise
<1> DEFINE new == [New EXCEPT !.at = "claim"]
<1>2. New \in Creation
  BY SchedulerAssumption DEF New, Safe, TypeOK, KernelThread, Thread
<1>3. new.at = "claim" /\ new.slot = New.slot /\ new.entry = New.entry
  BY <1>2 DEF Creation
<1>4. creating' = [creating EXCEPT ![KernelThread] = new]
  BY <1>0 DEF process_create_raise, Goto, New
<1> HIDE DEF new
<1>5. New' = new /\ (\A t \in Thread : t # KernelThread => creating'[t] = Idle)
      /\ \A p \in Slot : ~Unfinished(p)'
  BY <1>3, <1>4, NextUnfinishedIsNew DEF Safe, Orderly
<1>6. \A p \in Slot : ~Unfinished(p)
  BY <1>0, UnfinishedIsNew DEF Safe, Orderly
<1>7. /\ New.slot \in Nat /\ next_pid \in Nat /\ (New.raise <=> New.slot >= next_pid)
      /\ current_process \in Slot /\ \A p \in Slot : p \in Nat
  BY <1>0, <1>2, SchedulerAssumption DEF Creation, Slot, Safe, TypeOK, Orderly, CreationInOrder
<1>8. next_pid' \in Nat /\ New.slot < next_pid' /\ next_pid <= next_pid'
  BY <1>1, <1>7
<1>9. CreationInOrder'
  BY <1>0, <1>1, <1>3, <1>5, <1>8 DEF Orderly, CreationInOrder, Free
<1>10. UsedSlotsBelowNextPid'
  BY <1>1, <1>7, <1>8 DEF Orderly, UsedSlotsBelowNextPid
<1>11. ReadyIsResumable' /\ Kept
  BY <1>1, <1>5, <1>6, <1>7 DEF Orderly, ReadyIsResumable, Kept, Settled
<1> QED
  BY <1>1, <1>9, <1>10, <1>11 DEF Orderly, KernelInSlotZero

(* The claim opens the window: the slot is READY and has its old context, or none. *)
LEMMA ClaimOrderly ==
    ASSUME Safe, Orderly, process_create_claim PROVE Orderly' /\ Kept
<1>0. cpu = KernelThread /\ current_process = 0 /\ creating[cpu] = New /\ New.at = "claim"
  BY KernelThreadCreates DEF process_create_claim, At
<1>1. UNCHANGED <<next_pid, current_process, context, cpu, exited, born>>
      /\ state' = [state EXCEPT ![New.slot] = "READY"]
  BY <1>0 DEF process_create_claim
<1> DEFINE new == [New EXCEPT !.at = "context"]
           s == New.slot
<1>2. New \in Creation
  BY SchedulerAssumption DEF New, Safe, TypeOK, KernelThread, Thread
<1>3. new.at = "context" /\ new.slot = s /\ new.entry = New.entry /\ s \in Slot
  BY <1>2 DEF Creation
<1>4. creating' = [creating EXCEPT ![KernelThread] = new]
  BY <1>0 DEF process_create_claim, Goto, New
<1> HIDE DEF new
<1>5. New' = new /\ (\A t \in Thread : t # KernelThread => creating'[t] = Idle)
      /\ \A p \in Slot : Unfinished(p)' <=> s = p
  BY <1>3, <1>4, NextUnfinishedIsNew DEF Safe, Orderly
<1>6. \A p \in Slot : ~Unfinished(p)
  BY <1>0, UnfinishedIsNew DEF Safe, Orderly
<1>7. /\ Free(state, s) /\ s # 0 /\ s < next_pid /\ New.entry = TRUE
      /\ current_process \in Slot /\ state \in [Slot -> States] /\ 0 \in Slot
  BY <1>0, SchedulerAssumption DEF Safe, TypeOK, Orderly, CreationInOrder, Slot
<1> HIDE DEF s
<1>8. state' = [state EXCEPT ![s] = "READY"] /\ state'[s] = "READY"
      /\ \A p \in Slot : p # s => state'[p] = state[p]
  BY <1>1, <1>3, <1>7 DEF s
<1>9. CreationInOrder'
  BY <1>1, <1>3, <1>5, <1>7, <1>8 DEF CreationInOrder, Free
<1>10. UsedSlotsBelowNextPid'
  BY <1>1, <1>3, <1>7, <1>8 DEF Orderly, UsedSlotsBelowNextPid
<1>11. ReadyIsResumable'
  BY <1>0, <1>1, <1>5, <1>6, <1>7, <1>8 DEF Orderly, ReadyIsResumable
<1>12. Kept
  <2> SUFFICES ASSUME NEW t \in Thread, Settled(t) PROVE Settled(t)'
    BY DEF Kept
  <2>1. CASE t = cpu
    BY <1>0, <1>1, <1>5, <1>7, <2>1 DEF Settled
  <2>2. ASSUME NEW p \in Slot, context[p] = t, state[p] = "READY" PROVE Settled(t)'
    <3>1. p # s
      BY <1>7, <2>2 DEF Free
    <3> QED
      BY <1>1, <1>5, <1>8, <2>2, <3>1 DEF Settled
  <2> QED
    BY <2>1, <2>2 DEF Settled
<1>13. state'[0] = state[0] /\ state'[current_process'] = "RUNNING"
  BY <1>0, <1>1, <1>7, <1>8 DEF Orderly
<1> QED
  BY <1>1, <1>9, <1>10, <1>11, <1>12, <1>13 DEF Orderly, KernelInSlotZero

(* The context closes it: the slot, if it still is READY, holds the new thread. *)
LEMMA ContextOrderly ==
    ASSUME Safe, Orderly, process_create_context PROVE Orderly' /\ Kept
<1>0. cpu = KernelThread /\ current_process = 0 /\ creating[cpu] = New /\ New.at = "context"
  BY KernelThreadCreates DEF process_create_context, At
<1> DEFINE s == New.slot
<1>1. /\ UNCHANGED <<state, next_pid, current_process, cpu, exited>>
      /\ New.entry = TRUE /\ context_init(s, TRUE) /\ s # 0
      /\ creating' = [creating EXCEPT ![KernelThread] = Idle]
  BY <1>0 DEF process_create_context, Orderly, CreationInOrder
<1>2. born' = born + 1 /\ context' = [context EXCEPT ![s] = born + 1]
  BY <1>1 DEF context_init
<1>3. s \in Slot
  BY SchedulerAssumption DEF New, Safe, TypeOK, KernelThread, Thread, Creation
<1>4. /\ born \in Nat /\ context \in [Slot -> Thread \cup {NoThread}]
      /\ current_process \in Slot /\ 0 \in Slot /\ exited \subseteq 1 .. born
  BY SchedulerAssumption DEF Safe, TypeOK, Orderly, Thread, Slot
<1>5. \A p \in Slot : Unfinished(p) <=> p = s
  BY <1>0, UnfinishedIsNew DEF Safe, Orderly
<1>6. Idle.at = "idle"
  BY DEF Idle
<1>7. New' = Idle /\ (\A t \in Thread : t # KernelThread => creating'[t] = Idle)
      /\ \A p \in Slot : ~Unfinished(p)'
  BY <1>1, <1>6, NextUnfinishedIsNew DEF Safe, Orderly
<1> HIDE DEF s
<1>8. CreationInOrder'
  BY <1>6, <1>7 DEF CreationInOrder
<1>9. /\ context'[s] = born + 1 /\ \A p \in Slot : p # s => context'[p] = context[p]
  BY <1>2, <1>3, <1>4
<1>10. \A t : t \in 1 .. born => t \in 1 .. born + 1
  BY <1>4
<1>10a. born + 1 \in 1 .. born + 1 /\ born + 1 \notin exited
  BY <1>4
<1>11. ReadyIsResumable'
  <2>1. ASSUME NEW p \in Slot, state[p] = "READY"
        PROVE  context'[p] \in 1 .. born + 1 /\ context'[p] \notin exited
    <3>1. CASE p = s
      BY <1>9, <1>10a, <3>1
    <3>2. CASE p # s
      <4>1. context[p] \in 1 .. born /\ context[p] \notin exited
        BY <1>5, <2>1, <3>2 DEF Orderly, ReadyIsResumable
      <4> QED
        BY <1>9, <1>10, <3>2, <4>1
    <3> QED
      BY <3>1, <3>2
  <2>2. cpu \in 1 .. born + 1 /\ cpu \notin exited
    BY <1>0, <1>1, <1>4, <1>5, <1>10 DEF Orderly, ReadyIsResumable
  <2> QED
    BY <1>1, <1>2, <2>1, <2>2 DEF ReadyIsResumable
<1>12. Kept
  <2> SUFFICES ASSUME NEW t \in Thread, Settled(t) PROVE Settled(t)'
    BY DEF Kept
  <2>1. CASE t = cpu
    BY <1>1, <1>4, <1>7, <2>1 DEF Settled
  <2>2. ASSUME NEW p \in Slot, context[p] = t, state[p] = "READY", ~Unfinished(p)
        PROVE  Settled(t)'
    BY <1>1, <1>5, <1>7, <1>9, <2>2 DEF Settled
  <2> QED
    BY <2>1, <2>2 DEF Settled
<1>13. KernelInSlotZero'
  BY <1>0, <1>1 DEF Orderly, KernelInSlotZero
<1>14. exited' \subseteq 1 .. born'
  BY <1>1, <1>2, <1>4, <1>10
<1> QED
  BY <1>1, <1>8, <1>11, <1>12, <1>13, <1>14 DEF Orderly, UsedSlotsBelowNextPid

LEMMA NextOrderly ==
    ASSUME KernelCreates
    PROVE  Safe /\ Orderly /\ [Next]_vars => Orderly' /\ Kept
<1> SUFFICES ASSUME Safe, Orderly, [Next]_vars PROVE Orderly' /\ Kept
  OBVIOUS
<1>0. state \in [Slot -> States] /\ current_process \in Slot
  BY DEF Safe, TypeOK
<1>1. CASE timer_interrupt_handler
  BY <1>0, <1>1, ScheduleOrderly DEF timer_interrupt_handler
<1>2. CASE sys_yield
  BY <1>0, <1>2, ScheduleOrderly DEF sys_yield, Running
<1>3. CASE process_exit
  <2> DEFINE st == [state EXCEPT ![current_process] = "ZOMBIE"]
  <2>1. st \in [Slot -> States] /\ current_process # 0 /\ Alive
    BY <1>0, <1>3 DEF process_exit, States, KernelCreates, Running
  <2>2. /\ schedule(st) /\ exited' = exited \cup {cpu}
        /\ UNCHANGED <<next_pid, born, creating>>
    BY <1>3 DEF process_exit
  <2> QED
    BY <2>1, <2>2, ScheduleOrderly
<1>4. CASE \E entry \in EntryArg : process_create_scan(entry)
  <2>1. process_create_scan(TRUE)
    BY <1>4 DEF EntryArg, KernelCreates
  <2> QED
    BY <2>1, ScanOrderly
<1>5. CASE process_create_raise \/ process_create_claim \/ process_create_context
  BY <1>5, RaiseOrderly, ClaimOrderly, ContextOrderly
<1>6. CASE UNCHANGED vars
  BY <1>6
     DEF vars, Orderly, UsedSlotsBelowNextPid, CreationInOrder, New, Free, KernelInSlotZero,
         ReadyIsResumable, Unfinished, Kept, Settled
<1> QED
  BY <1>1, <1>2, <1>3, <1>4, <1>5, <1>6 DEF Next

LEMMA OrderlyAlways ==
    ASSUME KernelCreates
    PROVE  Spec => []Orderly
<1>1. Init => Orderly
  BY InitOrderly
<1>2. Safe /\ Orderly /\ [Next]_vars => Orderly'
  BY NextOrderly
<1> QED
  BY <1>1, <1>2, SafeAlways, PTL DEF Spec

(* process_exit returns to its caller only in the slot of an unfinished creation: in
   any other state there is another READY process for schedule to switch to, and what
   it resumes has not exited. *)
THEOREM ExitNeverReturnsAlways ==
    ASSUME KernelCreates
    PROVE  Spec => []ExitNeverReturns
<1>1. Orderly => ExitNeverReturns
  BY DEF Orderly, ReadyIsResumable, ExitNeverReturns
<1> QED
  BY <1>1, OrderlyAlways, PTL

(* However creations are interrupted, no thread that can go on is lost by a step of
   the scheduler or of a creation. *)
THEOREM LiveThreadsKeptAlways ==
    ASSUME KernelCreates
    PROVE  Spec => LiveThreadsKept
<1>1. Safe /\ Orderly /\ [Next]_vars =>
         [\A t \in Thread : Settled(t) /\ t \notin exited' => Settled(t)']_vars
  BY NextOrderly DEF Kept
<1> QED
  BY <1>1, SafeAlways, OrderlyAlways, PTL DEF Spec, LiveThreadsKept

(* Every used slot is below next_pid, within reach of the loops of schedule and
   process_print_list, at every step of an interrupted creation. *)
THEOREM UsedSlotsBelowNextPidAlways ==
    ASSUME KernelCreates
    PROVE  Spec => []UsedSlotsBelowNextPid
<1>1. Orderly => UsedSlotsBelowNextPid
  BY DEF Orderly
<1> QED
  BY <1>1, OrderlyAlways, PTL

(* Every slot that schedule may pick, but the one of an unfinished creation, holds a
   context that was written. *)
THEOREM ReadyHasContextAlways ==
    ASSUME KernelCreates
    PROVE  Spec => []ReadyHasContext
<1>1. Orderly => ReadyHasContext
  BY DEF Orderly, ReadyIsResumable, ReadyHasContext, NoThread
<1> QED
  BY <1>1, OrderlyAlways, PTL
=============================================================================
