------------------------------ MODULE Tasking ------------------------------
(***************************************************************************)
(* Processes, the timer interrupt and the context switch: init_tasking,    *)
(* fork and switch_task (kernel/task.c), the run queue (kernel/process.c), *)
(* timer_callback and sleep (kernel/timer.c) and the interrupt stub around *)
(* them (kernel/arch/interrupts.s).                                        *)
(*                                                                         *)
(* One processor runs one process at a time and takes a timer interrupt    *)
(* between any two steps while interrupts are enabled.  The handler runs   *)
(* with interrupts off, from the stub's cli to its iret or to the jump     *)
(* into another process, so it is one step.  fork is several, though it    *)
(* starts with cli: nothing but that keeps the timer out.                  *)
(***************************************************************************)
EXTENDS Integers, FiniteSets

CONSTANTS
  Procs,   \* the process structures there is memory for
  kernel,  \* the one of the kernel itself, pid 0
  NULL,    \* the null pointer
  TICKS,   \* 2^32 in the kernel: tick and wait_till count modulo TICKS
  Naps     \* the arguments sleep is called with

ASSUME ProcAssumption == kernel \in Procs /\ NULL \notin Procs
ASSUME TickAssumption == TICKS \in Nat \ {0} /\ Naps \subseteq Nat

VARIABLES
  interrupts,         \* the processor's interrupt flag
  root_proc,
  current_process,
  next,               \* next[p]: process_t.next
  thread,             \* thread[p]: where p's saved context continues, "zero"
                      \* (nowhere yet), "fork" or "switch_task"
  page_directory,     \* page_directory[p], named after the process it is for
  current_directory,  \* the directory in cr3
  pc,                 \* pc[p]: what p does next when it runs
  new_proc,           \* new_proc[p]: the local variable of p's fork
  tick, wait_till, unlock,
  in_service,         \* the interrupt controller holds back IRQ0 until it is
                      \* told that the last one is served
  framed,             \* history: processes whose interrupt frame is not yet
                      \* popped: their registers wait on their stack
  youngest,           \* history: the process forked last, NULL before
  sleeper, owed       \* history: who called sleep last, and how many ticks
                      \* of that sleep are still to come

vars == <<interrupts, root_proc, current_process, next, thread, page_directory,
          current_directory, pc, new_proc, tick, wait_till, unlock,
          in_service, framed, youngest, sleeper, owed>>

queue == <<root_proc, next, youngest>>
clock == <<tick, wait_till, unlock, in_service, sleeper, owed>>
space == <<page_directory, current_directory>>

-----------------------------------------------------------------------------
(* The process on the processor; the kernel until there is a current one.  *)
Running == IF current_process = NULL THEN kernel ELSE current_process

Born == {p \in Procs : pc[p] # "unborn"}

At(p, here) == p = Running /\ pc[p] = here
Goto(p, there) == pc' = [pc EXCEPT ![p] = there]

Init ==
  /\ interrupts = TRUE        \* kernel_main enables them before init_tasking
  /\ root_proc = NULL
  /\ current_process = NULL
  /\ next = [p \in Procs |-> NULL]
  /\ thread = [p \in Procs |-> "zero"]
  /\ page_directory = [p \in Procs |-> NULL]
  /\ current_directory = kernel
  /\ pc = [p \in Procs |-> IF p = kernel THEN "init_tasking" ELSE "unborn"]
  /\ new_proc = [p \in Procs |-> NULL]
  /\ tick = 0 /\ wait_till = 0 /\ unlock = TRUE
  /\ in_service = FALSE
  /\ sleeper = NULL /\ owed = 0
  /\ framed = {} /\ youngest = NULL

-----------------------------------------------------------------------------
(* init_tasking: cli; root_proc is set in init_kernel_process, before      *)
(* current_process is; sti.                                                *)

InitTasking(p) ==
  /\ At(p, "init_tasking")
  /\ interrupts' = FALSE
  /\ Goto(p, "init_kernel_process")
  /\ UNCHANGED <<queue, current_process, thread, space, new_proc, clock, framed>>

InitKernelProcess(p) ==
  /\ At(p, "init_kernel_process")
  /\ root_proc' = kernel
  /\ Goto(p, "set_current")
  /\ UNCHANGED <<interrupts, next, youngest, current_process, thread, space, new_proc, clock,
                 framed>>

SetCurrent(p) ==
  /\ At(p, "set_current")
  /\ current_process' = root_proc
  /\ page_directory' = [page_directory EXCEPT ![root_proc] = current_directory]
  /\ interrupts' = TRUE
  /\ Goto(p, "run")
  /\ UNCHANGED <<queue, thread, current_directory, new_proc, clock, framed>>

-----------------------------------------------------------------------------
(* fork: cli, clone the address space and spawn the child, fill in the     *)
(* child's context, sti.  The child continues from read_eip with the       *)
(* interrupt flag as it finds it, and returns 0.                           *)

(* Mutant: no cli.                                                         *)
ForkEnter_NoCli(p) ==
  /\ At(p, "run")
  /\ Born # Procs
  /\ Goto(p, "spawn")
  /\ UNCHANGED <<interrupts, queue, current_process, thread, space, new_proc, clock, framed>>

ForkEnter(p) ==
  /\ At(p, "run")
  /\ Born # Procs
  /\ interrupts' = FALSE
  /\ Goto(p, "spawn")
  /\ UNCHANGED <<queue, current_process, thread, space, new_proc, clock, framed>>

(* Mutant: the child is linked behind the kernel, in front of the rest.    *)
Spawn_KeepsRest(p) ==
  /\ At(p, "spawn")
  /\ \E c \in Procs \ Born :
       /\ new_proc' = [new_proc EXCEPT ![p] = c]
       /\ thread' = [thread EXCEPT ![c] = "zero"]
       /\ next' = [next EXCEPT ![root_proc] = c, ![c] = next[root_proc]]
       /\ page_directory' = [page_directory EXCEPT ![c] = c]
       /\ youngest' = c
       /\ pc' = [pc EXCEPT ![p] = "save_child", ![c] = "fork_child"]
  /\ UNCHANGED <<interrupts, root_proc, current_process, current_directory, clock, framed>>

(* spawn_process links the child right behind the root, whatever was there,*)
(* with a context of zeros.                                                *)
Spawn(p) ==
  /\ At(p, "spawn")
  /\ \E c \in Procs \ Born :
       /\ new_proc' = [new_proc EXCEPT ![p] = c]
       /\ thread' = [thread EXCEPT ![c] = "zero"]
       /\ next' = [next EXCEPT ![root_proc] = c, ![c] = NULL]
       /\ page_directory' = [page_directory EXCEPT ![c] = c]
       /\ youngest' = c
       /\ pc' = [pc EXCEPT ![p] = "save_child", ![c] = "fork_child"]
  /\ UNCHANGED <<interrupts, root_proc, current_process, current_directory, clock, framed>>

(* Mutant: no sti.                                                         *)
SaveChild_NoSti(p) ==
  /\ At(p, "save_child")
  /\ thread' = [thread EXCEPT ![new_proc[p]] = "fork"]
  /\ Goto(p, "run")
  /\ UNCHANGED <<interrupts, queue, current_process, space, new_proc, clock, framed>>

SaveChild(p) ==
  /\ At(p, "save_child")
  /\ thread' = [thread EXCEPT ![new_proc[p]] = "fork"]
  /\ interrupts' = TRUE
  /\ Goto(p, "run")
  /\ UNCHANGED <<queue, current_process, space, new_proc, clock, framed>>

ForkChild(p) ==
  /\ At(p, "fork_child")
  /\ Goto(p, "run")
  /\ UNCHANGED <<interrupts, queue, current_process, thread, space, new_proc, clock, framed>>

-----------------------------------------------------------------------------
(* sleep: wait_till, then unlock, then spin until the timer sets unlock.   *)

SleepTill(p) ==
  /\ At(p, "run")
  /\ \E msec \in Naps :
       /\ wait_till' = (tick + msec) % TICKS
       /\ owed' = IF tick + msec < TICKS THEN msec ELSE 0
  /\ sleeper' = p
  /\ Goto(p, "lock")
  /\ UNCHANGED <<interrupts, queue, current_process, thread, space, new_proc,
                 tick, unlock, in_service, framed>>

SleepLock(p) ==
  /\ At(p, "lock")
  /\ unlock' = FALSE
  /\ Goto(p, "spin")
  /\ UNCHANGED <<interrupts, queue, current_process, thread, space, new_proc,
                 tick, wait_till, in_service, framed, sleeper, owed>>

SleepEnd(p) ==
  /\ At(p, "spin")
  /\ unlock
  /\ Goto(p, "run")
  /\ UNCHANGED <<interrupts, queue, current_process, thread, space, new_proc, clock, framed>>

-----------------------------------------------------------------------------
(* The timer interrupt.                                                    *)

(* Mutant: the queue is never followed.                                    *)
schedule_RootOnly == root_proc

schedule == IF next[current_process] # NULL THEN next[current_process] ELSE root_proc

(* timer_callback up to its call of switch_task; due says whether the      *)
(* sleeper's time has come.                                                *)
Tick(count, due) ==
  /\ tick' = count
  /\ unlock' = (unlock \/ due)
  /\ owed' = IF owed = 0 THEN 0 ELSE owed - 1
  /\ UNCHANGED <<wait_till, sleeper>>

(* Mutants: the sleeper is released one tick late or one tick early.       *)
TimerCallback_Late == Tick((tick + 1) % TICKS, tick' > wait_till)
TimerCallback_Early == Tick((tick + 1) % TICKS, tick' + 1 >= wait_till)

TimerCallback == Tick((tick + 1) % TICKS, tick' >= wait_till)

(* Mutant: the controller is told when the handler returns.                *)
EndOfInterrupt_AfterHandler == in_service' = ~interrupts'

(* irq_handler tells the controller before it calls the handler, which may *)
(* not return: a switch to a new child does not.                           *)
EndOfInterrupt == in_service' = FALSE

(* Mutant: cr3 keeps the directory of the process switched from.           *)
SwitchTask_SameDirectory ==
  LET q == schedule
  IN /\ thread' = [thread EXCEPT ![current_process] = "switch_task"]
     /\ current_process' = q
     /\ interrupts' = (thread'[q] = "switch_task")
     /\ framed' = (framed \cup {current_process})
                   \ (IF thread'[q] = "switch_task" THEN {q} ELSE {})
     /\ UNCHANGED current_directory

(* switch_task saves where the interrupted process is, and jumps to where  *)
(* the next one was saved.  A process saved in switch_task returns through *)
(* its interrupt frame, whose iret restores the flags it was interrupted   *)
(* with, interrupts enabled; one saved in fork runs on with them disabled. *)
SwitchTask ==
  LET p == current_process
      q == schedule
  IN /\ thread' = [thread EXCEPT ![p] = "switch_task"]
     /\ current_process' = q
     /\ current_directory' = page_directory[q]
     /\ interrupts' = (thread'[q] = "switch_task")
     /\ framed' = (framed \cup {p}) \ (IF thread'[q] = "switch_task" THEN {q} ELSE {})

TimerIRQ ==
  /\ interrupts /\ ~in_service
  /\ TimerCallback
  /\ IF root_proc = NULL
     THEN UNCHANGED <<interrupts, current_process, thread, current_directory, framed>>
     ELSE SwitchTask
  /\ EndOfInterrupt
  /\ UNCHANGED <<queue, page_directory, pc, new_proc>>

-----------------------------------------------------------------------------
(* What a process does once it has started it, and what it may start.      *)
Continue(p) ==
  \/ InitTasking(p) \/ InitKernelProcess(p) \/ SetCurrent(p)
  \/ Spawn(p) \/ SaveChild(p) \/ ForkChild(p)
  \/ SleepLock(p) \/ SleepEnd(p)

Call(p) == ForkEnter(p) \/ SleepTill(p)

Next == TimerIRQ \/ \E p \in Procs : Continue(p) \/ Call(p)

Spec == Init /\ [][Next]_vars

(* The timer keeps firing and its interrupt is taken while the processor   *)
(* accepts it; the processor keeps executing, and what a process has begun *)
(* it goes on with.  Nobody is obliged to fork or to sleep.                *)
Fairness == WF_vars(TimerIRQ) /\ \A p \in Procs : WF_vars(Continue(p))
FairSpec == Spec /\ Fairness

-----------------------------------------------------------------------------
(* Properties.                                                             *)

TypeOK ==
  /\ interrupts \in BOOLEAN /\ unlock \in BOOLEAN
  /\ root_proc \in {kernel, NULL}
  /\ current_process \in Procs \cup {NULL}
  /\ next \in [Procs -> Procs \cup {NULL}]
  /\ thread \in [Procs -> {"zero", "fork", "switch_task"}]
  /\ page_directory \in [Procs -> Procs \cup {NULL}]
  /\ current_directory \in Procs \cup {NULL}
  /\ pc \in [Procs -> {"unborn", "init_tasking", "init_kernel_process", "set_current",
                       "run", "spawn", "save_child", "fork_child", "lock", "spin"}]
  /\ new_proc \in [Procs -> Procs \cup {NULL}]
  /\ tick \in 0..TICKS-1 /\ wait_till \in 0..TICKS-1
  /\ in_service \in BOOLEAN
  /\ framed \subseteq Procs /\ youngest \in Procs \cup {NULL}
  /\ sleeper \in Procs \cup {NULL} /\ owed \in Nat

(* Whenever the timer may fire, whatever process schedule() could pick has *)
(* a context to continue from: one saved by fork and not yet started, or   *)
(* one whose interrupt frame is still on its stack; and there is a current *)
(* process to save to once there is a root.                                *)
Resumable(p) ==
  \/ p = current_process
  \/ thread[p] = "fork" /\ pc[p] = "fork_child"
  \/ thread[p] = "switch_task" /\ p \in framed
SwitchIsSafe ==
  interrupts /\ root_proc # NULL =>
    /\ current_process # NULL
    /\ Resumable(schedule)

(* The address space in cr3 is the running process's own.                  *)
OwnDirectory ==
  current_process # NULL => current_directory = page_directory[current_process]

(* Interrupts are off exactly behind the cli of init_tasking and fork, up  *)
(* to the sti that ends them, and in a child that was started inside       *)
(* another process's timer interrupt, which waits: until it forks itself   *)
(* nothing turns them on again in it.                                      *)
BehindCli(p) == pc[p] \in {"init_kernel_process", "set_current", "spawn", "save_child"}
StartedInside(p) ==
  /\ thread[p] = "fork" /\ new_proc[p] = NULL
  /\ \E q \in framed : q # p
InterruptsOff ==
  interrupts <=> ~BehindCli(Running) /\ ~StartedInside(Running)

(* The run queue is the root and behind it the process forked last, by     *)
(* whichever process: spawn_process overwrites the root's successor, so    *)
(* the switch alternates between the root and the youngest, and all other  *)
(* children are off the queue.                                             *)
QueueIsRootAndYoungest ==
  root_proc # NULL =>
    /\ next[root_proc] = youngest
    /\ youngest # NULL => youngest # root_proc /\ next[youngest] = NULL

(* A forked child gets to run and returns from fork, unless another fork   *)
(* comes first and drops it from the queue.                                *)
ChildRuns ==
  \A p \in Procs :
    pc[p] = "fork_child" ~> pc[p] = "run" \/ next[kernel] # p

(* A sleep ends, as long as the sleeper is the only process.               *)
SleepEnds ==
  Born = {kernel} /\ pc[kernel] = "lock" ~> pc[kernel] = "run"


(* Nobody returns from sleep early: when the last caller of sleep sees     *)
(* unlock set, as many ticks as it asked for have passed, whatever the     *)
(* timer did between the assignments of wait_till and of unlock.  A sleep  *)
(* across the counter's end is promised nothing: tick >= wait_till does    *)
(* not count around it.                                                    *)
SleepLongEnough ==
  \A p \in Procs : p = sleeper /\ pc[p] = "spin" /\ unlock => owed = 0

(* While a process accepts interrupts the timer keeps interrupting it,     *)
(* also one that was started out of an interrupt that never returned.      *)
TimerServed ==
  \A t \in 0..TICKS-1 : tick = t /\ interrupts ~> tick # t \/ ~interrupts

(* What kernel/arch/interrupts.s:134-136 says of the interrupt stub: every *)
(* frame it saves it finally restores.                                     *)
FrameRestored ==
  \A p \in Procs : p \in framed ~> p \notin framed
=============================================================================
