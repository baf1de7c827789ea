--------------------------- MODULE TaskingProofs ---------------------------
(***************************************************************************)
(* Proofs about Tasking, for any number of processes: whatever the switch  *)
(* resumes has been saved, and what the timer relies on holds whenever it  *)
(* may fire.                                                               *)
(***************************************************************************)
EXTENDS Tasking, TLAPS

(* Until there is a current process the kernel is alone and in             *)
(* init_tasking, with interrupts off from its cli on.                      *)
Starting ==
  current_process = NULL =>
    /\ pc[kernel] \in {"init_tasking", "init_kernel_process", "set_current"}
    /\ interrupts = (pc[kernel] = "init_tasking")
    /\ root_proc = IF pc[kernel] = "set_current" THEN kernel ELSE NULL
    /\ \A p \in Procs : p # kernel => pc[p] = "unborn"
    /\ framed = {}
    /\ next[kernel] = NULL /\ youngest = NULL

Started ==
  current_process # NULL =>
    /\ root_proc = kernel
    /\ \A p \in Procs : pc[p] \notin {"init_tasking", "init_kernel_process", "set_current"}

(* The child that fork has linked into the queue, but not prepared yet.    *)
BeingForked(p) ==
  /\ current_process # NULL
  /\ pc[current_process] = "save_child" /\ new_proc[current_process] = p
  /\ pc[p] = "fork_child" /\ p # current_process /\ p \notin framed

(* Between fork's cli and its sti its process runs, with interrupts off.   *)
Forking ==
  \A p \in Procs :
    /\ pc[p] \in {"spawn", "save_child"} => p = current_process /\ ~interrupts
    /\ pc[p] = "save_child" => new_proc[p] \in Procs /\ BeingForked(new_proc[p])

(* Every process there is, on the queue or not, could be resumed.          *)
AllResumable ==
  /\ \A p \in Born \ {Running} : Resumable(p) \/ BeingForked(p)
  /\ Running \in Born
  /\ \A p \in Procs : next[p] # NULL => next[p] \in Born
  /\ kernel \in Born
  /\ Running \notin framed
  /\ \A p \in framed : p \in Born /\ thread[p] = "switch_task"

(* The kernel is nobody's child, and who has not run yet has not forked.   *)
Fresh ==
  /\ thread[kernel] # "fork" /\ \A p \in Procs : new_proc[p] # kernel
  /\ \A p \in Procs : pc[p] \in {"unborn", "fork_child"} => new_proc[p] = NULL

IInv ==
  /\ TypeOK /\ Starting /\ Started /\ Forking /\ AllResumable /\ Fresh
  /\ OwnDirectory /\ InterruptsOff /\ QueueIsRootAndYoungest

-----------------------------------------------------------------------------
LEMMA InitInv == Init => IInv
<1> SUFFICES ASSUME Init PROVE IInv
  OBVIOUS
<1> USE ProcAssumption, TickAssumption DEF Init
<1>1. TypeOK
  <2>1. 0 \in 0..TICKS-1 /\ 0 \in Nat
    OBVIOUS
  <2>2. {} \subseteq Procs
    OBVIOUS
  <2> QED BY <2>1, <2>2, Zenon DEF TypeOK
<1>2. Starting /\ Started /\ Forking
  BY DEF Starting, Started, Forking, BeingForked
<1>3. AllResumable
  BY DEF AllResumable, Born, Running
<1>4. OwnDirectory /\ InterruptsOff /\ QueueIsRootAndYoungest
  BY DEF OwnDirectory, InterruptsOff, BehindCli, StartedInside, Running, QueueIsRootAndYoungest
<1>5. Fresh
  BY DEF Fresh
<1> QED
  BY <1>1, <1>2, <1>3, <1>4, <1>5 DEF IInv

(* What the timer finds when it may fire: a current process, which is the  *)
(* kernel if there is no other, and a next one that can be resumed.        *)
LEMMA SwitchFacts ==
  ASSUME IInv, interrupts, root_proc # NULL
  PROVE  /\ current_process \in Procs
         /\ schedule \in Procs /\ schedule \in Born
         /\ Resumable(schedule)
<1> USE ProcAssumption DEF IInv
<1>1. current_process \in Procs
  BY DEF Starting, TypeOK
<1>2. schedule \in Procs /\ schedule \in Born
  BY <1>1 DEF schedule, Started, AllResumable, Born, TypeOK
<1>3. ~BeingForked(schedule)
  BY <1>1 DEF BeingForked, Forking
<1>4. Resumable(schedule)
  BY <1>1, <1>2, <1>3 DEF AllResumable, Running, Resumable
<1> QED
  BY <1>1, <1>2, <1>4

LEMMA TypeStep == IInv /\ [Next]_vars => TypeOK'
<1> SUFFICES ASSUME IInv, [Next]_vars PROVE TypeOK'
  OBVIOUS
<1> USE ProcAssumption, TickAssumption DEF IInv, TypeOK, queue, clock, space, At, Goto
<1>1. ASSUME NEW p \in Procs, Continue(p) PROVE TypeOK'
  <2>1. CASE InitTasking(p) BY <2>1 DEF InitTasking
  <2>2. CASE InitKernelProcess(p) BY <2>2 DEF InitKernelProcess
  <2>3. CASE SetCurrent(p) BY <2>3 DEF SetCurrent
  <2>4. CASE Spawn(p) BY <2>4 DEF Spawn, Born
  <2>5. CASE SaveChild(p) BY <2>5 DEF SaveChild
  <2>6. CASE ForkChild(p) BY <2>6 DEF ForkChild
  <2>7. CASE SleepLock(p) BY <2>7 DEF SleepLock
  <2>8. CASE SleepEnd(p) BY <2>8 DEF SleepEnd
  <2> QED BY <1>1, <2>1, <2>2, <2>3, <2>4, <2>5, <2>6, <2>7, <2>8 DEF Continue
<1>2. ASSUME NEW p \in Procs, ForkEnter(p) PROVE TypeOK'
  BY <1>2 DEF ForkEnter
<1>3. ASSUME NEW p \in Procs, SleepTill(p) PROVE TypeOK'
  <2>1. \A msec \in Naps : (tick + msec) % TICKS \in 0..TICKS-1
    OBVIOUS
  <2> QED BY <1>3, <2>1 DEF SleepTill
<1>4. CASE TimerIRQ
  <2>1. (tick + 1) % TICKS \in 0..TICKS-1
    OBVIOUS
  <2>2. /\ tick' \in 0..TICKS-1 /\ unlock' \in BOOLEAN /\ wait_till' = wait_till
        /\ owed' \in Nat /\ sleeper' = sleeper /\ in_service' \in BOOLEAN
    <3>1. tick' \in 0..TICKS-1 /\ wait_till' = wait_till /\ sleeper' = sleeper
      BY <1>4, <2>1 DEF TimerIRQ, TimerCallback, Tick
    <3>2. owed' \in Nat
      BY <1>4 DEF TimerIRQ, TimerCallback, Tick
    <3>3. in_service' \in BOOLEAN
      BY <1>4 DEF TimerIRQ, EndOfInterrupt
    <3>4. unlock' \in BOOLEAN
      BY <1>4, Zenon DEF TimerIRQ, TimerCallback, Tick
    <3> QED BY <3>1, <3>2, <3>3, <3>4
  <2>3. CASE root_proc = NULL
    BY <1>4, <2>2, <2>3 DEF TimerIRQ
  <2>4. CASE root_proc # NULL
    BY <1>4, <2>2, <2>4, SwitchFacts DEF TimerIRQ, SwitchTask
  <2> QED BY <2>3, <2>4
<1>5. CASE UNCHANGED vars
  BY <1>5 DEF vars
<1> QED
  BY <1>1, <1>2, <1>3, <1>4, <1>5 DEF Next, Call

(* One step keeps the rest of the invariant.  Under a switch only the two  *)
(* processes involved change places; everywhere else only p moves on.      *)
LEMMA InvStep == IInv /\ [Next]_vars => IInv'
<1> SUFFICES ASSUME IInv, [Next]_vars PROVE IInv'
  OBVIOUS
<1>t. TypeOK'
  BY TypeStep
<1> USE ProcAssumption DEF IInv, queue, clock, space, At, Goto
<1>1. ASSUME NEW p \in Procs, InitTasking(p) PROVE IInv'
  <2> USE <1>1 DEF InitTasking
  <2>0. current_process = NULL /\ p = kernel
    BY DEF Running, Started, TypeOK
  <2>1. Starting'
    <3>1. /\ root_proc' = NULL /\ framed' = {} /\ next'[kernel] = NULL /\ youngest' = NULL
          /\ \A q \in Procs : q # kernel => pc[q] = "unborn"
      BY <2>0 DEF Starting
    <3>2. /\ pc'[kernel] = "init_kernel_process"
          /\ \A q \in Procs : q # kernel => pc'[q] = pc[q]
      BY <2>0 DEF TypeOK
    <3>3. interrupts' = (pc'[kernel] = "init_tasking")
      BY <3>2
    <3>. QED BY ONLY <3>1, <3>2, <3>3 DEF Starting
  <2>4. Started'
    BY <2>0 DEF Started, TypeOK
  <2>2. Forking' /\ AllResumable'
    BY <2>0 DEF Forking, AllResumable, BeingForked, Resumable, Born, Running, Starting, TypeOK
  <2>3. OwnDirectory' /\ QueueIsRootAndYoungest' /\ Fresh'
    BY <2>0 DEF OwnDirectory, QueueIsRootAndYoungest, Fresh, TypeOK
  <2>5. InterruptsOff'
    BY <2>0 DEF InterruptsOff, BehindCli, Running, TypeOK
  <2> QED BY <1>t, <2>1, <2>2, <2>3, <2>4, <2>5
<1>2. ASSUME NEW p \in Procs, InitKernelProcess(p) PROVE IInv'
  <2> USE <1>2 DEF InitKernelProcess
  <2>0. current_process = NULL /\ p = kernel
    BY DEF Running, Started, TypeOK
  <2>1. Starting' /\ Started'
    BY <2>0 DEF Starting, Started, TypeOK
  <2>2. Forking' /\ AllResumable'
    BY <2>0 DEF Forking, AllResumable, BeingForked, Resumable, Born, Running, Starting, TypeOK
  <2>3. OwnDirectory' /\ QueueIsRootAndYoungest' /\ Fresh'
    BY <2>0 DEF OwnDirectory, QueueIsRootAndYoungest, Fresh, Starting, TypeOK
  <2>4. InterruptsOff'
    BY <2>0 DEF InterruptsOff, BehindCli, StartedInside, Fresh, Running, Starting, TypeOK
  <2> QED BY <1>t, <2>1, <2>2, <2>3, <2>4
<1>3. ASSUME NEW p \in Procs, SetCurrent(p) PROVE IInv'
  <2> USE <1>3 DEF SetCurrent
  <2>0. current_process = NULL /\ p = kernel /\ root_proc = kernel
    BY DEF Running, Started, Starting, TypeOK
  <2>1. Starting' /\ Started'
    BY <2>0 DEF Starting, Started, TypeOK
  <2>2. Forking' /\ AllResumable'
    BY <2>0 DEF Forking, AllResumable, BeingForked, Resumable, Born, Running, Starting, TypeOK
  <2>3. OwnDirectory' /\ QueueIsRootAndYoungest' /\ Fresh'
    BY <2>0 DEF OwnDirectory, QueueIsRootAndYoungest, Fresh, Starting, TypeOK
  <2>4. InterruptsOff'
    BY <2>0 DEF InterruptsOff, BehindCli, StartedInside, Fresh, Running, Starting, TypeOK
  <2> QED BY <1>t, <2>1, <2>2, <2>3, <2>4
<1>r. ASSUME NEW p \in Procs, p = Running, pc[p] \in {"run", "spawn", "save_child", "fork_child", "lock", "spin"}
      PROVE  current_process = p /\ root_proc = kernel
  BY <1>r DEF Running, Starting, Started, TypeOK
<1>4. ASSUME NEW p \in Procs, Spawn(p) PROVE IInv'
  <2>0. current_process = p /\ root_proc = kernel
    BY <1>4, <1>r DEF Spawn
  <2>c. PICK c \in Procs \ Born :
       /\ new_proc' = [new_proc EXCEPT ![p] = c]
       /\ thread' = [thread EXCEPT ![c] = "zero"]
       /\ next' = [next EXCEPT ![root_proc] = c, ![c] = NULL]
       /\ page_directory' = [page_directory EXCEPT ![c] = c]
       /\ youngest' = c
       /\ pc' = [pc EXCEPT ![p] = "save_child", ![c] = "fork_child"]
    BY <1>4 DEF Spawn
  <2>u. /\ c # p /\ c # kernel /\ pc[c] = "unborn" /\ c # NULL /\ c # current_process /\ c \notin framed
        /\ UNCHANGED <<interrupts, root_proc, current_process, current_directory, framed>>
        /\ pc[p] = "spawn" /\ ~interrupts
    BY <1>4, <2>0, <2>c DEF Spawn, Born, AllResumable, Forking
  <2>1. Starting' /\ Started'
    BY <2>0, <2>c, <2>u DEF Starting, Started, TypeOK
  <2>2. Forking'
    BY <2>0, <2>c, <2>u DEF Forking, BeingForked, TypeOK
  <2>3. Born' = Born \cup {c} /\ Running' = Running
    BY <2>0, <2>c, <2>u DEF Born, Running, TypeOK
  <2>4. \A q \in Born \ {Running} : ~BeingForked(q)
    BY <2>0, <2>u DEF BeingForked
  <2>5. ASSUME NEW q \in Born \ {Running} PROVE Resumable(q)'
    <3>1. Resumable(q) /\ q # p /\ q # c /\ q \in Procs
      BY <2>0, <2>4, <2>c, <2>5 DEF AllResumable, Running, Born
    <3> QED BY <3>1, <2>0, <2>c, <2>u DEF Resumable, TypeOK
  <2>6. BeingForked(c)'
    BY <2>0, <2>c, <2>u DEF BeingForked, TypeOK
  <2>7. AllResumable'
    <3>1. \A q \in Procs : next'[q] # NULL => next'[q] \in Born \cup {c}
      BY <2>0, <2>c, <2>u DEF AllResumable, TypeOK
    <3>2. \A q \in framed' : q \in Born' /\ thread'[q] = "switch_task"
      BY <2>c, <2>u, <2>3 DEF AllResumable, TypeOK
    <3>3. Running' \in Born' /\ kernel \in Born' /\ Running' \notin framed'
      BY <2>3, <2>u DEF AllResumable
    <3>4. \A q \in Born' \ {Running'} : Resumable(q)' \/ BeingForked(q)'
      BY <2>3, <2>5, <2>6
    <3> QED BY <3>1, <3>2, <3>3, <3>4, <2>3 DEF AllResumable
  <2>8. OwnDirectory' /\ QueueIsRootAndYoungest' /\ Fresh'
    BY <2>0, <2>c, <2>u DEF OwnDirectory, QueueIsRootAndYoungest, Fresh, TypeOK
  <2>9. InterruptsOff'
    BY <2>0, <2>c, <2>u DEF InterruptsOff, BehindCli, Running, TypeOK
  <2> QED BY <1>t, <2>1, <2>2, <2>7, <2>8, <2>9
<1>5. ASSUME NEW p \in Procs, SaveChild(p) PROVE IInv'
  <2> USE <1>5 DEF SaveChild
  <2>0. current_process = p /\ root_proc = kernel /\ BeingForked(new_proc[p]) /\ new_proc[p] \in Procs
    BY <1>r DEF Forking
  <2>1. Starting' /\ Started'
    BY <2>0 DEF Starting, Started, TypeOK
  <2>2. Forking'
    BY <2>0 DEF Forking, TypeOK
  <2>3. Born' = Born /\ Running' = Running
    BY <2>0 DEF Born, Running, TypeOK
  <2>4. ASSUME NEW q \in Born \ {Running} PROVE Resumable(q)'
    <3>1. CASE q = new_proc[p]
      BY <2>0, <3>1 DEF BeingForked, Resumable, TypeOK
    <3>2. CASE q # new_proc[p]
      BY <2>0, <2>4, <3>2 DEF AllResumable, BeingForked, Resumable, Running, Born, TypeOK
    <3> QED BY <3>1, <3>2
  <2>5. AllResumable'
    <3>1. \A q \in framed' : q \in Born' /\ thread'[q] = "switch_task"
      BY <2>0, <2>3 DEF AllResumable, BeingForked, TypeOK
    <3> QED BY <2>3, <2>4, <3>1 DEF AllResumable
  <2>6. OwnDirectory' /\ QueueIsRootAndYoungest'
    BY <2>0 DEF OwnDirectory, QueueIsRootAndYoungest
  <2>7. Fresh'
    BY <2>0 DEF Fresh, TypeOK
  <2>8. InterruptsOff'
    BY <2>0 DEF InterruptsOff, BehindCli, StartedInside, Running, TypeOK
  <2> QED BY <1>t, <2>1, <2>2, <2>5, <2>6, <2>7, <2>8
<1>6. ASSUME NEW p \in Procs, ForkEnter(p) PROVE IInv'
  <2> USE <1>6 DEF ForkEnter
  <2>0. current_process = p /\ root_proc = kernel
    BY <1>r
  <2>1. Starting' /\ Started' /\ Forking'
    BY <2>0 DEF Starting, Started, Forking, TypeOK
  <2>2. Born' = Born /\ Running' = Running
    BY <2>0 DEF Born, Running, TypeOK
  <2>3. AllResumable'
    BY <2>0, <2>2 DEF AllResumable, BeingForked, Resumable, Running, Born, TypeOK
  <2>4. OwnDirectory' /\ QueueIsRootAndYoungest' /\ Fresh'
    BY <2>0 DEF OwnDirectory, QueueIsRootAndYoungest, Fresh, TypeOK
  <2>5. InterruptsOff'
    BY <2>0 DEF InterruptsOff, BehindCli, Running, TypeOK
  <2> QED BY <1>t, <2>1, <2>3, <2>4, <2>5
<1>7. ASSUME NEW p \in Procs, p = current_process, root_proc = kernel,
             pc[p] \in {"run", "fork_child", "lock", "spin"},
             NEW there \in {"run", "lock", "spin"}, Goto(p, there),
             UNCHANGED <<interrupts, queue, current_process, thread, space, new_proc, framed>>
      PROVE  IInv'
  <2> USE <1>7
  <2>1. Starting' /\ Started' /\ Forking'
    BY DEF Starting, Started, Forking, BeingForked, TypeOK
  <2>2. Born' = Born /\ Running' = Running
    BY DEF Born, Running, TypeOK
  <2>3. AllResumable'
    BY <2>2 DEF AllResumable, BeingForked, Resumable, Running, Born, TypeOK
  <2>4. OwnDirectory' /\ QueueIsRootAndYoungest' /\ Fresh'
    BY DEF OwnDirectory, QueueIsRootAndYoungest, Fresh, TypeOK
  <2>5. InterruptsOff'
    BY <2>2 DEF InterruptsOff, BehindCli, StartedInside, Running, TypeOK
  <2> QED BY <1>t, <2>1, <2>3, <2>4, <2>5
<1>8. ASSUME NEW p \in Procs, ForkChild(p) \/ SleepTill(p) \/ SleepLock(p) \/ SleepEnd(p)
      PROVE  IInv'
  BY <1>7, <1>8, <1>r DEF ForkChild, SleepTill, SleepLock, SleepEnd
<1>9. CASE TimerIRQ /\ root_proc = NULL
  BY <1>t, <1>9 DEF TimerIRQ, Starting, Started, Forking, AllResumable, BeingForked,
     Resumable, Born, Running, OwnDirectory, InterruptsOff, BehindCli, StartedInside,
     QueueIsRootAndYoungest, Fresh
<1>10. CASE TimerIRQ /\ root_proc # NULL
  <2> DEFINE p == current_process
             q == schedule
  <2>0. /\ p \in Procs /\ q \in Procs /\ q \in Born /\ Resumable(q)
        /\ p # NULL /\ q # NULL /\ root_proc = kernel /\ interrupts
    BY <1>10, SwitchFacts DEF TimerIRQ, Started
  <2>1. /\ thread' = [thread EXCEPT ![p] = "switch_task"]
        /\ current_process' = q
        /\ current_directory' = page_directory[q]
        /\ interrupts' = (thread'[q] = "switch_task")
        /\ framed' = (framed \cup {p}) \ (IF thread'[q] = "switch_task" THEN {q} ELSE {})
        /\ UNCHANGED <<queue, page_directory, pc, new_proc>>
    BY <1>10 DEF TimerIRQ, SwitchTask
  <2> HIDE DEF p, q
  <2>2. \A r \in Procs : pc[r] \notin {"spawn", "save_child"}
    BY <2>0 DEF Forking
  <2>3. Starting' /\ Started' /\ Forking'
    BY <2>0, <2>1, <2>2 DEF Starting, Started, Forking, p
  <2>4. Born' = Born /\ Running' = q /\ Running = p
    BY <2>0, <2>1 DEF Born, Running, p
  <2>5. ASSUME NEW r \in Born \ {q} PROVE Resumable(r)'
    <3>1. CASE r = p
      BY <2>0, <2>1, <2>5, <3>1 DEF Resumable, TypeOK, Born
    <3>2. CASE r # p
      <4>1. Resumable(r)
        BY <2>0, <2>2, <2>4, <2>5, <3>2 DEF AllResumable, BeingForked, Born, p
      <4> QED BY <4>1, <2>0, <2>1, <2>5, <3>2 DEF Resumable, TypeOK, Born, p
    <3> QED BY <3>1, <3>2
  <2>6. q \notin framed'
    <3>1. CASE q = p
      BY <2>0, <2>1, <3>1 DEF TypeOK
    <3>2. CASE q # p /\ thread[q] = "switch_task"
      BY <2>0, <2>1, <3>2 DEF TypeOK
    <3>3. CASE q # p /\ thread[q] # "switch_task"
      BY <2>0, <2>1, <3>3 DEF TypeOK, Resumable, AllResumable, p
    <3> QED BY <3>1, <3>2, <3>3
  <2>7. AllResumable'
    <3>1. p \in Born
      BY <2>4 DEF AllResumable
    <3>2. \A r \in framed' : r \in Born' /\ thread'[r] = "switch_task"
      BY <2>0, <2>1, <2>4, <3>1 DEF AllResumable, TypeOK
    <3> QED BY <2>0, <2>1, <2>4, <2>5, <2>6, <3>2 DEF AllResumable
  <2>8. OwnDirectory' /\ QueueIsRootAndYoungest' /\ Fresh'
    BY <2>0, <2>1 DEF OwnDirectory, QueueIsRootAndYoungest, Fresh, TypeOK
  <2>9. InterruptsOff'
    <3>1. ~BehindCli(Running)'
      BY <2>0, <2>1, <2>2, <2>4 DEF BehindCli, Started, p
    <3>2. CASE thread'[q] = "switch_task"
      BY <2>1, <2>4, <3>1, <3>2 DEF InterruptsOff, StartedInside
    <3>3. CASE thread'[q] # "switch_task"
      <4>1. q # p /\ thread[q] = "fork" /\ pc[q] = "fork_child"
        BY <2>0, <2>1, <3>3 DEF Resumable, TypeOK, p
      <4>2. thread'[q] = "fork" /\ new_proc'[q] = NULL /\ p \in framed'
        BY <2>0, <2>1, <4>1 DEF Fresh, TypeOK
      <4> QED BY <2>1, <2>4, <3>1, <4>1, <4>2 DEF InterruptsOff, StartedInside
    <3> QED BY <3>2, <3>3
  <2> QED BY <1>t, <2>3, <2>7, <2>8, <2>9
<1>11. CASE UNCHANGED vars
  BY <1>t, <1>11 DEF vars, Starting, Started, Forking, AllResumable, BeingForked,
     Resumable, Born, Running, OwnDirectory, InterruptsOff, BehindCli, StartedInside,
     QueueIsRootAndYoungest, Fresh
<1> QED
  BY <1>1, <1>2, <1>3, <1>4, <1>5, <1>6, <1>8, <1>9, <1>10, <1>11
     DEF Next, Continue, Call

LEMMA Invariant == Spec => []IInv
<1> QED
  BY InitInv, InvStep, PTL DEF Spec

-----------------------------------------------------------------------------
(* The variables of kernel/task.c, process.c and timer.c keep their types; *)
(* in particular the tick counter wraps and no null process is indexed.    *)
THEOREM TypeCorrect == Spec => []TypeOK
<1>1. IInv => TypeOK
  BY DEF IInv
<1> QED
  BY <1>1, Invariant, PTL

(* Whenever the timer may fire, switch_task has a process to save to and   *)
(* schedule() a process with a saved context to return.                    *)
THEOREM SwitchAlwaysSafe == Spec => []SwitchIsSafe
<1>1. IInv => SwitchIsSafe
  BY SwitchFacts, ProcAssumption DEF SwitchIsSafe
<1> QED
  BY <1>1, Invariant, PTL

(* Every process runs in its own address space: fork gives a child a       *)
(* directory and switch_task follows the process it switches to.           *)
THEOREM AddressSpaceFollows == Spec => []OwnDirectory
<1>1. IInv => OwnDirectory
  BY DEF IInv
<1> QED
  BY <1>1, Invariant, PTL

(* Interrupts are off exactly behind a cli of init_tasking or fork, and in *)
(* a child started inside another process's interrupt that has not forked. *)
THEOREM MaskedForAReason == Spec => []InterruptsOff
<1>1. IInv => InterruptsOff
  BY DEF IInv
<1> QED
  BY <1>1, Invariant, PTL

(* spawn_process keeps the run queue to the root and the process forked    *)
(* last, whoever forked it.                                                *)
THEOREM QueueShape == Spec => []QueueIsRootAndYoungest
<1>1. IInv => QueueIsRootAndYoungest
  BY DEF IInv
<1> QED
  BY <1>1, Invariant, PTL

-----------------------------------------------------------------------------
(* While a sleep has ticks to go, wait_till is as far ahead of tick.       *)
SleepInv ==
  /\ owed > 0 => wait_till = tick + owed
  /\ SleepLongEnough

LEMMA SleepStep == TypeOK /\ SleepInv /\ [Next]_vars => SleepInv'
<1> SUFFICES ASSUME TypeOK, SleepInv, [Next]_vars PROVE SleepInv'
  OBVIOUS
<1> USE ProcAssumption, TickAssumption
<1>w. \A n \in Nat : n < TICKS => n % TICKS = n
  OBVIOUS
<1>1. ASSUME NEW p \in Procs, SleepTill(p) PROVE SleepInv'
  <2>1. PICK msec \in Naps : /\ wait_till' = (tick + msec) % TICKS
                             /\ owed' = IF tick + msec < TICKS THEN msec ELSE 0
    BY <1>1 DEF SleepTill
  <2>2. tick' = tick /\ sleeper' = p /\ pc' = [pc EXCEPT ![p] = "lock"]
    BY <1>1 DEF SleepTill, Goto
  <2>3. owed' > 0 => wait_till' = tick' + owed'
    BY <2>1, <2>2, <1>w DEF TypeOK
  <2>4. SleepLongEnough'
    BY <2>2 DEF SleepLongEnough, TypeOK
  <2> QED BY <2>3, <2>4 DEF SleepInv
<1>2. ASSUME NEW p \in Procs, SleepLock(p) PROVE SleepInv'
  <2>1. /\ unlock' = FALSE /\ tick' = tick /\ wait_till' = wait_till /\ owed' = owed
    BY <1>2 DEF SleepLock
  <2>2. SleepLongEnough'
    BY <2>1 DEF SleepLongEnough
  <2> QED BY <2>1, <2>2 DEF SleepInv
<1>3. CASE TimerIRQ
  <2>1. /\ tick' = (tick + 1) % TICKS
        /\ owed' = IF owed = 0 THEN 0 ELSE owed - 1
        /\ wait_till' = wait_till /\ sleeper' = sleeper /\ pc' = pc
    BY <1>3 DEF TimerIRQ, TimerCallback, Tick
  <2>2. owed > 0 => tick' = tick + 1
    BY <2>1, <1>w DEF SleepInv, TypeOK
  <2>3. owed' > 0 => wait_till' = tick' + owed'
    BY <2>1, <2>2 DEF SleepInv, TypeOK
  <2>4. ASSUME owed' # 0 PROVE owed # 0 /\ ~(tick' >= wait_till)
    BY <2>1, <2>2, <2>3, <2>4 DEF TypeOK
  <2>5. unlock' => unlock \/ tick' >= wait_till
    BY <1>3 DEF TimerIRQ, TimerCallback, Tick
  <2>6. SleepLongEnough'
    BY <2>1, <2>4, <2>5 DEF SleepLongEnough, SleepInv
  <2> QED BY <2>3, <2>6 DEF SleepInv
<1>4. ASSUME NEW p \in Procs, ~SleepTill(p), ~SleepLock(p), Continue(p) \/ Call(p)
      PROVE SleepInv'
  <2>1. UNCHANGED clock
    BY <1>4 DEF Continue, Call, InitTasking, InitKernelProcess, SetCurrent, Spawn,
       SaveChild, ForkChild, SleepEnd, ForkEnter
  <2>2. \A q \in Procs : pc'[q] = "spin" => pc[q] = "spin"
    BY <1>4 DEF Continue, Call, InitTasking, InitKernelProcess, SetCurrent, Spawn,
       SaveChild, ForkChild, SleepEnd, ForkEnter, Goto, TypeOK
  <2> QED BY <2>1, <2>2 DEF SleepInv, SleepLongEnough, clock
<1>5. CASE UNCHANGED vars
  BY <1>5 DEF vars, SleepInv, SleepLongEnough
<1> QED
  BY <1>1, <1>2, <1>3, <1>4, <1>5 DEF Next

(* Nobody returns from sleep before the ticks it asked for, whatever the   *)
(* timer does between the assignments of wait_till and of unlock.          *)
THEOREM SleepsLongEnough == Spec => []SleepLongEnough
<1>1. Init => SleepInv
  BY ProcAssumption DEF Init, SleepInv, SleepLongEnough
<1>2. SleepInv => SleepLongEnough
  BY DEF SleepInv
<1> QED
  BY <1>1, <1>2, SleepStep, TypeCorrect, PTL DEF Spec
=============================================================================
