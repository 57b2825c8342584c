------------------------------- MODULE Sched -------------------------------
(***************************************************************************)
(* The round robin scheduler: proc/sched.c, proc/task.c and                *)
(* proc/context.S, driven by the timer interrupt of clock/pit.c through    *)
(* interrupt_handler (cpu/int.c).                                          *)
(*                                                                         *)
(* One processor runs the code of the task "on"; pc says where that code   *)
(* is.  An interrupt is taken between two steps when the interrupt flag is *)
(* set and the PIC has no timer interrupt in service.  A handler runs with *)
(* interrupts off, so it is one step.                                      *)
(*                                                                         *)
(* frame[t] is what the words at t->rsp are: the frame create_kernel_task  *)
(* built ("fresh"), or, once the task has run on that stack, whatever its  *)
(* calls have left there ("stale"): nothing ever stores a new rsp in the   *)
(* task, context_switch writes it to the word old->rsp points to.          *)
(***************************************************************************)
EXTENDS Naturals, FiniteSets

CONSTANTS
  Tasks,     \* task_struct addresses malloc can answer
  NULL,
  Quantum,   \* time_quantum of TASK_PRIORITY_HIGH, the one priority given
  MaxPid     \* bound: no task is created once last_pid is MaxPid

ASSUME SchedAssumption == NULL \notin Tasks /\ Quantum \in Nat /\ MaxPid \in Nat

VARIABLES
  state, pid, ticks_left, next, prev, frame,   \* fields of each task_struct
  current, kernel_task, total_tasks, last_pid, is_sched_enabled,
  int_flag,     \* IF of the processor
  in_service,   \* the PIC is waiting for the EOI of the timer interrupt
  pc,           \* where the running code is
  back,         \* where the interrupted code is
  on,           \* the task whose stack the processor is on, NULL during boot
  p             \* the argument of sched_queue

tasks == <<state, pid, ticks_left, next, prev, frame>>
glob  == <<current, kernel_task, total_tasks, last_pid, is_sched_enabled>>
cpu   == <<int_flag, in_service, pc, back, on, p>>
vars  == <<tasks, glob, cpu>>

Ptr == Tasks \cup {NULL}

-----------------------------------------------------------------------------

Init ==
  /\ state = [t \in Tasks |-> "NONE"]          \* not allocated
  /\ pid = [t \in Tasks |-> 0]
  /\ ticks_left = [t \in Tasks |-> 0]
  /\ next = [t \in Tasks |-> NULL]
  /\ prev = [t \in Tasks |-> NULL]
  /\ frame = [t \in Tasks |-> "none"]
  /\ current = NULL /\ kernel_task = NULL /\ on = NULL /\ p = NULL
  /\ total_tasks = 0 /\ last_pid = 0
  /\ is_sched_enabled = FALSE
  /\ int_flag = TRUE                           \* load_idt ends with sti
  /\ in_service = FALSE
  /\ pc = "boot" /\ back = "boot"

-----------------------------------------------------------------------------
\* create_kernel_task

\* task_pid_alloc
PidAlloc == last_pid

\* The task is built whole before anyone else can see it.
Created(t) ==
  /\ state[t] = "NONE"
  /\ last_pid < MaxPid
  /\ state' = [state EXCEPT ![t] = "READY"]
  /\ pid' = [pid EXCEPT ![t] = PidAlloc]
  /\ last_pid' = last_pid + 1
  /\ ticks_left' = [ticks_left EXCEPT ![t] = Quantum]
  /\ next' = [next EXCEPT ![t] = NULL]
  /\ prev' = [prev EXCEPT ![t] = NULL]
  /\ frame' = [frame EXCEPT ![t] = "fresh"]

\* malloc has no room for the stack: the pid is spent and the task freed.
NoStack ==
  /\ last_pid < MaxPid
  /\ last_pid' = last_pid + 1
  /\ UNCHANGED tasks

\* sched_init: the kernel task, or panic.
SchedInit ==
  /\ pc = "boot"
  /\ \/ \E t \in Tasks : /\ Created(t)
                         /\ kernel_task' = t
                         /\ p' = t
                         /\ pc' = "queue"
                         /\ UNCHANGED int_flag
     \/ /\ NoStack
        /\ pc' = "panic"
        /\ int_flag' = FALSE
        /\ UNCHANGED <<kernel_task, p>>
  /\ UNCHANGED <<current, total_tasks, is_sched_enabled, in_service, back, on>>

\* Kernel code that makes one more task.
Spawn ==
  /\ pc = "run"
  /\ \/ \E t \in Tasks : /\ Created(t)
                         /\ p' = t
                         /\ pc' = "queue"
     \/ /\ NoStack
        /\ UNCHANGED <<pc, p>>
  /\ UNCHANGED <<current, kernel_task, total_tasks, is_sched_enabled,
                 int_flag, in_service, back, on>>

-----------------------------------------------------------------------------
\* sched_queue(p), one step per store

QueueStep(from, to) ==
  /\ pc = from
  /\ pc' = to
  /\ UNCHANGED <<state, pid, ticks_left, frame, kernel_task, last_pid, is_sched_enabled,
                 in_service, back, on>>

\* Mutant: the section is not critical.
QueueEnterOpen ==
  /\ QueueStep("queue", IF total_tasks > 1 THEN "link1" ELSE "alone")
  /\ UNCHANGED <<int_flag, next, prev, current, total_tasks, p>>

\* critical_enter
QueueEnter ==
  /\ QueueStep("queue", IF total_tasks > 1 THEN "link1" ELSE "alone")
  /\ int_flag' = FALSE
  /\ UNCHANGED <<next, prev, current, total_tasks, p>>

Link1 ==
  /\ QueueStep("link1", "link2")
  /\ next' = [next EXCEPT ![p] = next[current]]
  /\ UNCHANGED <<int_flag, prev, current, total_tasks, p>>

Link2 ==
  /\ QueueStep("link2", "link3")
  /\ prev' = [prev EXCEPT ![next[p]] = p]
  /\ UNCHANGED <<int_flag, next, current, total_tasks, p>>

Link3 ==
  /\ QueueStep("link3", "link4")
  /\ prev' = [prev EXCEPT ![p] = current]
  /\ UNCHANGED <<int_flag, next, current, total_tasks, p>>

Link4 ==
  /\ QueueStep("link4", "queued")
  /\ next' = [next EXCEPT ![current] = p]
  /\ UNCHANGED <<int_flag, prev, current, total_tasks, p>>

\* The else branch: p becomes a ring of its own and the current task.
Alone ==
  /\ QueueStep("alone", "queued")
  /\ next' = [next EXCEPT ![p] = p]
  /\ prev' = [prev EXCEPT ![p] = p]
  /\ current' = p
  /\ UNCHANGED <<int_flag, total_tasks, p>>

\* Mutant: the task queued is not counted.
QueueExitUncounted ==
  /\ QueueStep("queued", IF on = NULL THEN "enter" ELSE "run")
  /\ int_flag' = TRUE
  /\ p' = NULL
  /\ UNCHANGED <<total_tasks, next, prev, current>>

\* critical_exit, which always turns interrupts on.
QueueExit ==
  /\ QueueStep("queued", IF on = NULL THEN "enter" ELSE "run")
  /\ total_tasks' = total_tasks + 1
  /\ int_flag' = TRUE
  /\ p' = NULL
  /\ UNCHANGED <<next, prev, current>>

SchedQueue == QueueEnter \/ Link1 \/ Link2 \/ Link3 \/ Link4 \/ Alone \/ QueueExit

-----------------------------------------------------------------------------
\* kill

\* sched_proc_search: the loop over the tasks begins at the task where it ends.
Searched(first) == IF first = kernel_task THEN {} ELSE {first}
SchedProcSearch(n) ==
  LET found == {t \in Searched(kernel_task) : pid[t] = n}
  IN  IF found = {} THEN NULL ELSE CHOOSE t \in found : TRUE

\* -EPERM for the kernel task, -ESRCH for any other; no task is ever released.
Kill(n) ==
  /\ pc = "run"
  /\ n # 0 => SchedProcSearch(n) = NULL
  /\ UNCHANGED vars

-----------------------------------------------------------------------------

\* The processor leaves the stack it is on and takes the frame at t->rsp.
Resume(t) ==
  IF frame[t] = "fresh"
  THEN /\ on' = t
       /\ frame' = [frame EXCEPT ![t] = "stale"]
       /\ pc' = IF t = kernel_task THEN "kernel_idle" ELSE "run"
       /\ int_flag' = TRUE                     \* the RFLAGS of the frame, 0x202
  ELSE /\ pc' = "panic"                        \* iretq to garbage faults
       /\ int_flag' = FALSE
       /\ UNCHANGED <<on, frame>>

\* sched_tasking_enter(current->rsp)
TaskingEnter ==
  /\ pc = "enter"
  /\ Resume(current)
  /\ UNCHANGED <<state, pid, ticks_left, next, prev, glob, in_service, back, p>>

\* kernel_idle
KernelIdle ==
  /\ pc = "kernel_idle"
  /\ is_sched_enabled' = TRUE
  /\ pc' = "run"
  /\ UNCHANGED <<tasks, current, kernel_task, total_tasks, last_pid, int_flag, in_service,
                 back, on, p>>

-----------------------------------------------------------------------------
\* interrupt_handler(32): timer_irq, then pic_eoi

SchedEnabled == is_sched_enabled     \* sched_enabled

\* The interrupt is taken; timer_irq asks whether tasks are scheduled.
TimerIrq ==
  /\ int_flag /\ ~in_service
  /\ int_flag' = FALSE
  /\ in_service' = TRUE
  /\ back' = pc
  /\ pc' = IF SchedEnabled THEN "schedule" ELSE "eoi"
  /\ UNCHANGED <<tasks, glob, on, p>>

\* Mutant: the tick is not taken from the task.
SpendTickKept ==
  /\ pc = "schedule"
  /\ ticks_left[current] # 0
  /\ pc' = "eoi"
  /\ UNCHANGED <<tasks, glob, int_flag, in_service, back, on, p>>

\* schedule(), the current task has ticks left.
SpendTick ==
  /\ pc = "schedule"
  /\ ticks_left[current] # 0
  /\ ticks_left' = [ticks_left EXCEPT ![current] = @ - 1]
  /\ pc' = "eoi"
  /\ UNCHANGED <<state, pid, next, prev, frame, glob, int_flag, in_service, back, on, p>>

\* Mutant: the EOI is sent before the switch.
QuantumOverEoi ==
  /\ pc = "schedule"
  /\ ticks_left[current] = 0
  /\ ticks_left' = [ticks_left EXCEPT ![current] = Quantum]
  /\ in_service' = FALSE
  /\ pc' = "pick"
  /\ UNCHANGED <<state, pid, next, prev, frame, glob, int_flag, back, on, p>>

\* schedule(), the quantum is used up.
QuantumOver ==
  /\ pc = "schedule"
  /\ ticks_left[current] = 0
  /\ ticks_left' = [ticks_left EXCEPT ![current] = Quantum]
  /\ pc' = "pick"
  /\ UNCHANGED <<state, pid, next, prev, frame, glob, int_flag, in_service, back, on, p>>

\* One test of while(current->state != TASK_STATE_READY), and what follows the
\* loop: old is the task picked, so context_switch saves into and resumes the
\* same task, and schedule does not return to timer_irq.
Pick ==
  /\ pc = "pick"
  /\ IF state[current] = "READY"
     THEN /\ state' = [state EXCEPT ![current] = "RUNNING"]
          /\ Resume(current)
          /\ UNCHANGED current
     ELSE /\ current' = next[current]
          /\ UNCHANGED <<state, frame, pc, on, int_flag>>
  /\ UNCHANGED <<pid, ticks_left, next, prev, kernel_task, total_tasks, last_pid,
                 is_sched_enabled, in_service, back, p>>

\* check_callbacks, pic_eoi and the iretq of the interrupt stub.
TimerExit ==
  /\ pc = "eoi"
  /\ in_service' = FALSE
  /\ int_flag' = TRUE
  /\ pc' = back
  /\ UNCHANGED <<tasks, glob, back, on, p>>

-----------------------------------------------------------------------------

\* The steps the processor goes on to by itself.
CpuStep == SchedInit \/ SchedQueue \/ TaskingEnter \/ KernelIdle \/ SpendTick \/ QuantumOver
             \/ Pick \/ TimerExit

Next == CpuStep \/ TimerIrq \/ Spawn \/ \E n \in 0 .. MaxPid : Kill(n)

Spec == Init /\ [][Next]_vars

\* The processor executes, and the timer's line is raised again and again.
FairSpec == Spec /\ WF_vars(CpuStep) /\ WF_vars(TimerIrq)

-----------------------------------------------------------------------------

TypeOK ==
  /\ state \in [Tasks -> {"NONE", "READY", "RUNNING"}]
  /\ pid \in [Tasks -> Nat]
  /\ ticks_left \in [Tasks -> 0 .. Quantum]
  /\ next \in [Tasks -> Ptr]
  /\ prev \in [Tasks -> Ptr]
  /\ frame \in [Tasks -> {"none", "fresh", "stale"}]
  /\ current \in Ptr /\ kernel_task \in Ptr /\ on \in Ptr /\ p \in Ptr
  /\ total_tasks \in Nat /\ last_pid \in Nat
  /\ is_sched_enabled \in BOOLEAN /\ int_flag \in BOOLEAN /\ in_service \in BOOLEAN
  /\ pc \in {"boot", "queue", "link1", "link2", "link3", "link4", "alone", "queued", "enter",
             "kernel_idle", "run", "schedule", "pick", "eoi", "panic"}
  /\ back \in {"boot", "queue", "enter", "kernel_idle", "run"}

Exists(t) == state[t] # "NONE"
Linked(t) == t # NULL /\ next[t] # NULL

\* Whenever an interrupt can look at the tasks, the two directions of the ring
\* agree: no insertion is half done.
RingLinked ==
  int_flag =>
    /\ current # NULL => Linked(current)
    /\ \A t \in Tasks : Linked(t) => /\ prev[t] # NULL
                                     /\ next[prev[t]] = t
                                     /\ prev[next[t]] = t

\* No two tasks ever have the same pid, and 0, which kill refuses, is the kernel
\* task's: a pid is not given again even when the task could not be made.
PidsUnique ==
  /\ \A t, u \in Tasks : Exists(t) /\ Exists(u) /\ pid[t] = pid[u] => t = u
  /\ kernel_task # NULL => pid[kernel_task] = 0

\* The tasks schedule() can come to: the least set with current and what follows its tasks.
Ring == {t \in Tasks : \A S \in SUBSET Tasks :
           current \in S /\ (\A u \in S : next[u] \in S) => t \in S}

\* The second task queued takes the kernel task's place instead of joining it:
\* every other task that was queued is in the ring, the kernel task only until then.
OnlyKernelTaskLost ==
  current # NULL /\ int_flag =>
    Ring = {t \in Tasks : next[t] # NULL /\ (t = kernel_task => total_tasks = 1)}

\* A processor that has switched tasks takes no timer interrupt any more: the
\* EOI is behind the call to schedule() that did not return.
NoTickAfterSwitch ==
  [][(\E t \in Tasks : state[t] = "RUNNING") => ~(in_service' /\ ~in_service)]_vars

\* The quantum of the first task runs out.
QuantumRunsOut == is_sched_enabled ~> (\E t \in Tasks : state[t] = "RUNNING")

\* "change out old task for the next one": when the quantum of a task is over and
\* another task of the ring is READY, the processor goes to another task.
ChangesTask ==
  [][pc = "pick" /\ state[current] = "READY" /\ next[current] # current
       /\ state[next[current]] = "READY" => current' # current]_vars

-----------------------------------------------------------------------------
(* The inductive invariant of MachineProofs, its part about the scheduler. *)

\* Forward links n and back links r are those of whole rings.
Whole(n, r) ==
  \A t \in Tasks : IF n[t] = NULL THEN r[t] = NULL
                   ELSE r[t] # NULL /\ n[r[t]] = t /\ r[n[t]] = t

\* What the insertion of p has stored so far, undone.
NextBefore == [next EXCEPT ![p] = NULL]
PrevBefore ==
  CASE pc = "link2" -> prev
    [] pc = "link3" -> [prev EXCEPT ![next[p]] = current]
    [] pc = "link4" -> [prev EXCEPT ![next[p]] = current, ![p] = NULL]

Inserting == pc \in {"link2", "link3", "link4"}

\* The code the processor is in, the interrupt handler aside.
Place == IF pc \in {"schedule", "pick", "eoi"} THEN back ELSE pc

CpuInv ==
  /\ int_flag => pc \in {"boot", "queue", "enter", "kernel_idle", "run"}
  /\ pc \in {"schedule", "pick", "eoi"} =>
       in_service /\ \A t \in Tasks : state[t] # "RUNNING"
  /\ (\E t \in Tasks : state[t] = "RUNNING") => in_service
  /\ pc \in {"schedule", "pick"} => is_sched_enabled

CurrentInv ==
  /\ total_tasks # 0 => current # NULL
  /\ is_sched_enabled => current # NULL
  /\ Place \in {"queued", "enter", "kernel_idle", "run"} => current # NULL
  /\ Inserting \/ pc = "link1" => current # NULL
  /\ current # NULL => next[current] # NULL /\ state[current] # "NONE"

PidInv ==
  /\ \A t \in Tasks : state[t] # "NONE" => pid[t] < last_pid
  /\ \A t, u \in Tasks : state[t] # "NONE" /\ state[u] # "NONE" /\ pid[t] = pid[u] => t = u
  /\ kernel_task # NULL => pid[kernel_task] = 0 /\ state[kernel_task] # "NONE"
  /\ Place = "boot" => last_pid = 0 /\ kernel_task = NULL

RingInv ==
  /\ \A t \in Tasks : state[t] = "NONE" => next[t] = NULL /\ prev[t] = NULL
  /\ Place \in {"queue", "link1", "alone"} =>
       p # NULL /\ state[p] # "NONE" /\ next[p] = NULL /\ prev[p] = NULL
  /\ ~Inserting => Whole(next, prev)
  /\ Inserting => /\ p # NULL /\ p # current /\ state[p] # "NONE"
                  /\ next[p] = next[current]
                  /\ PrevBefore[p] = NULL
                  /\ Whole(NextBefore, PrevBefore)
                  /\ pc = "link2" => prev[next[p]] = current
                  /\ pc \in {"link3", "link4"} => prev[next[p]] = p
                  /\ pc = "link4" => prev[p] = current

\* The links and the count of the tasks as they are when no insertion is going on.
Links == IF Inserting THEN NextBefore ELSE next
Queued == IF pc = "queued" THEN total_tasks + 1 ELSE total_tasks
InRing == {t \in Tasks : Links[t] # NULL /\ (t = kernel_task => Queued = 1)}

CountInv ==
  /\ Place = "boot" => total_tasks = 0
  /\ Place \in {"queue", "alone"} /\ total_tasks = 0 => p = kernel_task
  /\ Place \in {"enter", "kernel_idle", "run"} => total_tasks # 0
  /\ pc = "alone" => total_tasks <= 1
  /\ pc = "link1" \/ Inserting => total_tasks > 1

\* The kernel task is followed by itself, and what follows any of the others, again
\* and again, is all of the others.
OneRing ==
  /\ Queued = 0 => \A t \in Tasks : next[t] = NULL
  /\ Queued # 0 => current \in InRing /\ kernel_task # NULL /\ Links[kernel_task] = kernel_task
  /\ Queued = 1 => \A t \in Tasks : Links[t] # NULL => t = kernel_task
  /\ \A S \in SUBSET Tasks : (\A u \in S : Links[u] \in S) /\ S \cap InRing # {} => InRing \subseteq S

\* Everything the links, the pids and the processor owe each other between steps.
SInv == TypeOK /\ CpuInv /\ CurrentInv /\ PidInv /\ RingInv /\ CountInv /\ OneRing

=============================================================================
