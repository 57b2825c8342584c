------------------------------- MODULE Machine -------------------------------
(***************************************************************************)
(* The machine once it has booted: the scheduler (Sched), the timer's      *)
(* callbacks and usleep (Timer) and the serial port (Serial) in one        *)
(* program.  timer_irq is here what pit.c makes of it: the tick, schedule, *)
(* which calls debug before it switches, and check_callbacks when schedule *)
(* has returned; create_kernel_task calls debug with interrupts on.        *)
(*                                                                         *)
(* To module Timer an interrupt is one step, Tick: the refinement T shows  *)
(* that the interrupt made of all these steps is that.                     *)
(***************************************************************************)
EXTENDS Sched, Serial

CONSTANTS Slots, Periods, Sleeps, Stale, MaxJiffies    \* those of Timer

VARIABLES
  jiffies, blocks, num_cbs, todo, period, end_jiffies, called_at, called_unset,
  told        \* debug has been called where pc is

timer == <<jiffies, blocks, num_cbs, todo, period, end_jiffies, called_at, called_unset>>
machine == <<vars, timer, serial, told>>

Switched == \E t \in Tasks : state[t] = "RUNNING"
InHandler == pc \in {"schedule", "pick", "eoi"}

\* The tick of an interrupt that is going on has not happened yet.
T == INSTANCE Timer WITH
       jiffies <- IF InHandler THEN jiffies - 1 ELSE jiffies,
       sched_on <- is_sched_enabled,
       switched <- Switched

ASSUME MachineAssumption == T!TimerAssumption

MachineInit == jiffies = 0 /\ Init /\ SerialStart /\ told = FALSE /\ T!Init

\* The message of create_kernel_task, and that of schedule.
Message == <<"m", "\n">>

-----------------------------------------------------------------------------

\* The code that runs, the handler or what it interrupted, is in debug.
Running == IF InHandler THEN "handler" ELSE "code"
Writing == writing # <<>> /\ Head(writing).by = Running

\* Steps of Sched that neither create a task nor switch.
SchedStep ==
  /\ \/ SchedQueue /\ told
     \/ TaskingEnter \/ KernelIdle \/ SpendTick \/ QuantumOver
  /\ ~Writing /\ (InHandler \/ T!Free)
  /\ told' = (told /\ ~(pc = "schedule" /\ pc' = "pick"))
  /\ UNCHANGED <<timer, serial>>

\* create_kernel_task up to its debug.
Create ==
  /\ T!Free /\ ~Writing /\ probed
  /\ SchedInit \/ Spawn
  /\ told' = FALSE
  /\ UNCHANGED <<timer, serial>>

\* The call of debug in create_kernel_task, or in schedule after the loop.
Tell ==
  /\ ~told
  /\ pc = "queue" \/ (pc = "pick" /\ state[current] = "READY")
  /\ Debug(Message, Running)
  /\ told' = TRUE
  /\ UNCHANGED <<vars, timer>>

\* schedule: a task that is not READY, or the switch, which leaves behind what
\* the interrupted code was writing.
PickStep ==
  /\ Pick /\ ~Writing
  /\ state[current] = "READY" => told
  /\ writing' = IF state[current] = "READY" THEN <<>> ELSE writing
  /\ UNCHANGED <<timer, told, port, probed, faulty, fifo, overrun>>

\* serial_init is called before sched_init.
Probe ==
  /\ pc = "boot" /\ ~probed /\ T!Free
  /\ SerialInit
  /\ UNCHANGED <<vars, timer, told>>

\* serial_empty_transit and outb
Write == Writing /\ (SeeEmpty \/ WriteChar) /\ UNCHANGED <<vars, timer, told>>

\* The first line of timer_irq.
Interrupt ==
  /\ TimerIrq /\ jiffies < MaxJiffies
  /\ jiffies' = T!CountTick
  /\ UNCHANGED <<blocks, num_cbs, todo, period, end_jiffies, called_at, called_unset, serial, told>>

\* schedule has returned or was not called.
Callbacks ==
  /\ TimerExit
  /\ UNCHANGED jiffies
  /\ T!CheckCallbacks
  /\ UNCHANGED <<num_cbs, todo, period, end_jiffies, serial, told>>

\* Boot code and tasks that create callbacks and sleep.
Caller == pc \in {"boot", "run"} /\ ~Writing
CallsTimer(step) == Caller /\ UNCHANGED <<vars, serial, told, jiffies>> /\ step

CreateCallback == \E ms \in Periods : CallsTimer(T!CreateCallback(ms))
Store == CallsTimer(T!Store)
Usleep == \E ms \in Sleeps : CallsTimer(T!Usleep(ms))
Wake == CallsTimer(T!Wake)

Uart == Transmit /\ UNCHANGED <<vars, timer, told>>

CodeStep == SchedStep \/ Tell \/ PickStep \/ Write \/ Callbacks \/ Store

MachineNext ==
  \/ CodeStep \/ Probe \/ Create \/ CreateCallback \/ Usleep \/ Wake
  \/ Interrupt \/ Uart

\* The processor executes, the loop of usleep is run between ticks, the timer
\* ticks and a UART sends what it was given.
MachineSpec ==
  /\ MachineInit /\ [][MachineNext]_machine
  /\ WF_machine(CodeStep) /\ SF_machine(Wake) /\ WF_machine(Interrupt) /\ WF_machine(Uart)

-----------------------------------------------------------------------------

\* Refinement: whatever schedule and debug do in a timer interrupt, callbacks and
\* sleepers see one tick, or none any more once schedule has switched.
TimerSpec == T!Spec

\* No tick between two stores of create_callback calls what is not yet there.
NoCallUnset == T!NoCallUnset

\* From its first call on a callback is called neither before its period is over nor
\* more than a tick after it, with schedule and debug inside the tick, until the switch.
PeriodWithinTick == T!PeriodWithinTick

\* fbcon.c:198, a callback "that triggers every 250 ms": it is called again once its
\* period has passed.
CalledEveryMs == T!CalledEveryMs

\* usleep returns, unless the scheduler takes the processor away first.
SleepEnds == T!SleepEnds

\* No byte is written to a transmitter that has no room, though a newline is two
\* bytes and an interrupt may write between a look at the transmitter and the write.
NoOverrun == ~overrun

\* debug returns, in the timer interrupt as well, whatever is at the port's
\* address; a write that an interrupt has switched away from is not gone on with.
DebugReturns == writing # <<>> ~> writing = <<>>

-----------------------------------------------------------------------------
(* The inductive invariant of MachineProofs, with SInv and T!TimerInv. *)

\* Tasks are there, and messages of theirs, once the ports are probed.
ProbedInv ==
  /\ Place # "boot" \/ is_sched_enabled => probed
  /\ probed => faulty = [i \in Ports |-> port[i] # "uart"]
  /\ writing # <<>> => port[Com1] = "uart"

\* One call of debug goes on in the code, and one in the handler over it, which is the
\* end of the code's: schedule does not return to it.
WritingInv ==
  /\ \A i, j \in DOMAIN writing : writing[i].by = writing[j].by => i = j
  /\ \A i \in DOMAIN writing :
       /\ writing[i].by \in {"code", "handler"}
       /\ writing[i].by = "handler" => i = 1 /\ pc = "pick" /\ told
       /\ writing[i].thre => fifo = 0 \/ (writing[i].by = "code" /\ pc = "pick" /\ told)
  /\ pc # "pick" /\ Place = "queue" /\ ~told => writing = <<>>

DebugCall == [left : Seq({"m", "\n"}) \ {<<>>}, thre : BOOLEAN, by : {"code", "handler"}]

SerialInv ==
  /\ port \in [Ports -> Kinds] /\ probed \in BOOLEAN /\ told \in BOOLEAN /\ fifo \in Nat
  /\ writing \in Seq(DebugCall)
  /\ ProbedInv /\ WritingInv /\ NoOverrun

MachineInv ==
  /\ T!TimerInv
  /\ SerialInv
  /\ jiffies \in 0 .. MaxJiffies /\ (InHandler => jiffies > 0)

=============================================================================
