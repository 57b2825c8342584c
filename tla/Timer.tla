-------------------------------- MODULE Timer --------------------------------
(***************************************************************************)
(* The timer interrupt and its callbacks (arch/x86/clock/pit.c): timer_irq *)
(* at 100 Hz, and create_callback and usleep, which it interrupts between  *)
(* any two of their steps.                                                 *)
(*                                                                         *)
(* A callback comes from malloc, and create_callback leaves its expiration *)
(* as it finds it.  Once the scheduler is on, schedule may switch away and *)
(* not return (module Sched): IRQ0 is then in service for good.            *)
(***************************************************************************)
EXTENDS Naturals, Sequences

CONSTANTS
  Slots,       \* length of callbacks[]; create_callback does not check it, so also a bound
  Periods,     \* values of ms of create_callback
  Sleeps,      \* values of ms of usleep
  Stale,       \* what a word of a block can be found as
  MaxJiffies   \* bound

\* What Machine assumes of them.
TimerAssumption ==
  /\ Slots \in Nat /\ MaxJiffies \in Nat
  /\ Periods \subseteq Nat /\ Sleeps \subseteq Nat /\ Stale \subseteq Nat

VARIABLES
  jiffies,
  blocks,        \* the callbacks malloc has answered
  num_cbs,       \* callbacks[] has the first num_cbs of them
  todo,          \* stores create_callback has to do, in order
  period,        \* its argument
  sched_on,      \* sched_enabled()
  switched,      \* schedule has not returned
  end_jiffies,   \* of usleep, or Awake
  called_at,     \* history: jiffies at each callback's last call, or Never
  called_unset   \* history: a func was called that was not set

vars == <<jiffies, blocks, num_cbs, todo, period, sched_on, switched, end_jiffies, called_at,
          called_unset>>

Awake == MaxJiffies + 1
Never == MaxJiffies + 1

Init ==
  /\ jiffies = 0 /\ blocks = <<>> /\ num_cbs = 0 /\ todo = <<>> /\ period = 0
  /\ sched_on = FALSE /\ switched = FALSE
  /\ end_jiffies = Awake
  /\ called_at = <<>> /\ called_unset = FALSE

-----------------------------------------------------------------------------
\* The code that is interrupted.  It does one thing at a time.

Free == todo = <<>> /\ end_jiffies = Awake

\* Mutant: the callback is put in callbacks[] and then filled in.
StoresEarly == <<"slot", "func", "ms">>

\* What create_callback does with a block.
Stores == <<"func", "ms", "slot">>

CreateCallback(p) ==
  /\ Free /\ Len(blocks) < Slots
  /\ \E e, m \in Stale :
       blocks' = Append(blocks, [func |-> "unset", ms |-> m, expiration |-> e])
  /\ called_at' = Append(called_at, Never)
  /\ todo' = Stores
  /\ period' = p
  /\ UNCHANGED <<jiffies, num_cbs, sched_on, switched, end_jiffies, called_unset>>

Store ==
  /\ todo # <<>>
  /\ todo' = Tail(todo)
  /\ CASE Head(todo) = "func" ->
            blocks' = [blocks EXCEPT ![Len(blocks)].func = "set"] /\ UNCHANGED num_cbs
       [] Head(todo) = "ms" ->
            blocks' = [blocks EXCEPT ![Len(blocks)].ms = period] /\ UNCHANGED num_cbs
       [] Head(todo) = "slot" ->
            num_cbs' = num_cbs + 1 /\ UNCHANGED blocks
  /\ UNCHANGED <<jiffies, period, sched_on, switched, end_jiffies, called_at, called_unset>>

Usleep(ms) ==
  /\ Free /\ jiffies + ms <= MaxJiffies
  /\ end_jiffies' = jiffies + ms
  /\ UNCHANGED <<jiffies, blocks, num_cbs, todo, period, sched_on, switched, called_at,
                 called_unset>>

\* Mutant: the loop goes on unless it sees the very tick it waits for.
ElapsedExactly == jiffies = end_jiffies

Elapsed == jiffies >= end_jiffies

\* The end of usleep's loop.
Wake ==
  /\ end_jiffies # Awake /\ ~switched
  /\ Elapsed
  /\ end_jiffies' = Awake
  /\ UNCHANGED <<jiffies, blocks, num_cbs, todo, period, sched_on, switched, called_at,
                 called_unset>>

\* kernel_idle
SchedOn ==
  /\ Free /\ ~sched_on
  /\ sched_on' = TRUE
  /\ UNCHANGED <<jiffies, blocks, num_cbs, todo, period, switched, end_jiffies, called_at,
                 called_unset>>

-----------------------------------------------------------------------------
\* timer_irq

CountTick == jiffies + 1

\* Mutant: a callback is reloaded with a tick too many.
ExpirationMore(b) == IF b.expiration > 0 THEN b.expiration - 1 ELSE b.ms + 1

\* A callback's expiration after a tick.
Expiration(b) == IF b.expiration > 0 THEN b.expiration - 1 ELSE b.ms

Due(i) == i <= num_cbs /\ blocks[i].expiration = 0

CheckCallbacks ==
  /\ blocks' = [i \in DOMAIN blocks |->
                  IF i <= num_cbs
                  THEN [blocks[i] EXCEPT !.expiration = Expiration(blocks[i])]
                  ELSE blocks[i]]
  /\ called_at' = [i \in DOMAIN blocks |-> IF Due(i) THEN jiffies' ELSE called_at[i]]
  /\ called_unset' = (called_unset \/ \E i \in DOMAIN blocks : Due(i) /\ blocks[i].func = "unset")

Tick ==
  /\ ~switched /\ jiffies < MaxJiffies
  /\ jiffies' = CountTick
  /\ \/ /\ CheckCallbacks
        /\ UNCHANGED switched
     \/ /\ sched_on                             \* schedule does not return
        /\ switched' = TRUE
        /\ UNCHANGED <<blocks, called_at, called_unset>>
  /\ UNCHANGED <<num_cbs, todo, period, sched_on, end_jiffies>>

Next ==
  \/ \E p \in Periods : CreateCallback(p)
  \/ Store
  \/ \E ms \in Sleeps : Usleep(ms)
  \/ Wake \/ SchedOn
  \/ Tick

Spec == Init /\ [][Next]_vars

\* The timer ticks, and the loop of usleep is run between two ticks.
FairSpec == Spec /\ WF_vars(Tick) /\ WF_vars(Wake)

-----------------------------------------------------------------------------

\* A tick between two stores of create_callback never calls what is not yet there.
NoCallUnset == ~called_unset /\ num_cbs <= Len(blocks)

\* Whatever its expiration was found as, from its first call on a callback is called
\* neither before its period is over nor more than a tick after it, and no call is left
\* out, however many callbacks are added, until the switch.
CallsInTime ==
  \A i \in DOMAIN called_at :
    called_at[i] # Never /\ ~switched' =>
      LET since == jiffies' - called_at[i]
      IN  IF called_at'[i] = called_at[i] THEN since <= blocks[i].ms
          ELSE since \in blocks[i].ms .. blocks[i].ms + 1
PeriodWithinTick == [][CallsInTime]_vars

\* fbcon.c:198, a callback "that triggers every 250 ms" (25 ticks): when a callback's
\* period has passed since its last call, it has been called again.
CalledEveryMs ==
  \A i \in DOMAIN called_at :
    called_at[i] # Never /\ blocks[i].ms > 0 /\ ~switched => jiffies - called_at[i] < blocks[i].ms

\* usleep returns, unless the scheduler takes the processor away first.
SleepEnds == (end_jiffies # Awake) ~> (end_jiffies = Awake \/ switched)

-----------------------------------------------------------------------------
(* The inductive invariant of MachineProofs, its part about the timer. *)

Callback == [func : {"unset", "set"}, ms : Nat, expiration : Nat]

\* create_callback is at one of its stores, and the block it fills is the last one.
TimerTypeOK ==
  /\ jiffies \in 0 .. MaxJiffies
  /\ blocks \in Seq(Callback)
  /\ called_at \in Seq(Nat) /\ Len(called_at) = Len(blocks)
  /\ todo \in {<<>>, Stores, <<"ms", "slot">>, <<"slot">>}
  /\ period \in Nat
  /\ num_cbs = IF todo = <<>> THEN Len(blocks) ELSE Len(blocks) - 1
  /\ todo # <<>> => Len(blocks) > 0

\* What callbacks[] has was filled in before, and the block that it does not have yet
\* was never called.
FilledInv ==
  /\ \A i \in 1 .. num_cbs : blocks[i].func = "set"
  /\ todo \in {<<"ms", "slot">>, <<"slot">>} => blocks[Len(blocks)].func = "set"
  /\ \A i \in DOMAIN called_at : i > num_cbs => called_at[i] = Never

\* expiration counts down from ms since the last call; the tick that switches does not
\* get to it.
CountdownInv ==
  \A i \in 1 .. num_cbs :
    called_at[i] # Never =>
      blocks[i].expiration + (jiffies - called_at[i]) = blocks[i].ms + (IF switched THEN 1 ELSE 0)

TimerInv == TimerTypeOK /\ FilledInv /\ ~called_unset /\ CountdownInv

=============================================================================
