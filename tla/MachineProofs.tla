---------------------------- MODULE MachineProofs ----------------------------
(***************************************************************************)
(* What holds of the scheduler for any number of tasks and any quantum,    *)
(* and of the machine for any of these and any number of ticks: its        *)
(* interrupts are ticks of Timer, callbacks are called within a tick of    *)
(* their periods and the serial port's transmitter is never overrun.       *)
(***************************************************************************)
EXTENDS Machine, TLAPS

-----------------------------------------------------------------------------
\* The scheduler alone

Inv == TypeOK /\ SInv

\* A quantum and an empty one are both values of ticks_left.
LEMMA QuantumRange == Quantum \in 0 .. Quantum /\ 0 \in 0 .. Quantum
  BY SchedAssumption

\* The initial state.
LEMMA InitInv == Init => Inv
<1> SUFFICES ASSUME Init PROVE Inv
      OBVIOUS
<1>1. TypeOK
  <2>1. ticks_left \in [Tasks -> 0 .. Quantum]
        BY QuantumRange DEF Init
  <2>q. QED
        BY <2>1 DEF Init, TypeOK, Ptr
<1>2. CpuInv
      BY DEF Init, CpuInv
<1>3. CurrentInv /\ PidInv /\ RingInv
      BY DEF Init, CurrentInv, PidInv, RingInv, Whole, Place, Inserting
<1>4. CountInv /\ OneRing
      BY DEF Init, CountInv, OneRing, Links, Queued, InRing, Place, Inserting
<1>q. QED
      BY <1>1, <1>2, <1>3, <1>4 DEF Inv, SInv

\* Types are kept: current is a task whenever it is followed.
LEMMA TypeStep == Inv /\ [Next]_vars => TypeOK'
<1> SUFFICES ASSUME Inv, [Next]_vars PROVE TypeOK'
      OBVIOUS
<1> USE DEF Inv, tasks, glob, cpu, vars
<1>1. ASSUME UNCHANGED vars PROVE TypeOK'
      BY <1>1 DEF TypeOK, SInv, CpuInv, CurrentInv, Inserting, Place, Ptr
<1>2. ASSUME SchedInit PROVE TypeOK'
  <2> DEFINE Refused == NoStack /\ pc' = "panic" /\ int_flag' = FALSE
                          /\ UNCHANGED <<kernel_task, p>>
  <2>1. CASE Refused
    <3>1. last_pid' \in Nat /\ UNCHANGED <<state, pid, ticks_left, next, prev, frame>>
          BY <2>1 DEF NoStack, TypeOK
    <3>2. UNCHANGED <<current, kernel_task, on, p, total_tasks, is_sched_enabled, in_service,
                      back>>
          BY <1>2, <2>1 DEF SchedInit
    <3>3. int_flag' \in BOOLEAN /\ pc' = "panic"
          BY <2>1
    <3>q. QED
          BY <3>1, <3>2, <3>3 DEF TypeOK
  <2>2. CASE ~Refused
    <3>1. PICK t \in Tasks : Created(t) /\ kernel_task' = t /\ p' = t /\ pc' = "queue"
                             /\ UNCHANGED int_flag
          BY <1>2, <2>2 DEF SchedInit
    <3>2. ticks_left' \in [Tasks -> 0 .. Quantum]
          BY <3>1, QuantumRange DEF Created, TypeOK
    <3>3. /\ state' \in [Tasks -> {"NONE", "READY", "RUNNING"}]
          /\ pid' \in [Tasks -> Nat]
          /\ last_pid' \in Nat
          BY <3>1 DEF Created, PidAlloc, TypeOK
    <3>4. /\ next' \in [Tasks -> Ptr]
          /\ prev' \in [Tasks -> Ptr]
          /\ frame' \in [Tasks -> {"none", "fresh", "stale"}]
          BY <3>1 DEF Created, TypeOK, Ptr
    <3>q. QED
          BY <1>2, <3>1, <3>2, <3>3, <3>4 DEF SchedInit, TypeOK, Ptr
  <2>q. QED
        BY <2>1, <2>2
<1>3. ASSUME Spawn PROVE TypeOK'
      BY <1>3, SchedAssumption DEF Spawn, Created, NoStack, PidAlloc, TypeOK, SInv, CpuInv, CurrentInv, Inserting, Place, Ptr
<1>4. ASSUME QueueEnter PROVE TypeOK'
      BY <1>4, SchedAssumption DEF QueueEnter, QueueStep, TypeOK, SInv, CpuInv, CurrentInv, Inserting, Place, Ptr
<1>5. ASSUME Link1 PROVE TypeOK'
      BY <1>5, SchedAssumption DEF Link1, QueueStep, TypeOK, SInv, CpuInv, CurrentInv, Inserting, Place, Ptr
<1>6. ASSUME Link2 PROVE TypeOK'
      BY <1>6, SchedAssumption DEF Link2, QueueStep, TypeOK, SInv, CpuInv, CurrentInv, Inserting, Place, Ptr
<1>7. ASSUME Link3 PROVE TypeOK'
      BY <1>7, SchedAssumption DEF Link3, QueueStep, TypeOK, SInv, CpuInv, CurrentInv, Inserting, Place, Ptr
<1>8. ASSUME Link4 PROVE TypeOK'
      BY <1>8, SchedAssumption DEF Link4, QueueStep, TypeOK, SInv, CpuInv, CurrentInv, Inserting, Place, Ptr
<1>9. ASSUME Alone PROVE TypeOK'
      BY <1>9, SchedAssumption DEF Alone, QueueStep, TypeOK, SInv, CpuInv, CurrentInv, Inserting, Place, Ptr
<1>10. ASSUME QueueExit PROVE TypeOK'
      BY <1>10, SchedAssumption DEF QueueExit, QueueStep, TypeOK, SInv, CpuInv, CurrentInv, Inserting, Place, Ptr
<1>11. ASSUME TaskingEnter PROVE TypeOK'
  <2>1. current \in Tasks
        BY <1>11 DEF TaskingEnter, TypeOK, SInv, CurrentInv, Place, Ptr
  <2>2. CASE frame[current] = "fresh"
        BY <1>11, <2>1, <2>2 DEF TaskingEnter, Resume, TypeOK, Ptr
  <2>3. CASE frame[current] # "fresh"
        BY <1>11, <2>1, <2>3 DEF TaskingEnter, Resume, TypeOK, Ptr
  <2>q. QED
        BY <2>2, <2>3
<1>12. ASSUME KernelIdle PROVE TypeOK'
      BY <1>12, SchedAssumption DEF KernelIdle, TypeOK, SInv, CpuInv, CurrentInv, Inserting, Place, Ptr
<1>13. ASSUME TimerIrq PROVE TypeOK'
      BY <1>13, SchedAssumption DEF TimerIrq, SchedEnabled, TypeOK, SInv, CpuInv, CurrentInv, Inserting, Place, Ptr
<1>14. ASSUME SpendTick PROVE TypeOK'
  <2>1. current \in Tasks
        BY <1>14 DEF SpendTick, TypeOK, SInv, CpuInv, CurrentInv, Ptr
  <2>2. ticks_left[current] - 1 \in 0 .. Quantum
        BY <1>14, <2>1, SchedAssumption DEF SpendTick, TypeOK
  <2>3. ticks_left' \in [Tasks -> 0 .. Quantum]
        BY <1>14, <2>2 DEF SpendTick, TypeOK
  <2>q. QED
        BY <1>14, <2>3 DEF SpendTick, TypeOK
<1>15. ASSUME QuantumOver PROVE TypeOK'
  <2>1. ticks_left' \in [Tasks -> 0 .. Quantum]
        BY <1>15, QuantumRange DEF QuantumOver, TypeOK
  <2>q. QED
        BY <1>15, <2>1 DEF QuantumOver, TypeOK
<1>16. ASSUME Pick PROVE TypeOK'
  <2>1. current \in Tasks
        BY <1>16 DEF Pick, TypeOK, SInv, CpuInv, CurrentInv, Ptr
  <2>2. CASE state[current] # "READY"
        BY <1>16, <2>1, <2>2 DEF Pick, TypeOK, Ptr
  <2>3. CASE state[current] = "READY" /\ frame[current] = "fresh"
        BY <1>16, <2>1, <2>3 DEF Pick, Resume, TypeOK, Ptr
  <2>4. CASE state[current] = "READY" /\ frame[current] # "fresh"
        BY <1>16, <2>1, <2>4 DEF Pick, Resume, TypeOK, Ptr
  <2>q. QED
        BY <2>2, <2>3, <2>4
<1>17. ASSUME TimerExit PROVE TypeOK'
      BY <1>17, SchedAssumption DEF TimerExit, TypeOK, SInv, CpuInv, CurrentInv, Inserting, Place, Ptr
<1>q. QED
      BY <1>1, <1>2, <1>3, <1>4, <1>5, <1>6, <1>7, <1>8, <1>9, <1>10, <1>11, <1>12, <1>13, <1>14, <1>15, <1>16, <1>17 DEF Next, Kill, CpuStep, SchedQueue

\* A switch happens with the timer interrupt in service, and nothing ends the service after it.
LEMMA CpuStepInv == Inv /\ [Next]_vars => CpuInv'
<1> SUFFICES ASSUME Inv, [Next]_vars PROVE CpuInv'
      OBVIOUS
<1> USE DEF Inv, tasks, glob, cpu, vars
<1>1. ASSUME UNCHANGED vars PROVE CpuInv'
      BY <1>1 DEF TypeOK, CpuInv, SInv
<1>2. ASSUME SchedInit PROVE CpuInv'
      BY <1>2, SchedAssumption DEF SchedInit, Created, NoStack, PidAlloc, TypeOK, CpuInv, SInv
<1>3. ASSUME Spawn PROVE CpuInv'
      BY <1>3, SchedAssumption DEF Spawn, Created, NoStack, PidAlloc, TypeOK, CpuInv, SInv
<1>4. ASSUME QueueEnter PROVE CpuInv'
      BY <1>4, SchedAssumption DEF QueueEnter, QueueStep, TypeOK, CpuInv, SInv
<1>5. ASSUME Link1 PROVE CpuInv'
      BY <1>5, SchedAssumption DEF Link1, QueueStep, TypeOK, CpuInv, SInv
<1>6. ASSUME Link2 PROVE CpuInv'
      BY <1>6, SchedAssumption DEF Link2, QueueStep, TypeOK, CpuInv, SInv
<1>7. ASSUME Link3 PROVE CpuInv'
      BY <1>7, SchedAssumption DEF Link3, QueueStep, TypeOK, CpuInv, SInv
<1>8. ASSUME Link4 PROVE CpuInv'
      BY <1>8, SchedAssumption DEF Link4, QueueStep, TypeOK, CpuInv, SInv
<1>9. ASSUME Alone PROVE CpuInv'
      BY <1>9, SchedAssumption DEF Alone, QueueStep, TypeOK, CpuInv, SInv
<1>10. ASSUME QueueExit PROVE CpuInv'
      BY <1>10, SchedAssumption DEF QueueExit, QueueStep, TypeOK, CpuInv, SInv
<1>11. ASSUME TaskingEnter PROVE CpuInv'
      BY <1>11, SchedAssumption DEF TaskingEnter, Resume, TypeOK, CpuInv, SInv
<1>12. ASSUME KernelIdle PROVE CpuInv'
      BY <1>12, SchedAssumption DEF KernelIdle, TypeOK, CpuInv, SInv
<1>13. ASSUME TimerIrq PROVE CpuInv'
      BY <1>13, SchedAssumption DEF TimerIrq, SchedEnabled, TypeOK, CpuInv, SInv
<1>14. ASSUME SpendTick PROVE CpuInv'
      BY <1>14, SchedAssumption DEF SpendTick, TypeOK, CpuInv, SInv
<1>15. ASSUME QuantumOver PROVE CpuInv'
      BY <1>15, SchedAssumption DEF QuantumOver, TypeOK, CpuInv, SInv
<1>16. ASSUME Pick PROVE CpuInv'
      BY <1>16, SchedAssumption DEF Pick, Resume, TypeOK, CpuInv, SInv
<1>17. ASSUME TimerExit PROVE CpuInv'
      BY <1>17, SchedAssumption DEF TimerExit, TypeOK, CpuInv, SInv
<1>q. QED
      BY <1>1, <1>2, <1>3, <1>4, <1>5, <1>6, <1>7, <1>8, <1>9, <1>10, <1>11, <1>12, <1>13, <1>14, <1>15, <1>16, <1>17 DEF Next, Kill, CpuStep, SchedQueue

\* The current task is there and linked.
LEMMA CurrentStep == Inv /\ [Next]_vars => CurrentInv'
<1> SUFFICES ASSUME Inv, [Next]_vars PROVE CurrentInv'
      OBVIOUS
<1> USE DEF Inv, tasks, glob, cpu, vars
<1>1. ASSUME UNCHANGED vars PROVE CurrentInv'
      BY <1>1 DEF TypeOK, SInv, CpuInv, CurrentInv, RingInv, Whole, Inserting, Place, Ptr
<1>2. ASSUME SchedInit PROVE CurrentInv'
      BY <1>2, SchedAssumption DEF SchedInit, Created, NoStack, PidAlloc, TypeOK, SInv, CpuInv, CurrentInv, RingInv, Whole, Inserting, Place, Ptr
<1>3. ASSUME Spawn PROVE CurrentInv'
      BY <1>3, SchedAssumption DEF Spawn, Created, NoStack, PidAlloc, TypeOK, SInv, CpuInv, CurrentInv, RingInv, Whole, Inserting, Place, Ptr
<1>4. ASSUME QueueEnter PROVE CurrentInv'
  <2>1. CASE total_tasks > 1
        BY <1>4, <2>1 DEF QueueEnter, QueueStep, TypeOK, SInv, CurrentInv, Inserting, Place
  <2>2. CASE ~(total_tasks > 1)
        BY <1>4, <2>2 DEF QueueEnter, QueueStep, TypeOK, SInv, CurrentInv, Inserting, Place
  <2>q. QED
        BY <2>1, <2>2
<1>5. ASSUME Link1 PROVE CurrentInv'
      BY <1>5, SchedAssumption DEF Link1, QueueStep, TypeOK, SInv, CpuInv, CurrentInv, RingInv, Whole, Inserting, Place, Ptr
<1>6. ASSUME Link2 PROVE CurrentInv'
      BY <1>6, SchedAssumption DEF Link2, QueueStep, TypeOK, SInv, CpuInv, CurrentInv, RingInv, Whole, Inserting, Place, Ptr
<1>7. ASSUME Link3 PROVE CurrentInv'
      BY <1>7, SchedAssumption DEF Link3, QueueStep, TypeOK, SInv, CpuInv, CurrentInv, RingInv, Whole, Inserting, Place, Ptr
<1>8. ASSUME Link4 PROVE CurrentInv'
      BY <1>8, SchedAssumption DEF Link4, QueueStep, TypeOK, SInv, CpuInv, CurrentInv, RingInv, Whole, Inserting, Place, Ptr
<1>9. ASSUME Alone PROVE CurrentInv'
      BY <1>9, SchedAssumption DEF Alone, QueueStep, TypeOK, SInv, CpuInv, CurrentInv, RingInv, Whole, Inserting, Place, Ptr
<1>10. ASSUME QueueExit PROVE CurrentInv'
      BY <1>10, SchedAssumption DEF QueueExit, QueueStep, TypeOK, SInv, CpuInv, CurrentInv, RingInv, Whole, Inserting, Place, Ptr
<1>11. ASSUME TaskingEnter PROVE CurrentInv'
      BY <1>11, SchedAssumption DEF TaskingEnter, Resume, TypeOK, SInv, CpuInv, CurrentInv, RingInv, Whole, Inserting, Place, Ptr
<1>12. ASSUME KernelIdle PROVE CurrentInv'
      BY <1>12, SchedAssumption DEF KernelIdle, TypeOK, SInv, CpuInv, CurrentInv, RingInv, Whole, Inserting, Place, Ptr
<1>13. ASSUME TimerIrq PROVE CurrentInv'
      BY <1>13, SchedAssumption DEF TimerIrq, SchedEnabled, TypeOK, SInv, CpuInv, CurrentInv, RingInv, Whole, Inserting, Place, Ptr
<1>14. ASSUME SpendTick PROVE CurrentInv'
      BY <1>14, SchedAssumption DEF SpendTick, TypeOK, SInv, CpuInv, CurrentInv, RingInv, Whole, Inserting, Place, Ptr
<1>15. ASSUME QuantumOver PROVE CurrentInv'
      BY <1>15, SchedAssumption DEF QuantumOver, TypeOK, SInv, CpuInv, CurrentInv, RingInv, Whole, Inserting, Place, Ptr
<1>16. ASSUME Pick PROVE CurrentInv'
  <2>1. current \in Tasks /\ Whole(next, prev)
        BY <1>16 DEF Pick, TypeOK, SInv, CpuInv, CurrentInv, RingInv, Inserting, Ptr
  <2>2. CASE state[current] # "READY"
    <3>1. next[current] \in Tasks /\ next[next[current]] # NULL
          BY <2>1, SchedAssumption DEF TypeOK, SInv, CurrentInv, Whole, Ptr
    <3>q. QED
          BY <1>16, <2>1, <2>2, <3>1 DEF Pick, TypeOK, SInv, CpuInv, CurrentInv, RingInv, Inserting, Place
  <2>3. CASE state[current] = "READY" /\ frame[current] = "fresh"
        BY <1>16, <2>1, <2>3 DEF Pick, Resume, TypeOK, SInv, CpuInv, CurrentInv, Inserting, Place
  <2>4. CASE state[current] = "READY" /\ frame[current] # "fresh"
        BY <1>16, <2>1, <2>4 DEF Pick, Resume, TypeOK, SInv, CpuInv, CurrentInv, Inserting, Place
  <2>q. QED
        BY <2>2, <2>3, <2>4
<1>17. ASSUME TimerExit PROVE CurrentInv'
      BY <1>17, SchedAssumption DEF TimerExit, TypeOK, SInv, CpuInv, CurrentInv, RingInv, Whole, Inserting, Place, Ptr
<1>q. QED
      BY <1>1, <1>2, <1>3, <1>4, <1>5, <1>6, <1>7, <1>8, <1>9, <1>10, <1>11, <1>12, <1>13, <1>14, <1>15, <1>16, <1>17 DEF Next, Kill, CpuStep, SchedQueue

\* last_pid is above every pid given.
LEMMA PidStep == Inv /\ [Next]_vars => PidInv'
<1> SUFFICES ASSUME Inv, [Next]_vars PROVE PidInv'
      OBVIOUS
<1> USE DEF Inv, tasks, glob, cpu, vars
<1>1. ASSUME UNCHANGED vars PROVE PidInv'
      BY <1>1 DEF TypeOK, SInv, PidInv, CpuInv, Place, Ptr
<1>2. ASSUME SchedInit PROVE PidInv'
      BY <1>2, SchedAssumption DEF SchedInit, Created, NoStack, PidAlloc, TypeOK, SInv, PidInv, CpuInv, Place, Ptr
<1>3. ASSUME Spawn PROVE PidInv'
      BY <1>3, SchedAssumption DEF Spawn, Created, NoStack, PidAlloc, TypeOK, SInv, PidInv, CpuInv, Place, Ptr
<1>4. ASSUME QueueEnter PROVE PidInv'
      BY <1>4, SchedAssumption DEF QueueEnter, QueueStep, TypeOK, SInv, PidInv, CpuInv, Place, Ptr
<1>5. ASSUME Link1 PROVE PidInv'
      BY <1>5, SchedAssumption DEF Link1, QueueStep, TypeOK, SInv, PidInv, CpuInv, Place, Ptr
<1>6. ASSUME Link2 PROVE PidInv'
      BY <1>6, SchedAssumption DEF Link2, QueueStep, TypeOK, SInv, PidInv, CpuInv, Place, Ptr
<1>7. ASSUME Link3 PROVE PidInv'
      BY <1>7, SchedAssumption DEF Link3, QueueStep, TypeOK, SInv, PidInv, CpuInv, Place, Ptr
<1>8. ASSUME Link4 PROVE PidInv'
      BY <1>8, SchedAssumption DEF Link4, QueueStep, TypeOK, SInv, PidInv, CpuInv, Place, Ptr
<1>9. ASSUME Alone PROVE PidInv'
      BY <1>9, SchedAssumption DEF Alone, QueueStep, TypeOK, SInv, PidInv, CpuInv, Place, Ptr
<1>10. ASSUME QueueExit PROVE PidInv'
      BY <1>10, SchedAssumption DEF QueueExit, QueueStep, TypeOK, SInv, PidInv, CpuInv, Place, Ptr
<1>11. ASSUME TaskingEnter PROVE PidInv'
      BY <1>11, SchedAssumption DEF TaskingEnter, Resume, TypeOK, SInv, PidInv, CpuInv, Place, Ptr
<1>12. ASSUME KernelIdle PROVE PidInv'
      BY <1>12, SchedAssumption DEF KernelIdle, TypeOK, SInv, PidInv, CpuInv, Place, Ptr
<1>13. ASSUME TimerIrq PROVE PidInv'
      BY <1>13, SchedAssumption DEF TimerIrq, SchedEnabled, TypeOK, SInv, PidInv, CpuInv, Place, Ptr
<1>14. ASSUME SpendTick PROVE PidInv'
      BY <1>14, SchedAssumption DEF SpendTick, TypeOK, SInv, PidInv, CpuInv, Place, Ptr
<1>15. ASSUME QuantumOver PROVE PidInv'
      BY <1>15, SchedAssumption DEF QuantumOver, TypeOK, SInv, PidInv, CpuInv, Place, Ptr
<1>16. ASSUME Pick PROVE PidInv'
      BY <1>16, SchedAssumption DEF Pick, Resume, TypeOK, SInv, PidInv, CpuInv, Place, Ptr
<1>17. ASSUME TimerExit PROVE PidInv'
      BY <1>17, SchedAssumption DEF TimerExit, TypeOK, SInv, PidInv, CpuInv, Place, Ptr
<1>q. QED
      BY <1>1, <1>2, <1>3, <1>4, <1>5, <1>6, <1>7, <1>8, <1>9, <1>10, <1>11, <1>12, <1>13, <1>14, <1>15, <1>16, <1>17 DEF Next, Kill, CpuStep, SchedQueue

\* An insertion, undone, always leaves whole rings.
LEMMA RingStep == Inv /\ [Next]_vars => RingInv'
<1> SUFFICES ASSUME Inv, [Next]_vars PROVE RingInv'
      OBVIOUS
<1> USE DEF Inv, tasks, glob, cpu, vars
<1>1. ASSUME UNCHANGED vars PROVE RingInv'
      BY <1>1 DEF TypeOK, SInv, CpuInv, CurrentInv, RingInv, Whole, Inserting, Place, NextBefore, PrevBefore, Ptr
<1>2. ASSUME SchedInit PROVE RingInv'
      BY <1>2, SchedAssumption DEF SchedInit, Created, NoStack, PidAlloc, TypeOK, SInv, CpuInv, CurrentInv, RingInv, Whole, Inserting, Place, NextBefore, PrevBefore, Ptr
<1>3. ASSUME Spawn PROVE RingInv'
      BY <1>3, SchedAssumption DEF Spawn, Created, NoStack, PidAlloc, TypeOK, SInv, CpuInv, CurrentInv, RingInv, Whole, Inserting, Place, NextBefore, PrevBefore, Ptr
<1>4. ASSUME QueueEnter PROVE RingInv'
      BY <1>4, SchedAssumption DEF QueueEnter, QueueStep, TypeOK, SInv, CpuInv, CurrentInv, RingInv, Whole, Inserting, Place, NextBefore, PrevBefore, Ptr
<1>5. ASSUME Link1 PROVE RingInv'
      BY <1>5, SchedAssumption DEF Link1, QueueStep, TypeOK, SInv, CpuInv, CurrentInv, RingInv, Whole, Inserting, Place, NextBefore, PrevBefore, Ptr
<1>6. ASSUME Link2 PROVE RingInv'
      BY <1>6, SchedAssumption DEF Link2, QueueStep, TypeOK, SInv, CpuInv, CurrentInv, RingInv, Whole, Inserting, Place, NextBefore, PrevBefore, Ptr
<1>7. ASSUME Link3 PROVE RingInv'
      BY <1>7, SchedAssumption DEF Link3, QueueStep, TypeOK, SInv, CpuInv, CurrentInv, RingInv, Whole, Inserting, Place, NextBefore, PrevBefore, Ptr
<1>8. ASSUME Link4 PROVE RingInv'
      BY <1>8, SchedAssumption DEF Link4, QueueStep, TypeOK, SInv, CpuInv, CurrentInv, RingInv, Whole, Inserting, Place, NextBefore, PrevBefore, Ptr
<1>9. ASSUME Alone PROVE RingInv'
      BY <1>9, SchedAssumption DEF Alone, QueueStep, TypeOK, SInv, CpuInv, CurrentInv, RingInv, Whole, Inserting, Place, NextBefore, PrevBefore, Ptr
<1>10. ASSUME QueueExit PROVE RingInv'
      BY <1>10, SchedAssumption DEF QueueExit, QueueStep, TypeOK, SInv, CpuInv, CurrentInv, RingInv, Whole, Inserting, Place, NextBefore, PrevBefore, Ptr
<1>11. ASSUME TaskingEnter PROVE RingInv'
      BY <1>11, SchedAssumption DEF TaskingEnter, Resume, TypeOK, SInv, CpuInv, CurrentInv, RingInv, Whole, Inserting, Place, NextBefore, PrevBefore, Ptr
<1>12. ASSUME KernelIdle PROVE RingInv'
      BY <1>12, SchedAssumption DEF KernelIdle, TypeOK, SInv, CpuInv, CurrentInv, RingInv, Whole, Inserting, Place, NextBefore, PrevBefore, Ptr
<1>13. ASSUME TimerIrq PROVE RingInv'
      BY <1>13, SchedAssumption DEF TimerIrq, SchedEnabled, TypeOK, SInv, CpuInv, CurrentInv, RingInv, Whole, Inserting, Place, NextBefore, PrevBefore, Ptr
<1>14. ASSUME SpendTick PROVE RingInv'
      BY <1>14, SchedAssumption DEF SpendTick, TypeOK, SInv, CpuInv, CurrentInv, RingInv, Whole, Inserting, Place, NextBefore, PrevBefore, Ptr
<1>15. ASSUME QuantumOver PROVE RingInv'
      BY <1>15, SchedAssumption DEF QuantumOver, TypeOK, SInv, CpuInv, CurrentInv, RingInv, Whole, Inserting, Place, NextBefore, PrevBefore, Ptr
<1>16. ASSUME Pick PROVE RingInv'
      BY <1>16, SchedAssumption DEF Pick, Resume, TypeOK, SInv, CpuInv, CurrentInv, RingInv, Whole, Inserting, Place, NextBefore, PrevBefore, Ptr
<1>17. ASSUME TimerExit PROVE RingInv'
      BY <1>17, SchedAssumption DEF TimerExit, TypeOK, SInv, CpuInv, CurrentInv, RingInv, Whole, Inserting, Place, NextBefore, PrevBefore, Ptr
<1>q. QED
      BY <1>1, <1>2, <1>3, <1>4, <1>5, <1>6, <1>7, <1>8, <1>9, <1>10, <1>11, <1>12, <1>13, <1>14, <1>15, <1>16, <1>17 DEF Next, Kill, CpuStep, SchedQueue

\* Tasks are counted once they are queued, the kernel task first.
LEMMA CountStep == Inv /\ [Next]_vars => CountInv'
<1> SUFFICES ASSUME Inv, [Next]_vars PROVE CountInv'
      OBVIOUS
<1> USE DEF Inv, tasks, glob, cpu, vars
<1>1. ASSUME UNCHANGED vars PROVE CountInv'
      BY <1>1 DEF TypeOK, SInv, CpuInv, CountInv, Place, Inserting
<1>2. ASSUME SchedInit PROVE CountInv'
      BY <1>2 DEF SchedInit, Created, NoStack, PidAlloc, TypeOK, SInv, CpuInv, CountInv, Place, Inserting
<1>3. ASSUME Spawn PROVE CountInv'
      BY <1>3 DEF Spawn, Created, NoStack, PidAlloc, TypeOK, SInv, CpuInv, CountInv, Place, Inserting
<1>4. ASSUME QueueEnter PROVE CountInv'
      BY <1>4 DEF QueueEnter, QueueStep, TypeOK, SInv, CpuInv, CountInv, Place, Inserting
<1>5. ASSUME Link1 PROVE CountInv'
      BY <1>5 DEF Link1, QueueStep, TypeOK, SInv, CpuInv, CountInv, Place, Inserting
<1>6. ASSUME Link2 PROVE CountInv'
      BY <1>6 DEF Link2, QueueStep, TypeOK, SInv, CpuInv, CountInv, Place, Inserting
<1>7. ASSUME Link3 PROVE CountInv'
      BY <1>7 DEF Link3, QueueStep, TypeOK, SInv, CpuInv, CountInv, Place, Inserting
<1>8. ASSUME Link4 PROVE CountInv'
      BY <1>8 DEF Link4, QueueStep, TypeOK, SInv, CpuInv, CountInv, Place, Inserting
<1>9. ASSUME Alone PROVE CountInv'
      BY <1>9 DEF Alone, QueueStep, TypeOK, SInv, CpuInv, CountInv, Place, Inserting
<1>10. ASSUME QueueExit PROVE CountInv'
      BY <1>10 DEF QueueExit, QueueStep, TypeOK, SInv, CpuInv, CountInv, Place, Inserting
<1>11. ASSUME TaskingEnter PROVE CountInv'
      BY <1>11 DEF TaskingEnter, Resume, TypeOK, SInv, CpuInv, CountInv, Place, Inserting
<1>12. ASSUME KernelIdle PROVE CountInv'
      BY <1>12 DEF KernelIdle, TypeOK, SInv, CpuInv, CountInv, Place, Inserting
<1>13. ASSUME TimerIrq PROVE CountInv'
      BY <1>13 DEF TimerIrq, SchedEnabled, TypeOK, SInv, CpuInv, CountInv, Place, Inserting
<1>14. ASSUME SpendTick PROVE CountInv'
      BY <1>14 DEF SpendTick, TypeOK, SInv, CpuInv, CountInv, Place, Inserting
<1>15. ASSUME QuantumOver PROVE CountInv'
      BY <1>15 DEF QuantumOver, TypeOK, SInv, CpuInv, CountInv, Place, Inserting
<1>16. ASSUME Pick PROVE CountInv'
  <2>1. pc = "pick" /\ UNCHANGED <<total_tasks, back, p, kernel_task>>
        /\ pc' \in {"pick", "kernel_idle", "run", "panic"}
        BY <1>16 DEF Pick, Resume
  <2>2. total_tasks # 0
        BY <2>1, SchedAssumption DEF SInv, CpuInv, CurrentInv, OneRing, Queued, TypeOK, Ptr
  <2>q. QED
        BY <2>1, <2>2 DEF SInv, CountInv, Place, Inserting
<1>17. ASSUME TimerExit PROVE CountInv'
      BY <1>17 DEF TimerExit, TypeOK, SInv, CpuInv, CountInv, Place, Inserting
<1>q. QED
      BY <1>1, <1>2, <1>3, <1>4, <1>5, <1>6, <1>7, <1>8, <1>9, <1>10, <1>11, <1>12, <1>13, <1>14, <1>15, <1>16, <1>17 DEF Next, Kill, CpuStep, SchedQueue

\* A step that leaves the links leaves the ring, wherever current is in it.
LEMMA OneRingKept ==
  ASSUME OneRing, UNCHANGED kernel_task, Links' = Links, Queued' = Queued,
         Queued = 0 => next' = next, Queued # 0 => current' \in InRing
  PROVE  OneRing'
<1>1. InRing' = InRing
      BY DEF InRing
<1> HIDE DEF InRing, Links, Queued
<1>q. QED
      BY <1>1 DEF OneRing

\* The first two tasks queued are rings of their own; any other joins the second's.
LEMMA OneRingStep == Inv /\ [Next]_vars => OneRing'
<1> SUFFICES ASSUME Inv, [Next]_vars PROVE OneRing'
      OBVIOUS
<1> USE DEF Inv, tasks, glob, cpu, vars
<1>0. OneRing /\ (Queued # 0 => current \in InRing)
      BY DEF SInv, OneRing
<1>1. ASSUME UNCHANGED vars PROVE OneRing'
      BY <1>0, <1>1, OneRingKept DEF Links, NextBefore, Queued, Inserting
<1>2. ASSUME SchedInit PROVE OneRing'
  <2>1. total_tasks = 0 /\ total_tasks' = 0 /\ ~Inserting' /\ pc' # "queued" /\ pc = "boot"
        BY <1>2 DEF SchedInit, SInv, CountInv, Place, Inserting
  <2>2. \A t \in Tasks : next[t] = NULL
        BY <2>1 DEF SInv, OneRing, Queued
  <2>3. \A t \in Tasks : next'[t] = NULL
        BY <1>2, <2>2 DEF SchedInit, Created, NoStack, TypeOK
  <2>4. Queued' = 0 /\ Links' = next'
        BY <2>1 DEF Queued, Links
  <2>5. InRing' = {}
        BY <2>3, <2>4 DEF InRing
  <2>q. QED
        BY <2>3, <2>4, <2>5 DEF OneRing
<1>3. ASSUME Spawn PROVE OneRing'
  <2>1. next' = next
        BY <1>3 DEF Spawn, Created, NoStack, SInv, RingInv, TypeOK
  <2>2. pc = "run" /\ pc' \in {"queue", "run"} /\ UNCHANGED <<kernel_task, current, total_tasks>>
        BY <1>3 DEF Spawn
  <2>q. QED
        BY <1>0, <2>1, <2>2, OneRingKept DEF Links, Queued, Inserting
<1>4. ASSUME QueueEnter PROVE OneRing'
      BY <1>0, <1>4, OneRingKept DEF QueueEnter, QueueStep, Links, NextBefore, Queued, Inserting, TypeOK, SInv, CpuInv
<1>5. ASSUME Link1 PROVE OneRing'
  <2>1. /\ pc = "link1" /\ pc' = "link2" /\ UNCHANGED <<kernel_task, current, total_tasks, p>>
        /\ next' = [next EXCEPT ![p] = next[current]]
        BY <1>5 DEF Link1, QueueStep
  <2>2. p \in Tasks /\ next[p] = NULL
        BY <2>1 DEF SInv, RingInv, Place, TypeOK, Ptr
  <2>3. NextBefore' = next
        BY <2>1, <2>2 DEF NextBefore, TypeOK
  <2>4. Links' = Links /\ Queued' = Queued
        BY <2>1, <2>3 DEF Links, Queued, Inserting
  <2>5. Queued # 0
        BY <2>1 DEF Queued, SInv, CountInv
  <2>q. QED
        BY <1>0, <2>1, <2>4, <2>5, OneRingKept
<1>6. ASSUME Link2 PROVE OneRing'
      BY <1>0, <1>6, OneRingKept DEF Link2, QueueStep, Links, NextBefore, Queued, Inserting, TypeOK, SInv, CpuInv
<1>7. ASSUME Link3 PROVE OneRing'
      BY <1>0, <1>7, OneRingKept DEF Link3, QueueStep, Links, NextBefore, Queued, Inserting, TypeOK, SInv, CpuInv
<1>8. ASSUME Link4 PROVE OneRing'
  <2>1. /\ pc = "link4" /\ pc' = "queued" /\ UNCHANGED <<kernel_task, current, total_tasks, p>>
        /\ next' = [next EXCEPT ![current] = p]
        BY <1>8 DEF Link4, QueueStep
  <2>2. /\ p \in Tasks /\ current \in Tasks /\ p # current /\ next[p] = next[current]
        /\ Whole(NextBefore, PrevBefore) /\ PrevBefore[p] = NULL
        BY <2>1 DEF SInv, RingInv, CurrentInv, Inserting, TypeOK, Ptr
  <2>3. Links = NextBefore /\ Links \in [Tasks -> Ptr] /\ Links[p] = NULL
        /\ \A u \in Tasks : u # p => Links[u] = next[u]
        BY <2>1, <2>2 DEF Links, NextBefore, Inserting, TypeOK, Ptr
  <2>4. Links' = next' /\ next'[p] = Links[current] /\ next'[current] = p
        /\ \A u \in Tasks : u # p /\ u # current => next'[u] = Links[u]
        BY <2>1, <2>2, <2>3 DEF Links, Inserting, TypeOK
  <2>5. Queued = total_tasks /\ Queued' = total_tasks + 1 /\ total_tasks > 1 /\ total_tasks \in Nat
        BY <2>1 DEF Queued, SInv, CountInv, Inserting, TypeOK
  <2>6. \A u \in Tasks : Links[u] # p
        BY <2>2, <2>3, SchedAssumption DEF Whole
  <2>7. current \in InRing /\ Links[kernel_task] = kernel_task /\ kernel_task # NULL
        BY <2>5 DEF SInv, OneRing
  <2>8. kernel_task \in Tasks /\ p # kernel_task /\ current # kernel_task
        BY <2>3, <2>5, <2>7 DEF InRing, TypeOK, Ptr
  <2>9. Links[current] # NULL /\ Links[current] \in Tasks
        BY <2>2, <2>3, <2>7 DEF InRing, Ptr
  <2>10. InRing' = InRing \cup {p}
    <3>1. \A t \in Tasks : next'[t] # NULL <=> t = p \/ Links[t] # NULL
          BY <2>2, <2>4, <2>9, SchedAssumption
    <3>2. InRing = {t \in Tasks : Links[t] # NULL /\ t # kernel_task}
          BY <2>5 DEF InRing
    <3>3. InRing' = {t \in Tasks : next'[t] # NULL /\ t # kernel_task}
          BY <2>1, <2>4, <2>5 DEF InRing
    <3>q. QED
          BY <2>2, <2>8, <3>1, <3>2, <3>3
  <2>11. Links[current] \in InRing
    <3>1. Links[Links[current]] # NULL
          BY <2>2, <2>3, <2>9, SchedAssumption DEF Whole
    <3>2. Links[current] # kernel_task
          BY <2>2, <2>3, <2>7, <2>8, SchedAssumption DEF Whole
    <3>q. QED
          BY <2>9, <3>1, <3>2 DEF InRing
  <2>12. ASSUME NEW S \in SUBSET Tasks, \A u \in S : next'[u] \in S, S \cap InRing' # {}
         PROVE  InRing' \subseteq S
    <3>1. \A u \in S \ {p} : Links[u] \in S \ {p}
      <4>1. ASSUME NEW u \in S \ {p} PROVE Links[u] \in S
        <5>1. CASE u = current
              BY <2>4, <2>12, <5>1
        <5>2. CASE u # current
              BY <2>4, <2>12, <5>2
        <5>q. QED
              BY <5>1, <5>2
      <4>q. QED
            BY <2>6, <4>1
    <3>2. (S \ {p}) \cap InRing # {}
      <4>1. CASE p \in S
            BY <2>4, <2>6, <2>11, <2>12, <4>1, <2>2
      <4>2. CASE p \notin S
            BY <2>10, <2>12, <4>2
      <4>q. QED
            BY <4>1, <4>2
    <3>3. InRing \subseteq S \ {p}
      <4>1. S \ {p} \in SUBSET Tasks
            OBVIOUS
      <4>q. QED
            BY <1>0, <3>1, <3>2, <4>1 DEF OneRing
    <3>4. p \in S
          BY <2>4, <2>7, <2>12, <3>3
    <3>q. QED
          BY <2>10, <3>3, <3>4
  <2>13. Links'[kernel_task] = kernel_task
        BY <2>4, <2>7, <2>8
  <2>14. Queued' # 0 /\ Queued' # 1
        BY <2>5
  <2>q. QED
        BY <2>1, <2>4, <2>7, <2>10, <2>12, <2>13, <2>14 DEF OneRing
<1>9. ASSUME Alone PROVE OneRing'
  <2>1. /\ pc = "alone" /\ pc' = "queued" /\ UNCHANGED <<kernel_task, total_tasks, p>> /\ current' = p
        /\ next' = [next EXCEPT ![p] = p]
        BY <1>9 DEF Alone, QueueStep
  <2>2. p \in Tasks /\ next[p] = NULL
        BY <2>1 DEF SInv, RingInv, Place, TypeOK, Ptr
  <2>3. Links = next /\ Links' = next' /\ Queued = total_tasks /\ Queued' = total_tasks + 1
        BY <2>1 DEF Links, Queued, Inserting
  <2>4. \A t \in Tasks : next'[t] = IF t = p THEN p ELSE next[t]
        BY <2>1, <2>2 DEF TypeOK
  <2>5. total_tasks = 0 \/ total_tasks = 1
        BY <2>1 DEF SInv, CountInv, TypeOK
  <2>6. CASE total_tasks = 0
    <3>1. p = kernel_task /\ \A t \in Tasks : next[t] = NULL
          BY <2>1, <2>3, <2>6 DEF SInv, CountInv, OneRing, Place
    <3>2. InRing' = {p}
          BY <2>1, <2>2, <2>3, <2>4, <2>6, <3>1, SchedAssumption DEF InRing
    <3>q. QED
          BY <2>1, <2>2, <2>3, <2>4, <2>6, <3>1, <3>2, SchedAssumption DEF OneRing
  <2>7. CASE total_tasks = 1
    <3>1. kernel_task # NULL /\ next[kernel_task] = kernel_task
          /\ \A t \in Tasks : next[t] # NULL => t = kernel_task
          BY <2>3, <2>7 DEF SInv, OneRing
    <3>2. p # kernel_task /\ kernel_task \in Tasks
          BY <2>2, <3>1 DEF TypeOK, Ptr
    <3>3. InRing' = {p}
          BY <2>1, <2>2, <2>3, <2>4, <2>7, <3>1, <3>2, SchedAssumption DEF InRing
    <3>q. QED
          BY <2>1, <2>2, <2>3, <2>4, <2>7, <3>1, <3>2, <3>3 DEF OneRing
  <2>q. QED
        BY <2>5, <2>6, <2>7
<1>10. ASSUME QueueExit PROVE OneRing'
      BY <1>0, <1>10, OneRingKept DEF QueueExit, QueueStep, Links, NextBefore, Queued, Inserting, TypeOK, SInv, CpuInv
<1>11. ASSUME TaskingEnter PROVE OneRing'
      BY <1>0, <1>11, OneRingKept DEF TaskingEnter, Resume, Links, NextBefore, Queued, Inserting, TypeOK, SInv, CpuInv
<1>12. ASSUME KernelIdle PROVE OneRing'
      BY <1>0, <1>12, OneRingKept DEF KernelIdle, Links, NextBefore, Queued, Inserting, TypeOK, SInv, CpuInv
<1>13. ASSUME TimerIrq PROVE OneRing'
      BY <1>0, <1>13, OneRingKept DEF TimerIrq, SchedEnabled, Links, NextBefore, Queued, Inserting, TypeOK, SInv, CpuInv
<1>14. ASSUME SpendTick PROVE OneRing'
      BY <1>0, <1>14, OneRingKept DEF SpendTick, Links, NextBefore, Queued, Inserting, TypeOK, SInv, CpuInv
<1>15. ASSUME QuantumOver PROVE OneRing'
      BY <1>0, <1>15, OneRingKept DEF QuantumOver, Links, NextBefore, Queued, Inserting, TypeOK, SInv, CpuInv
<1>16. ASSUME Pick PROVE OneRing'
  <2>1. /\ pc = "pick" /\ pc' \in {"pick", "kernel_idle", "run", "panic"}
        /\ UNCHANGED <<next, kernel_task, total_tasks>> /\ current' \in {current, next[current]}
        BY <1>16 DEF Pick, Resume
  <2>2. Links = next /\ Links' = Links /\ Queued' = Queued
        BY <2>1 DEF Links, Queued, Inserting
  <2>3. current \in Tasks /\ next[current] # NULL /\ Whole(next, prev)
        BY <2>1 DEF SInv, CpuInv, CurrentInv, RingInv, Inserting, TypeOK, Ptr
  <2>4. next[current] \in Tasks /\ next[next[current]] # NULL
        BY <2>3, SchedAssumption DEF Whole, TypeOK, Ptr
  <2>5. ASSUME Queued # 0 PROVE next[current] \in InRing
    <3>1. current \in InRing /\ next[kernel_task] = kernel_task /\ kernel_task \in Tasks
          BY <2>2, <2>5 DEF SInv, OneRing, TypeOK, Ptr
    <3>2. CASE Queued = 1
          BY <2>2, <2>4, <3>2 DEF InRing
    <3>3. CASE Queued # 1
      <4>1. current # kernel_task
            BY <3>1, <3>3 DEF InRing
      <4>2. next[current] # kernel_task
            BY <2>3, <2>4, <3>1, <4>1 DEF Whole
      <4>q. QED
            BY <2>2, <2>4, <4>2 DEF InRing
    <3>q. QED
          BY <3>2, <3>3
  <2>q. QED
        BY <1>0, <2>1, <2>2, <2>5, OneRingKept
<1>17. ASSUME TimerExit PROVE OneRing'
      BY <1>0, <1>17, OneRingKept DEF TimerExit, Links, NextBefore, Queued, Inserting, TypeOK, SInv, CpuInv
<1>q. QED
      BY <1>1, <1>2, <1>3, <1>4, <1>5, <1>6, <1>7, <1>8, <1>9, <1>10, <1>11, <1>12, <1>13, <1>14, <1>15, <1>16, <1>17 DEF Next, Kill, CpuStep, SchedQueue

LEMMA InvStep == Inv /\ [Next]_vars => Inv'
  BY TypeStep, CpuStepInv, CurrentStep, PidStep, RingStep, CountStep, OneRingStep DEF Inv, SInv

LEMMA InvAlways == Spec => []Inv
  BY InitInv, InvStep, PTL DEF Spec

-----------------------------------------------------------------------------

\* The inductive invariant of the scheduler, types included: ticks_left never passes
\* below zero and every insertion, undone, leaves whole rings, however interrupts fall.
THEOREM SchedInvariant == Spec => []SInv
  BY InvAlways, PTL DEF Inv

\* Whenever an interrupt can look at the tasks, the two directions of every ring
\* agree: no insertion of sched_queue is half done.
THEOREM SchedRingLinked == Spec => []RingLinked
<1>1. Inv => RingLinked
      BY SchedAssumption DEF Inv, TypeOK, SInv, CpuInv, CurrentInv, RingInv, Whole, RingLinked,
         Linked, Inserting, Ptr
<1>q. QED
      BY InvAlways, <1>1, PTL

\* No two tasks ever have the same pid, and pid 0 is the kernel task's.
THEOREM SchedPidsUnique == Spec => []PidsUnique
<1>1. Inv => PidsUnique
      BY DEF Inv, SInv, PidInv, PidsUnique, Exists
<1>q. QED
      BY InvAlways, <1>1, PTL

\* Whenever an interrupt can look at the tasks, schedule() can come to every task that
\* was queued but the kernel task, which the second task queued has left outside.
THEOREM SchedOnlyKernelTaskLost == Spec => []OnlyKernelTaskLost
<1> DEFINE Reached == {t \in Tasks : next[t] # NULL /\ (t = kernel_task => total_tasks = 1)}
<1>1. ASSUME Inv, current # NULL, int_flag PROVE Ring = Reached
  <2>1. pc \in {"boot", "queue", "enter", "kernel_idle", "run"}
        BY <1>1 DEF Inv, SInv, CpuInv
  <2>2. Links = next /\ Queued = total_tasks
        BY <2>1 DEF Links, Queued, Inserting
  <2>3. InRing = Reached
        BY <2>2 DEF InRing
  <2>4. Whole(next, prev) /\ next \in [Tasks -> Ptr] /\ current \in Tasks /\ next[current] # NULL
        BY <1>1, <2>1 DEF Inv, SInv, TypeOK, RingInv, CurrentInv, Inserting, Ptr
  <2>5. total_tasks # 0
        BY <1>1, <2>2, <2>4 DEF Inv, SInv, OneRing
  <2>6. current \in Reached /\ kernel_task \in Tasks /\ next[kernel_task] = kernel_task
        BY <1>1, <2>2, <2>3, <2>5 DEF Inv, SInv, OneRing, TypeOK, Ptr
  <2>7. ASSUME NEW u \in Reached PROVE next[u] \in Reached
    <3>1. next[u] \in Tasks /\ next[next[u]] # NULL
          BY <2>4, SchedAssumption DEF Whole, Ptr
    <3>2. next[u] = kernel_task => u = kernel_task
          BY <2>4, <2>6, SchedAssumption DEF Whole
    <3>q. QED
          BY <3>1, <3>2
  <2>8. Ring \subseteq Reached
        BY <2>6, <2>7 DEF Ring
  <2>9. ASSUME NEW S \in SUBSET Tasks, current \in S, \A u \in S : next[u] \in S
        PROVE  Reached \subseteq S
        BY <1>1, <2>2, <2>3, <2>6, <2>9 DEF Inv, SInv, OneRing
  <2>10. Reached \subseteq Ring
        BY <2>9 DEF Ring
  <2>q. QED
        BY <2>8, <2>10
<1>2. Inv => OnlyKernelTaskLost
      BY <1>1 DEF OnlyKernelTaskLost
<1>q. QED
      BY InvAlways, <1>2, PTL

\* A processor that has switched tasks takes no timer interrupt any more.
THEOREM SchedNoTickAfterSwitch == Spec => NoTickAfterSwitch
<1>1. Inv => (Switched => in_service)
      BY DEF Inv, SInv, CpuInv, Switched
<1>2. Inv => (Switched => ~(in_service' /\ ~in_service))
      BY <1>1
<1>q. QED
      BY InvAlways, <1>2, PTL DEF Spec, NoTickAfterSwitch, Switched

-----------------------------------------------------------------------------
\* The scheduler and the ticks

\* To the scheduler every step of the machine is one of its own, or none.
LEMMA SchedMove == [MachineNext]_machine => [Next]_vars
<1> SUFFICES ASSUME [MachineNext]_machine PROVE [Next]_vars
      OBVIOUS
<1> HIDE DEF vars
<1>1. CASE SchedStep
      BY <1>1 DEF SchedStep, Next, CpuStep
<1>2. CASE Tell \/ Write \/ Probe \/ Uart
      BY <1>2 DEF Tell, Write, Probe, Uart
<1>3. CASE PickStep \/ Callbacks
      BY <1>3 DEF PickStep, Callbacks, Next, CpuStep
<1>4. CASE Store \/ CreateCallback \/ Usleep \/ Wake
      BY <1>4 DEF Store, CreateCallback, Usleep, Wake, CallsTimer
<1>5. CASE Create
      BY <1>5 DEF Create, Next, CpuStep
<1>6. CASE Interrupt
      BY <1>6 DEF Interrupt, Next
<1>7. CASE UNCHANGED machine
      BY <1>7 DEF machine
<1>q. QED
      BY <1>1, <1>2, <1>3, <1>4, <1>5, <1>6, <1>7 DEF MachineNext, CodeStep

TicksInv == jiffies \in 0 .. MaxJiffies /\ (InHandler => jiffies > 0)

\* A step that the timer does not see: it is in the handler as before, and switches
\* no task.
LEMMA Unseen ==
  ASSUME UNCHANGED <<timer, is_sched_enabled>>, InHandler' = InHandler, Switched' = Switched
  PROVE  UNCHANGED T!vars
<1> HIDE DEF InHandler, Switched
<1>q. QED
      BY DEF timer, T!vars

LEMMA UnseenStep ==
  ASSUME Inv, SchedStep, ~KernelIdle
  PROVE  UNCHANGED <<timer, is_sched_enabled>> /\ InHandler' = InHandler /\ Switched' = Switched
<1>1. SchedQueue \/ TaskingEnter \/ SpendTick \/ QuantumOver
      BY DEF SchedStep
<1>2. UNCHANGED <<timer, is_sched_enabled, state>>
      BY <1>1 DEF SchedStep, SchedQueue, QueueEnter, Link1, Link2, Link3, Link4, Alone, QueueExit,
                  QueueStep, TaskingEnter, SpendTick, QuantumOver, glob
<1>3. InHandler' = InHandler
      BY <1>1 DEF SchedQueue, QueueEnter, Link1, Link2, Link3, Link4, Alone, QueueExit,
                  QueueStep, TaskingEnter, Resume, SpendTick, QuantumOver, InHandler
<1>4. Switched' = Switched
      BY <1>2 DEF Switched
<1>q. QED
      BY <1>2, <1>3, <1>4

\* What each step is to the timer, and that no step of the handler begins a tick.
LEMMA TimerStep ==
  Inv /\ TicksInv /\ [MachineNext]_machine => [T!Next]_(T!vars) /\ TicksInv'
<1> SUFFICES ASSUME Inv, TicksInv, [MachineNext]_machine PROVE [T!Next]_(T!vars) /\ TicksInv'
      OBVIOUS
<1>1. MaxJiffies \in Nat /\ jiffies \in Nat
      BY MachineAssumption DEF T!TimerAssumption, TicksInv
<1>2. ASSUME UNCHANGED <<timer, is_sched_enabled>>, InHandler' = InHandler, Switched' = Switched
      PROVE  [T!Next]_(T!vars) /\ TicksInv'
      BY <1>2, Unseen DEF timer, TicksInv
<1>3. ASSUME UNCHANGED <<vars, timer>> PROVE [T!Next]_(T!vars) /\ TicksInv'
      BY <1>3, <1>2 DEF vars, tasks, glob, cpu, InHandler, Switched
<1>4. CASE SchedStep /\ ~KernelIdle
      BY <1>2, <1>4, UnseenStep
<1>5. CASE SchedStep /\ KernelIdle
  <2>1. /\ UNCHANGED timer /\ InHandler' = InHandler /\ ~InHandler /\ Switched' = Switched
        /\ is_sched_enabled'
        BY <1>5 DEF SchedStep, KernelIdle, tasks, InHandler, Switched
  <2>2. T!Free
        BY <1>5, <2>1 DEF SchedStep
  <2>3. CASE is_sched_enabled
        BY <1>2, <2>1, <2>3 DEF Inv, TypeOK
  <2>4. CASE ~is_sched_enabled
    <3>1. T!SchedOn
          BY <2>1, <2>2, <2>4 DEF T!SchedOn, timer, Inv, TypeOK
    <3>q. QED
          BY <2>1, <3>1 DEF T!Next, TicksInv, timer
  <2>q. QED
        BY <2>3, <2>4
<1>6. CASE Tell \/ Write \/ Probe \/ Uart
      BY <1>3, <1>6 DEF Tell, Write, Probe, Uart
<1>7. CASE PickStep
  <2>1. /\ Pick /\ UNCHANGED <<timer, is_sched_enabled>> /\ InHandler /\ is_sched_enabled
        /\ \A t \in Tasks : state[t] # "RUNNING"
        BY <1>7 DEF PickStep, Pick, timer, InHandler, Inv, SInv, CpuInv
  <2>2. CASE state[current] # "READY"
        BY <1>2, <2>1, <2>2 DEF Pick, InHandler, Switched
  <2>3. CASE state[current] = "READY"
    <3>1. current \in Tasks
          BY <2>1 DEF Pick, Inv, SInv, CurrentInv, TypeOK, Ptr
    <3>2. ~Switched /\ Switched'
          BY <2>1, <2>3, <3>1 DEF Pick, Switched, Inv, TypeOK
    <3>3. ~InHandler'
          BY <2>1, <2>3 DEF Pick, Resume, InHandler
    <3>4. T!Tick
          BY <1>1, <2>1, <3>2, <3>3 DEF T!Tick, T!CountTick, timer, TicksInv
    <3>q. QED
          BY <2>1, <3>3, <3>4 DEF T!Next, TicksInv, timer
  <2>q. QED
        BY <2>2, <2>3
<1>8. CASE Callbacks
  <2>1. /\ InHandler /\ ~InHandler' /\ UNCHANGED <<jiffies, is_sched_enabled>> /\ Switched' = Switched
        /\ ~Switched
        BY <1>8 DEF Callbacks, TimerExit, tasks, glob, InHandler, Switched, Inv, TypeOK, SInv, CpuInv
  <2>2. T!Tick
        BY <1>1, <1>8, <2>1 DEF Callbacks, T!Tick, T!CountTick, TicksInv
  <2>q. QED
        BY <2>1, <2>2 DEF T!Next, TicksInv
<1>9. CASE Create
  <2>1. UNCHANGED <<timer, is_sched_enabled>> /\ InHandler' = InHandler
        BY <1>9 DEF Create, SchedInit, Spawn, InHandler
  <2>2. Switched' = Switched
        BY <1>9 DEF Create, SchedInit, Spawn, Created, NoStack, tasks, Switched, Inv, TypeOK
  <2>q. QED
        BY <1>2, <2>1, <2>2
<1>10. CASE Interrupt
  <2>1. ~InHandler /\ InHandler' /\ Switched' = Switched /\ jiffies' = jiffies + 1
        /\ UNCHANGED <<blocks, num_cbs, todo, period, end_jiffies, called_at, called_unset,
                       is_sched_enabled>>
        /\ jiffies < MaxJiffies
    <3>1. ~InHandler
          BY <1>10 DEF Interrupt, TimerIrq, InHandler, Inv, SInv, CpuInv
    <3>q. QED
          BY <1>10, <3>1 DEF Interrupt, T!CountTick, TimerIrq, SchedEnabled, tasks, glob, InHandler, Switched
  <2>2. UNCHANGED T!vars
        BY <1>1, <2>1 DEF T!vars
  <2>q. QED
        BY <1>1, <2>1, <2>2 DEF TicksInv
<1>11. CASE Store \/ CreateCallback \/ Usleep \/ Wake
  <2>1. /\ InHandler' = InHandler /\ UNCHANGED jiffies
        /\ \/ T!Store \/ T!Wake
           \/ \E ms \in Periods : T!CreateCallback(ms)
           \/ \E ms \in Sleeps : T!Usleep(ms)
        BY <1>11 DEF Store, CreateCallback, Usleep, Wake, CallsTimer, vars, cpu, InHandler
  <2>q. QED
        BY <2>1 DEF T!Next, TicksInv
<1>12. CASE UNCHANGED machine
      BY <1>3, <1>12 DEF machine
<1>q. QED
      BY <1>4, <1>5, <1>6, <1>7, <1>8, <1>9, <1>10, <1>11, <1>12 DEF MachineNext, CodeStep

-----------------------------------------------------------------------------
\* The callbacks

LEMMA Sizes == /\ MaxJiffies \in Nat /\ Periods \subseteq Nat /\ Sleeps \subseteq Nat /\ Stale \subseteq Nat
               /\ T!Never = MaxJiffies + 1
  BY MachineAssumption DEF T!TimerAssumption, T!Never

\* The ticks the timer has seen, and the one that schedule did not come back from.
Seen == IF InHandler THEN jiffies - 1 ELSE jiffies
Lost == IF Switched THEN 1 ELSE 0
OnTime(i) == called_at[i] # T!Never =>
               blocks[i].expiration + (Seen - called_at[i]) = blocks[i].ms + Lost

LEMMA CountdownOf == /\ T!CountdownInv <=> \A i \in 1 .. num_cbs : OnTime(i)
                     /\ T!CountdownInv' <=> \A i \in 1 .. num_cbs' : OnTime(i)'
  BY DEF T!CountdownInv, OnTime, Seen, Lost, T!Never

LEMMA Fields == \A b \in T!Callback : /\ b.func \in {"unset", "set"} /\ b.ms \in Nat
                                     /\ b.expiration \in Nat /\ T!Expiration(b) \in Nat
  BY DEF T!Callback, T!Expiration

\* A store changes a field of the last block and nothing else.
LEMMA LastStored ==
  ASSUME NEW R, NEW s \in Seq(R), Len(s) > 0, NEW r \in R, NEW t, t = [s EXCEPT ![Len(s)] = r]
  PROVE  /\ t \in Seq(R) /\ Len(t) = Len(s) /\ t[Len(s)] = r
         /\ \A i \in 1 .. Len(s) : i < Len(s) => t[i] = s[i]
<1>1. Len(s) \in 1 .. Len(s)
      OBVIOUS
<1>q. QED
      BY <1>1

LEMMA FieldStored ==
  ASSUME NEW b \in T!Callback, NEW m \in Nat
  PROVE  /\ [b EXCEPT !.func = "set"] \in T!Callback /\ [b EXCEPT !.func = "set"].func = "set"
         /\ [b EXCEPT !.ms = m] \in T!Callback /\ [b EXCEPT !.ms = m].func = b.func
  BY DEF T!Callback

\* The stores of create_callback in their order.
LEMMA StoresInOrder ==
  /\ Head(T!Stores) = "func" /\ Tail(T!Stores) = <<"ms", "slot">>
  /\ Head(<<"ms", "slot">>) = "ms" /\ Tail(<<"ms", "slot">>) = <<"slot">>
  /\ Head(<<"slot">>) = "slot" /\ Tail(<<"slot">>) = <<>>
  /\ T!Stores # <<>> /\ <<"ms", "slot">> # <<>> /\ <<"slot">> # <<>>
  /\ T!Stores # <<"ms", "slot">> /\ T!Stores # <<"slot">>
  BY DEF T!Stores

LEMMA CreateTimerInv == ASSUME T!TimerInv, NEW m \in Periods, T!CreateCallback(m) PROVE T!TimerInv'
<1> HIDE DEF InHandler
<1>1. PICK e \in Stale, x \in Stale :
        blocks' = Append(blocks, [func |-> "unset", ms |-> x, expiration |-> e])
      BY DEF T!CreateCallback
<1>2. [func |-> "unset", ms |-> x, expiration |-> e] \in T!Callback
      BY Sizes DEF T!Callback
<1>3. /\ blocks \in Seq(T!Callback) /\ called_at \in Seq(Nat) /\ Len(called_at) = Len(blocks)
      /\ num_cbs = Len(blocks) /\ todo = <<>>
      BY DEF T!TimerInv, T!TimerTypeOK, T!CreateCallback, T!Free
<1>4. called_at' = Append(called_at, T!Never) /\ T!Never \in Nat
      BY Sizes DEF T!CreateCallback
<1>5. /\ blocks' \in Seq(T!Callback) /\ Len(blocks') = Len(blocks) + 1
      /\ \A i \in 1 .. Len(blocks) : blocks'[i] = blocks[i]
      BY <1>1, <1>2, <1>3
<1>6. /\ called_at' \in Seq(Nat) /\ Len(called_at') = Len(called_at) + 1
      /\ \A i \in 1 .. Len(called_at) : called_at'[i] = called_at[i]
      /\ called_at'[Len(called_at) + 1] = T!Never
      BY <1>3, <1>4
<1>7. T!TimerTypeOK'
      BY <1>3, <1>5, <1>6, Sizes, StoresInOrder DEF T!CreateCallback, T!TimerInv, T!TimerTypeOK
<1>8. T!FilledInv'
  <2>1. \A i \in 1 .. num_cbs : blocks'[i].func = "set"
        BY <1>3, <1>5 DEF T!TimerInv, T!FilledInv
  <2>2. \A i \in DOMAIN called_at' : i > num_cbs => called_at'[i] = T!Never
        BY <1>3, <1>6
  <2>q. QED
        BY <2>1, <2>2, StoresInOrder DEF T!CreateCallback, T!FilledInv, T!Never
<1>9. T!CountdownInv'
      BY <1>3, <1>5, <1>6 DEF T!CreateCallback, T!TimerInv, T!CountdownInv, T!Never
<1>q. QED
      BY <1>7, <1>8, <1>9 DEF T!CreateCallback, T!TimerInv

LEMMA StoreTimerInv == ASSUME T!TimerInv, T!Store PROVE T!TimerInv'
<1> HIDE DEF InHandler, Switched
<1>0. /\ blocks \in Seq(T!Callback) /\ todo # <<>> /\ Len(blocks) > 0 /\ num_cbs = Len(blocks) - 1
      /\ todo \in {T!Stores, <<"ms", "slot">>, <<"slot">>} /\ period \in Nat /\ Len(blocks) \in Nat
      /\ Len(called_at) = Len(blocks) /\ called_at \in Seq(Nat)
      BY DEF T!TimerInv, T!TimerTypeOK, T!Store
<1>1. UNCHANGED <<period, end_jiffies, called_at, called_unset, is_sched_enabled>>
      BY DEF T!Store
<1>2. Seen' = Seen /\ Lost' = Lost /\ T!Never' = T!Never
      BY DEF T!Store, Seen, Lost, T!Never
<1>3. ASSUME blocks' \in Seq(T!Callback), Len(blocks') = Len(blocks), num_cbs' = num_cbs,
             \A i \in 1 .. Len(blocks) : i < Len(blocks) => blocks'[i] = blocks[i],
             blocks'[Len(blocks)].func = "set",
             todo' \in {<<"ms", "slot">>, <<"slot">>}
      PROVE  T!TimerInv'
  <2>1. T!TimerTypeOK'
        BY <1>0, <1>1, <1>2, <1>3, StoresInOrder DEF T!TimerInv, T!TimerTypeOK, Seen
  <2>2. T!FilledInv'
        BY <1>0, <1>1, <1>3, SMTT(30) DEF T!TimerInv, T!FilledInv, T!Never
  <2>3. T!CountdownInv'
    <3>0. \A i \in 1 .. num_cbs : i \in 1 .. Len(blocks) /\ i < Len(blocks)
          BY <1>0
    <3>1. \A i \in 1 .. num_cbs : OnTime(i) /\ blocks'[i] = blocks[i]
          BY <1>3, <3>0, CountdownOf DEF T!TimerInv
    <3>2. \A i \in 1 .. num_cbs' : OnTime(i)'
          BY <1>1, <1>2, <1>3, <3>1 DEF OnTime
    <3>q. QED
          BY <3>2, CountdownOf
  <2>q. QED
        BY <1>1, <2>1, <2>2, <2>3 DEF T!TimerInv
<1>4. CASE todo = T!Stores
  <2>1. blocks' = [blocks EXCEPT ![Len(blocks)].func = "set"] /\ num_cbs' = num_cbs
        /\ todo' = <<"ms", "slot">>
        BY <1>4, StoresInOrder DEF T!Store
  <2>2. /\ blocks' \in Seq(T!Callback) /\ Len(blocks') = Len(blocks) /\ blocks'[Len(blocks)].func = "set"
        /\ \A i \in 1 .. Len(blocks) : i < Len(blocks) => blocks'[i] = blocks[i]
    <3>1. PICK b \in T!Callback : b = blocks[Len(blocks)]
          BY <1>0
    <3>2. PICK c \in T!Callback : c = [b EXCEPT !.func = "set"] /\ c.func = "set"
          BY <1>0, FieldStored
    <3>3. blocks' = [blocks EXCEPT ![Len(blocks)] = c]
          BY <2>1, <3>1, <3>2
    <3>q. QED
          BY <1>0, <3>1, <3>2, <3>3, LastStored
  <2>q. QED
        BY <1>3, <2>1, <2>2
<1>5. CASE todo = <<"ms", "slot">>
  <2>1. blocks' = [blocks EXCEPT ![Len(blocks)].ms = period] /\ num_cbs' = num_cbs
        /\ todo' = <<"slot">>
        BY <1>5, StoresInOrder DEF T!Store
  <2>2. blocks[Len(blocks)].func = "set"
        BY <1>5 DEF T!TimerInv, T!FilledInv
  <2>3. /\ blocks' \in Seq(T!Callback) /\ Len(blocks') = Len(blocks)
        /\ blocks'[Len(blocks)].func = blocks[Len(blocks)].func
        /\ \A i \in 1 .. Len(blocks) : i < Len(blocks) => blocks'[i] = blocks[i]
    <3>1. PICK b \in T!Callback : b = blocks[Len(blocks)]
          BY <1>0
    <3>2. PICK c \in T!Callback : c = [b EXCEPT !.ms = period] /\ c.func = b.func
          BY <1>0, FieldStored
    <3>3. blocks' = [blocks EXCEPT ![Len(blocks)] = c]
          BY <2>1, <3>1, <3>2
    <3>q. QED
          BY <1>0, <3>1, <3>2, <3>3, LastStored
  <2>q. QED
        BY <1>3, <2>1, <2>2, <2>3
<1>6. CASE todo = <<"slot">>
  <2>1. num_cbs' = num_cbs + 1 /\ blocks' = blocks /\ todo' = <<>>
        BY <1>6, StoresInOrder DEF T!Store
  <2>2. T!TimerTypeOK'
        BY <1>0, <1>1, <1>2, <2>1 DEF T!TimerInv, T!TimerTypeOK, Seen
  <2>3. blocks[Len(blocks)].func = "set" /\ called_at[Len(blocks)] = T!Never
        BY <1>0, <1>6 DEF T!TimerInv, T!FilledInv
  <2>4. T!FilledInv'
        BY <1>0, <1>1, <2>1, <2>3 DEF T!TimerInv, T!FilledInv, T!Never
  <2>5. T!CountdownInv'
    <3>1. \A i \in 1 .. num_cbs + 1 : i \in 1 .. num_cbs \/ called_at[i] = T!Never
          BY <1>0, <2>3
    <3>2. \A i \in 1 .. num_cbs + 1 : OnTime(i)'
          BY <1>1, <1>2, <2>1, <3>1, CountdownOf DEF OnTime, T!TimerInv
    <3>q. QED
          BY <2>1, <3>2, CountdownOf
  <2>q. QED
        BY <1>1, <2>2, <2>4, <2>5 DEF T!TimerInv
<1>q. QED
      BY <1>0, <1>4, <1>5, <1>6

\* Steps that neither touch a callback nor count a tick.
LEMMA OtherTimerInv ==
  ASSUME T!TimerInv,
         (\E ms \in Sleeps : T!Usleep(ms)) \/ T!Wake \/ T!SchedOn \/ UNCHANGED T!vars
  PROVE  T!TimerInv'
<1> HIDE DEF InHandler, Switched
<1>1. UNCHANGED <<blocks, num_cbs, todo, period, called_at, called_unset>>
      BY DEF T!Usleep, T!Wake, T!SchedOn, T!vars
<1>2. Seen' = Seen /\ Lost' = Lost
      BY DEF T!Usleep, T!Wake, T!SchedOn, T!vars, Seen, Lost
<1>3. T!TimerTypeOK' /\ T!FilledInv'
      BY <1>1, <1>2 DEF T!TimerInv, T!TimerTypeOK, T!FilledInv, T!Never, Seen
<1>4. T!CountdownInv'
      BY <1>1, <1>2, CountdownOf DEF T!TimerInv, OnTime, T!Never
<1>q. QED
      BY <1>1, <1>3, <1>4 DEF T!TimerInv

\* A tick calls each callback whose expiration is 0 and takes one from the others, or
\* it is the one that schedule does not return from.
LEMMA TickTimerInv == ASSUME T!TimerInv, T!Tick PROVE T!TimerInv'
<1> HIDE DEF InHandler, Switched
<1>0. /\ Seen' = Seen + 1 /\ Seen \in Nat /\ Seen < MaxJiffies /\ Seen' \in 0 .. MaxJiffies /\ ~Switched
      /\ UNCHANGED <<num_cbs, todo, period>>
      BY Sizes DEF T!Tick, T!CountTick, T!TimerInv, T!TimerTypeOK, Seen
<1>1. /\ blocks \in Seq(T!Callback) /\ called_at \in Seq(Nat) /\ Len(called_at) = Len(blocks)
      /\ num_cbs \in Nat /\ num_cbs <= Len(blocks) /\ Len(blocks) \in Nat
      BY DEF T!TimerInv, T!TimerTypeOK
<1>2. \A i \in 1 .. Len(blocks) : called_at[i] \in Nat /\ blocks[i] \in T!Callback
      BY <1>1
<1>3. \A i \in 1 .. num_cbs : called_at[i] # T!Never =>
        blocks[i].expiration + (Seen - called_at[i]) = blocks[i].ms
  <2>1. \A i \in 1 .. num_cbs : blocks[i].ms \in Nat
        BY <1>1, <1>2, Fields
  <2>q. QED
        BY <1>0, <2>1, CountdownOf DEF T!TimerInv, OnTime, Lost
<1>4. CASE Switched' /\ UNCHANGED <<blocks, called_at, called_unset>>
  <2>1. T!TimerTypeOK' /\ T!FilledInv'
        BY <1>0, <1>4 DEF T!TimerInv, T!TimerTypeOK, T!FilledInv, T!Never, Seen
  <2>2. T!CountdownInv'
    <3>1. Lost' = 1
          BY <1>4 DEF Lost
    <3>2. \A i \in 1 .. num_cbs : /\ blocks[i].expiration \in Nat /\ blocks[i].ms \in Nat
                                  /\ called_at[i] \in Nat
          BY <1>1, <1>2, Fields
    <3>3. \A i \in 1 .. num_cbs : OnTime(i)'
          BY <1>0, <1>3, <1>4, <3>1, <3>2 DEF OnTime, T!Never
    <3>q. QED
          BY <1>0, <3>3, CountdownOf
  <2>q. QED
        BY <1>4, <2>1, <2>2 DEF T!TimerInv
<1>5. CASE T!CheckCallbacks /\ Switched' = Switched
  <2>1. /\ blocks' = [i \in 1 .. Len(blocks) |->
                        IF i <= num_cbs
                        THEN [blocks[i] EXCEPT !.expiration = T!Expiration(blocks[i])]
                        ELSE blocks[i]]
        /\ called_at' = [i \in 1 .. Len(blocks) |-> IF T!Due(i) THEN Seen' ELSE called_at[i]]
        BY <1>1, <1>5 DEF T!CheckCallbacks, Seen
  <2>2. \A i \in 1 .. Len(blocks) :
          /\ blocks[i] \in T!Callback /\ blocks[i].ms \in Nat /\ blocks[i].expiration \in Nat
          /\ called_at[i] \in Nat /\ T!Expiration(blocks[i]) \in Nat
        BY <1>2, Fields
  <2>3. ASSUME NEW b \in T!Callback, NEW x \in Nat
        PROVE  LET c == [b EXCEPT !.expiration = x]
               IN  c \in T!Callback /\ c.func = b.func /\ c.ms = b.ms /\ c.expiration = x
        BY DEF T!Callback
  <2>4. \A i \in 1 .. Len(blocks) :
          /\ blocks'[i] \in T!Callback /\ blocks'[i].func = blocks[i].func
          /\ blocks'[i].ms = blocks[i].ms
          /\ i <= num_cbs => blocks'[i].expiration = T!Expiration(blocks[i])
        BY <2>1, <2>2, <2>3
  <2>5. blocks' \in Seq(T!Callback) /\ Len(blocks') = Len(blocks)
        BY <1>1, <2>1, <2>4
  <2>6. called_at' \in Seq(Nat) /\ Len(called_at') = Len(blocks)
        BY <1>0, <1>1, <2>1, <2>2
  <2>7. T!TimerTypeOK'
        BY <1>0, <2>5, <2>6 DEF T!TimerInv, T!TimerTypeOK, Seen
  <2>8. T!FilledInv'
    <3>1. \A i \in 1 .. num_cbs : blocks'[i].func = "set"
          BY <1>1, <2>4 DEF T!TimerInv, T!FilledInv
    <3>2. todo \in {<<"ms", "slot">>, <<"slot">>} => blocks'[Len(blocks)].func = "set"
      <4>1. todo # <<>> => Len(blocks) \in 1 .. Len(blocks)
            BY <1>1 DEF T!TimerInv, T!TimerTypeOK
      <4>q. QED
            BY <2>4, <4>1, StoresInOrder DEF T!TimerInv, T!FilledInv
    <3>3. \A i \in 1 .. Len(blocks) : i > num_cbs => called_at'[i] = T!Never
      <4>1. \A i \in 1 .. Len(blocks) : i > num_cbs => ~T!Due(i) /\ called_at[i] = T!Never
            BY <1>1 DEF T!TimerInv, T!FilledInv, T!Due
      <4>q. QED
            BY <2>1, <4>1
    <3>q. QED
          BY <1>0, <2>5, <2>6, <3>1, <3>2, <3>3 DEF T!FilledInv, T!Never
  <2>9. T!CountdownInv'
    <3>1. ASSUME NEW i \in 1 .. num_cbs, called_at'[i] # T!Never
          PROVE  blocks'[i].expiration + (Seen' - called_at'[i]) = blocks'[i].ms
      <4>1. i \in 1 .. Len(blocks) /\ i <= num_cbs
            BY <1>1
      <4>2. CASE T!Due(i)
        <5>1. called_at'[i] = Seen' /\ blocks[i].expiration = 0
              BY <2>1, <4>1, <4>2 DEF T!Due
        <5>2. blocks'[i].expiration = blocks[i].ms /\ blocks'[i].ms = blocks[i].ms
              BY <2>4, <4>1, <5>1 DEF T!Expiration
        <5>q. QED
              BY <1>0, <2>2, <4>1, <5>1, <5>2
      <4>3. CASE ~T!Due(i)
        <5>1. called_at'[i] = called_at[i] /\ blocks[i].expiration > 0
              BY <2>1, <2>2, <4>1, <4>3 DEF T!Due
        <5>2. blocks'[i].expiration = blocks[i].expiration - 1 /\ blocks'[i].ms = blocks[i].ms
              BY <2>4, <4>1, <5>1 DEF T!Expiration
        <5>3. blocks[i].expiration + (Seen - called_at[i]) = blocks[i].ms
              BY <1>3, <3>1, <5>1
        <5>4. blocks[i].expiration \in Nat /\ called_at[i] \in Nat
              BY <2>2, <4>1
        <5>q. QED
              BY <1>0, <5>1, <5>2, <5>3, <5>4
      <4>q. QED
            BY <4>2, <4>3
    <3>2. Lost' = 0
          BY <1>0, <1>5 DEF Lost
    <3>3. \A i \in 1 .. num_cbs : blocks'[i].ms \in Nat
      <4>1. \A i \in 1 .. num_cbs : i \in 1 .. Len(blocks)
            BY <1>1
      <4>q. QED
            BY <2>2, <2>4, <4>1
    <3>q. QED
          BY <1>0, <3>1, <3>2, <3>3, CountdownOf DEF OnTime, T!Never
  <2>10. ~called_unset'
    <3>1. \A i \in 1 .. Len(blocks) : T!Due(i) => blocks[i].func = "set"
          BY <1>1 DEF T!Due, T!TimerInv, T!FilledInv
    <3>2. DOMAIN blocks = 1 .. Len(blocks)
          BY <1>1
    <3>q. QED
          BY <1>5, <3>1, <3>2 DEF T!CheckCallbacks, T!TimerInv
  <2>q. QED
        BY <2>7, <2>8, <2>9, <2>10 DEF T!TimerInv
<1>q. QED
      BY <1>4, <1>5 DEF T!Tick

LEMMA TimerInvStep == ASSUME T!TimerInv, [T!Next]_(T!vars) PROVE T!TimerInv'
  BY CreateTimerInv, StoreTimerInv, OtherTimerInv, TickTimerInv DEF T!Next

\* What has been called and has no call now is still in its period.
LEMMA StillInPeriod ==
  ASSUME T!TimerInv, ~Switched, NEW i \in DOMAIN called_at, called_at[i] # T!Never
  PROVE  /\ i \in 1 .. num_cbs /\ i \in 1 .. Len(blocks)
         /\ called_at[i] \in Nat /\ blocks[i] \in T!Callback /\ Seen \in Nat
         /\ blocks[i].expiration + (Seen - called_at[i]) = blocks[i].ms
<1> HIDE DEF InHandler, Switched
<1>1. /\ blocks \in Seq(T!Callback) /\ called_at \in Seq(Nat) /\ Len(called_at) = Len(blocks)
      /\ num_cbs \in Nat /\ Seen \in Nat
      BY DEF T!TimerInv, T!TimerTypeOK, Seen
<1>2. i \in 1 .. Len(blocks) /\ called_at[i] \in Nat /\ blocks[i] \in T!Callback
      BY <1>1
<1>3. i \in 1 .. num_cbs
      BY <1>1, <1>2 DEF T!TimerInv, T!FilledInv
<1>4. blocks[i].expiration + (Seen - called_at[i]) = blocks[i].ms + 0
      BY <1>3, CountdownOf DEF T!TimerInv, OnTime, Lost
<1>5. blocks[i].ms \in Nat
      BY <1>2, Fields
<1>q. QED
      BY <1>1, <1>2, <1>3, <1>4, <1>5

\* A tick calls what has counted down, ms + 1 ticks after its last call, and no other
\* step calls or counts.
LEMMA PeriodStep == ASSUME T!TimerInv, [T!Next]_(T!vars) PROVE T!CallsInTime
<1> SUFFICES ASSUME NEW i \in DOMAIN called_at, called_at[i] # T!Never, ~Switched'
             PROVE  IF called_at'[i] = called_at[i]
                    THEN Seen' - called_at[i] <= blocks[i].ms
                    ELSE Seen' - called_at[i] \in blocks[i].ms .. blocks[i].ms + 1
      BY DEF T!CallsInTime, Seen
<1> HIDE DEF InHandler, Switched
<1>1. ~Switched
      BY DEF T!Next, T!vars, T!CreateCallback, T!Store, T!Usleep, T!Wake, T!SchedOn, T!Tick
<1>2. /\ i \in 1 .. num_cbs /\ i \in 1 .. Len(blocks)
      /\ called_at[i] \in Nat /\ blocks[i] \in T!Callback /\ Seen \in Nat
      /\ blocks[i].expiration + (Seen - called_at[i]) = blocks[i].ms
      BY <1>1, StillInPeriod
<1>3. blocks[i].expiration \in Nat /\ blocks[i].ms \in Nat
      BY <1>2, Fields
<1>4. CASE T!Tick
  <2>1. Seen' = Seen + 1
        BY <1>4 DEF T!Tick, T!CountTick, Seen
  <2>2. called_at' = [j \in DOMAIN blocks |-> IF T!Due(j) THEN Seen' ELSE called_at[j]]
        BY <1>4 DEF T!Tick, T!CheckCallbacks, Seen
  <2>3. called_at'[i] = IF T!Due(i) THEN Seen' ELSE called_at[i]
    <3>1. blocks \in Seq(T!Callback)
          BY DEF T!TimerInv, T!TimerTypeOK
    <3>2. i \in DOMAIN blocks
          BY <1>2, <3>1
    <3>q. QED
          BY <2>2, <3>2
  <2>4. CASE T!Due(i)
    <3>1. blocks[i].expiration = 0
          BY <2>4 DEF T!Due
    <3>q. QED
          BY <1>2, <1>3, <2>1, <2>3, <2>4, <3>1
  <2>5. CASE ~T!Due(i)
    <3>1. blocks[i].expiration > 0
      <4>1. num_cbs \in Nat
            BY DEF T!TimerInv, T!TimerTypeOK
      <4>q. QED
            BY <1>2, <1>3, <2>5, <4>1 DEF T!Due
    <3>q. QED
          BY <1>2, <1>3, <2>1, <2>3, <2>5, <3>1
  <2>q. QED
        BY <2>4, <2>5
<1>5. CASE ~T!Tick
  <2>1. Seen' = Seen
        BY <1>5 DEF T!Next, T!vars, T!CreateCallback, T!Store, T!Usleep, T!Wake, T!SchedOn, Seen
  <2>2. called_at' = called_at \/ called_at' = Append(called_at, T!Never)
        BY <1>5 DEF T!Next, T!vars, T!CreateCallback, T!Store, T!Usleep, T!Wake, T!SchedOn
  <2>3. called_at'[i] = called_at[i]
    <3>1. called_at \in Seq(Nat) /\ T!Never \in Nat
          BY Sizes DEF T!TimerInv, T!TimerTypeOK
    <3>q. QED
          BY <2>2, <3>1
  <2>q. QED
        BY <1>2, <1>3, <2>1, <2>3
<1>q. QED
      BY <1>4, <1>5

-----------------------------------------------------------------------------
\* The serial port

\* A step that leaves the ports alone, does not leave the handler's debug and is not
\* on the way to the debug of create_kernel_task.
LEMMA SerialKept ==
  ASSUME SerialInv, UNCHANGED serial, told' \in BOOLEAN,
         Place' # "boot" \/ is_sched_enabled' => probed,
         pc = "pick" /\ told => pc' = "pick" /\ told',
         pc' # "pick" /\ Place' = "queue" /\ ~told' => writing = <<>>
  PROVE  SerialInv'
<1>1. UNCHANGED <<port, probed, faulty, fifo, writing, overrun>>
      BY DEF serial
<1> HIDE DEF Place
<1>2. ProbedInv'
      BY <1>1 DEF SerialInv, ProbedInv
<1>3. WritingInv'
      BY <1>1 DEF SerialInv, WritingInv
<1>q. QED
      BY <1>1, <1>2, <1>3 DEF SerialInv, NoOverrun

\* The code that is not in debug has not left anything to write.
LEMMA NotWriting == SerialInv /\ ~Writing /\ ~InHandler => writing = <<>>
<1> SUFFICES ASSUME SerialInv, ~InHandler, writing # <<>> PROVE Writing
      OBVIOUS
<1>1. writing \in Seq(DebugCall)
      BY DEF SerialInv
<1>2. 1 \in DOMAIN writing /\ Head(writing) = writing[1]
      BY <1>1
<1>3. writing[1].by = "code"
      BY <1>2 DEF SerialInv, WritingInv, InHandler
<1>q. QED
      BY <1>2, <1>3 DEF Writing, Running

LEMMA SchedStepSerial == Inv /\ SerialInv /\ SchedStep => SerialInv'
<1> SUFFICES ASSUME Inv, SerialInv, SchedStep PROVE SerialInv'
      OBVIOUS
<1>1. UNCHANGED serial /\ told' = (told /\ ~(pc = "schedule" /\ pc' = "pick"))
      BY DEF SchedStep
<1>2. CASE SchedQueue
  <2>1. told /\ pc \in {"queue", "link1", "link2", "link3", "link4", "alone", "queued"}
        /\ pc' \in {"link1", "link2", "link3", "link4", "alone", "queued", "enter", "run"}
        /\ UNCHANGED is_sched_enabled
        BY <1>2 DEF SchedStep, SchedQueue, QueueEnter, Link1, Link2, Link3, Link4, Alone, QueueExit,
           QueueStep, TaskingEnter, KernelIdle, SpendTick, QuantumOver
  <2>q. QED
        BY <1>1, <2>1, SerialKept DEF SerialInv, ProbedInv, Place
<1>3. CASE TaskingEnter \/ KernelIdle
  <2>1. pc \in {"enter", "kernel_idle"} /\ pc' \in {"kernel_idle", "run", "panic"}
        BY <1>3 DEF TaskingEnter, KernelIdle, Resume
  <2>q. QED
        BY <1>1, <2>1, SerialKept DEF SerialInv, ProbedInv, Place
<1>4. CASE SpendTick
  <2>1. pc = "schedule" /\ pc' = "eoi" /\ UNCHANGED <<back, is_sched_enabled>>
        BY <1>4 DEF SpendTick, glob
  <2>q. QED
        BY <1>1, <2>1, SerialKept DEF SerialInv, ProbedInv, WritingInv, Place
<1>5. CASE QuantumOver
  <2>1. pc = "schedule" /\ pc' = "pick" /\ UNCHANGED <<back, is_sched_enabled>>
        BY <1>5 DEF QuantumOver, glob
  <2>q. QED
        BY <1>1, <2>1, SerialKept DEF SerialInv, ProbedInv, Place
<1>q. QED
      BY <1>2, <1>3, <1>4, <1>5 DEF SchedStep

\* The call of debug puts one call over at most one of the code.
LEMMA TellSerial == Inv /\ SerialInv /\ Tell => SerialInv'
<1> SUFFICES ASSUME Inv, SerialInv, Tell PROVE SerialInv'
      OBVIOUS
<1>1. writing \in Seq(DebugCall)
      BY DEF SerialInv
<1>2. /\ ~told /\ told' /\ UNCHANGED <<pc, back, is_sched_enabled, port, probed, faulty, fifo, overrun>>
      BY DEF Tell, Debug, vars, glob, cpu
<1>3. pc = "queue" \/ pc = "pick"
      BY DEF Tell
<1>4. probed
      BY <1>3 DEF Inv, SInv, CpuInv, SerialInv, ProbedInv, Place
<1>5. CASE faulty[Com1]
  <2>1. UNCHANGED writing
        BY <1>5 DEF Tell, Debug
  <2>q. QED
        BY <1>2, <1>4, <2>1, SerialKept DEF serial
<1>6. CASE ~faulty[Com1]
  <2>1. PICK e \in DebugCall : /\ writing' = <<e>> \o writing /\ ~e.thre /\ e.by = Running
    <3>1. [left |-> Message, thre |-> FALSE, by |-> Running] \in DebugCall
      <4>1. Message \in Seq({"m", "\n"}) \ {<<>>}
            BY DEF Message
      <4>2. Running \in {"code", "handler"}
            BY DEF Running
      <4>q. QED
            BY <4>1, <4>2 DEF DebugCall
    <3>q. QED
          BY <1>6, <3>1 DEF Tell, Debug
  <2>2. /\ writing' \in Seq(DebugCall) /\ writing'[1] = e
        /\ \A i \in DOMAIN writing' : i \in Nat /\
             (i = 1 \/ (i > 1 /\ i - 1 \in DOMAIN writing /\ writing'[i] = writing[i - 1]))
        BY <1>1, <2>1
  <2>3. port[Com1] = "uart"
        BY <1>4, <1>6, SerialAssumption DEF SerialInv, ProbedInv
  <2>4. ProbedInv'
        BY <1>2, <1>4, <2>3 DEF SerialInv, ProbedInv
  <2>5. \A i \in DOMAIN writing : writing[i].by = "code"
        BY <1>2 DEF SerialInv, WritingInv
  <2>6. ASSUME pc = "queue" PROVE WritingInv'
    <3>1. writing = <<>> /\ Running = "code"
          BY <1>2, <2>6 DEF SerialInv, WritingInv, Place, Running, InHandler
    <3>2. \A i \in DOMAIN writing' : i = 1 /\ writing'[i].by = "code" /\ ~writing'[i].thre
          BY <2>1, <2>2, <3>1
    <3>q. QED
          BY <1>2, <3>2 DEF WritingInv
  <2>7. ASSUME pc = "pick" PROVE WritingInv'
    <3>1. Running = "handler"
          BY <2>7 DEF Running, InHandler
    <3>2. \A i \in DOMAIN writing' : \/ i = 1 /\ writing'[i].by = "handler" /\ ~writing'[i].thre
                                     \/ i > 1 /\ writing'[i].by = "code"
          BY <2>1, <2>2, <2>5, <3>1
    <3>3. \A i, j \in DOMAIN writing' : writing'[i].by = writing'[j].by => i = j
      <4>1. ASSUME NEW i \in DOMAIN writing', NEW j \in DOMAIN writing', i > 1, j > 1 PROVE i = j
        <5>1. i \in Nat /\ j \in Nat /\ i - 1 \in DOMAIN writing /\ j - 1 \in DOMAIN writing
              BY <2>2, <4>1
        <5>2. i - 1 = j - 1
              BY <2>5, <5>1 DEF SerialInv, WritingInv
        <5>q. QED
              BY <5>1, <5>2
      <4>q. QED
            BY <3>2, <4>1
    <3>q. QED
          BY <1>2, <2>7, <3>2, <3>3 DEF WritingInv
  <2>q. QED
        BY <1>2, <1>3, <2>2, <2>4, <2>6, <2>7 DEF SerialInv, NoOverrun
<1>q. QED
      BY <1>5, <1>6

LEMMA RestOf == ASSUME NEW R, NEW s \in Seq(R), s # <<>>, Len(s) # 1
                PROVE  Tail(s) \in Seq(R) /\ Tail(s) # <<>>
<1>1. Len(s) \in Nat /\ Len(s) # 0
      OBVIOUS
<1>2. Len(s) > 1
  <2>1. \A n \in Nat : n # 0 /\ n # 1 => n > 1
        OBVIOUS
  <2>q. QED
        BY <1>1, <2>1
<1>3. Tail(s) \in Seq(R) /\ Len(Tail(s)) = Len(s) - 1
      BY <1>1
<1>4. Len(Tail(s)) # 0
      BY <1>1, <1>2, <1>3
<1>5. Len(<<>>) = 0
      OBVIOUS
<1>q. QED
      BY <1>3, <1>4, <1>5

\* What the handler or the code writes: the transmitter was seen empty, unless it is the
\* code's look that the handler's debug has made stale, and the code does not go on.
LEMMA WriteSerial == SerialInv /\ Write => SerialInv'
<1> SUFFICES ASSUME SerialInv, Write PROVE SerialInv'
      OBVIOUS
<1>1. /\ writing \in Seq(DebugCall) /\ writing # <<>> /\ Head(writing).by = Running
      /\ UNCHANGED <<pc, back, is_sched_enabled, told, port, probed, faulty>>
      BY DEF SerialInv, Write, Writing, SeeEmpty, WriteChar, vars, glob, cpu
<1>2. PICK w \in DebugCall : w = Head(writing) /\ w = writing[1] /\ 1 \in DOMAIN writing
  <2>1. 1 \in DOMAIN writing /\ Head(writing) = writing[1] /\ writing[1] \in DebugCall
        BY <1>1
  <2>q. QED
        BY <2>1
<1>3. port[Com1] = "uart"
      BY <1>1 DEF SerialInv, ProbedInv
<1>4. ProbedInv'
      BY <1>1, <1>3 DEF SerialInv, ProbedInv, Place
<1>5. \A i \in DOMAIN writing : i # 1 => w.by = "handler" /\ writing[i].by = "code" /\ pc = "pick" /\ told
  <2>1. \A i \in DOMAIN writing : i # 1 => writing[i].by # w.by /\ writing[i].by = "code"
        BY <1>2 DEF SerialInv, WritingInv
  <2>q. QED
        BY <1>2, <2>1 DEF SerialInv, WritingInv
<1>6. w.by \in {"code", "handler"} /\ (w.by = "handler" => pc = "pick" /\ told)
      BY <1>2 DEF SerialInv, WritingInv
<1>7. w.by = "code" => pc # "pick"
      BY <1>1, <1>2 DEF Running, InHandler
<1>8. CASE SeeEmpty
  <2>1. fifo = 0 /\ fifo' = fifo /\ overrun' = overrun
        BY <1>3, <1>8 DEF SeeEmpty, EmptyTransit
  <2>2. PICK v \in DebugCall : v = [w EXCEPT !.thre = TRUE] /\ v.by = w.by
    <3>1. [w EXCEPT !.thre = TRUE] \in DebugCall /\ [w EXCEPT !.thre = TRUE].by = w.by
          BY DEF DebugCall
    <3>q. QED
          BY <3>1
  <2>3. writing' = [writing EXCEPT ![1] = v]
        BY <1>2, <1>8, <2>2 DEF SeeEmpty
  <2>4. /\ writing' \in Seq(DebugCall) /\ DOMAIN writing' = DOMAIN writing /\ writing'[1] = v
        /\ \A i \in DOMAIN writing : i # 1 => writing'[i] = writing[i]
        BY <1>1, <1>2, <2>3
  <2>5. \A i \in DOMAIN writing : writing'[i].by = writing[i].by
        BY <1>2, <2>2, <2>4
  <2>6. writing' # <<>>
        BY <1>2, <2>4
  <2>7. \A i \in DOMAIN writing : writing'[i].thre => i = 1 \/ (writing'[i].by = "code" /\ pc = "pick" /\ told)
        BY <1>5, <2>5
  <2>8. WritingInv'
        BY <1>1, <2>1, <2>4, <2>5, <2>7 DEF SerialInv, WritingInv, Place
  <2>q. QED
        BY <1>1, <1>4, <2>1, <2>4, <2>8 DEF SerialInv, NoOverrun
<1>9. CASE WriteChar
  <2>1. w.thre
        BY <1>2, <1>9 DEF WriteChar
  <2>2. fifo = 0
        BY <1>2, <1>7, <2>1 DEF SerialInv, WritingInv
  <2>3. Bytes(Head(w.left)) \in {1, 2}
        BY DEF Bytes
  <2>4. ~overrun' /\ fifo' \in Nat
    <3>1. PICK n \in {1, 2} : n = Bytes(Head(w.left))
          BY <2>3
    <3>2. n <= FifoSize /\ ~(n > FifoSize)
          BY SerialAssumption
    <3>3. fifo' = (IF n <= FifoSize THEN n ELSE FifoSize) /\ overrun' = (overrun \/ n > FifoSize)
          BY <1>2, <1>9, <2>2, <3>1 DEF WriteChar
    <3>4. fifo' = n
          BY <3>2, <3>3
    <3>5. ~overrun
          BY DEF SerialInv, NoOverrun
    <3>6. n \in Nat
          OBVIOUS
    <3>q. QED
          BY <3>2, <3>3, <3>4, <3>5, <3>6, Zenon
  <2>5. CASE Len(w.left) = 1
    <3>1. writing' = Tail(writing)
          BY <1>2, <1>9, <2>5 DEF WriteChar
    <3>2. writing' \in Seq(DebugCall) /\ \A i \in DOMAIN writing' :
            i \in Nat /\ i + 1 \in DOMAIN writing /\ i + 1 # 1 /\ writing'[i] = writing[i + 1]
          BY <1>1, <3>1
    <3>3. \A i \in DOMAIN writing' : writing'[i].by = "code" /\ pc = "pick" /\ told
          BY <1>5, <3>2
    <3>4. \A i, j \in DOMAIN writing' : i = j
      <4>1. ASSUME NEW i \in DOMAIN writing', NEW j \in DOMAIN writing' PROVE i + 1 = j + 1
        <5>1. i + 1 \in DOMAIN writing /\ j + 1 \in DOMAIN writing
                /\ writing[i + 1].by = "code" /\ writing[j + 1].by = "code"
              BY <3>2, <1>5
        <5>q. QED
              BY <5>1 DEF SerialInv, WritingInv
      <4>q. QED
            BY <4>1, <3>2
    <3>5. writing' # <<>> => pc = "pick"
      <4>1. writing' # <<>> => 1 \in DOMAIN writing'
            BY <3>2
      <4>q. QED
            BY <3>3, <4>1
    <3>6. WritingInv'
          BY <1>1, <3>3, <3>4, <3>5 DEF WritingInv
    <3>q. QED
          BY <1>1, <1>4, <2>4, <3>2, <3>6 DEF SerialInv, NoOverrun
  <2>6. CASE Len(w.left) # 1
    <3>1. Tail(w.left) \in Seq({"m", "\n"}) \ {<<>>}
      <4>1. w.left \in Seq({"m", "\n"}) /\ w.left # <<>>
            BY DEF DebugCall
      <4>q. QED
            BY <2>6, <4>1, RestOf
    <3>2. PICK v \in DebugCall : /\ v = [left |-> Tail(w.left), thre |-> FALSE, by |-> w.by]
                                 /\ v.by = w.by /\ ~v.thre
      <4>1. [left |-> Tail(w.left), thre |-> FALSE, by |-> w.by] \in DebugCall
            BY <1>6, <3>1 DEF DebugCall
      <4>q. QED
            BY <4>1
    <3>3. writing' = <<v>> \o Tail(writing)
          BY <1>2, <1>9, <2>6, <3>2 DEF WriteChar
    <3>4. /\ writing' \in Seq(DebugCall) /\ DOMAIN writing' = DOMAIN writing /\ writing'[1] = v
          /\ \A i \in DOMAIN writing : i # 1 => writing'[i] = writing[i]
          BY <1>1, <1>2, <3>3
    <3>5. WritingInv'
      <4>1. \A i \in DOMAIN writing : writing'[i].by = writing[i].by
            BY <1>2, <3>2, <3>4
      <4>2. \A i \in DOMAIN writing : writing'[i].thre => writing'[i].by = "code" /\ pc = "pick" /\ told
            BY <1>5, <3>2, <3>4, <4>1
      <4>q. QED
            BY <1>1, <3>4, <4>1, <4>2 DEF SerialInv, WritingInv, Place
    <3>q. QED
          BY <1>1, <1>4, <2>4, <3>4, <3>5 DEF SerialInv, NoOverrun
  <2>q. QED
        BY <2>5, <2>6
<1>q. QED
      BY <1>8, <1>9 DEF Write

LEMMA SerialStep == Inv /\ SerialInv /\ [MachineNext]_machine => SerialInv'
<1> SUFFICES ASSUME Inv, SerialInv, [MachineNext]_machine PROVE SerialInv'
      OBVIOUS
<1>1. ASSUME UNCHANGED <<pc, back, is_sched_enabled, told, serial>> PROVE SerialInv'
      BY <1>1, SerialKept DEF SerialInv, ProbedInv, WritingInv, Place
<1>2. CASE SchedStep
      BY <1>2, SchedStepSerial
<1>3. CASE Create
  <2>1. /\ UNCHANGED <<serial, back, is_sched_enabled>> /\ probed /\ told' = FALSE
        /\ ~Writing /\ pc \in {"boot", "run"}
        BY <1>3 DEF Create, SchedInit, Spawn
  <2>2. writing = <<>>
        BY <2>1, NotWriting DEF InHandler
  <2>q. QED
        BY <2>1, <2>2, SerialKept
<1>4. CASE Tell
      BY <1>4, TellSerial
<1>5. CASE PickStep
  <2>1. UNCHANGED <<back, is_sched_enabled, told, port, probed, faulty, fifo, overrun>> /\ pc = "pick"
        BY <1>5 DEF PickStep, Pick
  <2>2. CASE state[current] = "READY"
    <3>1. writing' = <<>>
          BY <1>5, <2>2 DEF PickStep
    <3>2. probed
          BY <2>1 DEF Inv, SInv, CpuInv, SerialInv, ProbedInv
    <3>3. ProbedInv' /\ WritingInv'
          BY <2>1, <3>1, <3>2 DEF SerialInv, ProbedInv, WritingInv
    <3>4. writing' \in Seq(DebugCall)
          BY <3>1
    <3>q. QED
          BY <2>1, <3>3, <3>4 DEF SerialInv, NoOverrun
  <2>3. CASE state[current] # "READY"
        BY <1>1, <1>5, <2>1, <2>3 DEF PickStep, Pick, serial
  <2>q. QED
        BY <2>2, <2>3
<1>6. CASE Probe
  <2>1. /\ UNCHANGED <<pc, back, is_sched_enabled, told, port, fifo, writing, overrun>>
        /\ probed' = TRUE /\ faulty' = [i \in Ports |-> port[i] # "uart"]
        BY <1>6 DEF Probe, SerialInit, Loopback, vars, glob, cpu
  <2>2. ProbedInv' /\ WritingInv'
        BY <2>1 DEF SerialInv, ProbedInv, WritingInv, Place
  <2>q. QED
        BY <2>1, <2>2 DEF SerialInv, NoOverrun
<1>7. CASE Write
      BY <1>7, WriteSerial
<1>8. CASE Uart
  <2>1. /\ UNCHANGED <<pc, back, is_sched_enabled, told, port, probed, faulty, writing, overrun>>
        /\ fifo > 0 /\ fifo' = fifo - 1
        BY <1>8 DEF Uart, Transmit, vars, glob, cpu
  <2>2. fifo' \in Nat /\ fifo # 0
        BY <2>1 DEF SerialInv
  <2>3. ProbedInv' /\ WritingInv'
        BY <2>1, <2>2 DEF SerialInv, ProbedInv, WritingInv, Place
  <2>q. QED
        BY <2>1, <2>2, <2>3 DEF SerialInv, NoOverrun
<1>9. CASE Interrupt
  <2>1. /\ UNCHANGED <<serial, told, is_sched_enabled>>
        /\ pc \in {"boot", "queue", "enter", "kernel_idle", "run"}
        /\ back' = pc /\ pc' \in {"schedule", "eoi"}
        BY <1>9 DEF Interrupt, TimerIrq, glob, Inv, SInv, CpuInv
  <2>q. QED
        BY <2>1, SerialKept DEF SerialInv, ProbedInv, WritingInv, Place
<1>10. CASE Callbacks
  <2>1. UNCHANGED <<serial, told, back, is_sched_enabled>> /\ pc = "eoi" /\ pc' = back
        BY <1>10 DEF Callbacks, TimerExit, glob
  <2>2. back \in {"boot", "queue", "enter", "kernel_idle", "run"}
        BY DEF Inv, TypeOK
  <2>q. QED
        BY <2>1, <2>2, SerialKept DEF SerialInv, ProbedInv, WritingInv, Place
<1>11. CASE Store \/ CreateCallback \/ Usleep \/ Wake
      BY <1>1, <1>11 DEF Store, CreateCallback, Usleep, Wake, CallsTimer, vars, glob, cpu
<1>12. CASE UNCHANGED machine
      BY <1>1, <1>12 DEF machine, vars, glob, cpu
<1>q. QED
      BY <1>2, <1>3, <1>4, <1>5, <1>6, <1>7, <1>8, <1>9, <1>10, <1>11, <1>12 DEF MachineNext, CodeStep

-----------------------------------------------------------------------------
\* The theorems

LEMMA InitMachineInv == MachineInit => Inv /\ MachineInv
<1> SUFFICES ASSUME MachineInit PROVE Inv /\ MachineInv
      OBVIOUS
<1>1. Inv
      BY InitInv DEF MachineInit
<1>2. jiffies = 0 /\ pc = "boot" /\ back = "boot" /\ is_sched_enabled = FALSE
      BY DEF MachineInit, Init
<1>3. ~Switched
      BY DEF MachineInit, Init, Switched
<1>4. T!TimerInv
  <2>1. /\ blocks = <<>> /\ num_cbs = 0 /\ todo = <<>> /\ period = 0 /\ called_at = <<>>
        /\ called_unset = FALSE
        BY DEF MachineInit, T!Init
  <2>2. Seen \in 0 .. MaxJiffies
        BY <1>2, Sizes DEF Seen, InHandler
  <2>3. T!TimerTypeOK
    <3>1. \A R : <<>> \in Seq(R) /\ Len(<<>>) = 0
          OBVIOUS
    <3>q. QED
          BY <2>1, <2>2, <3>1, StoresInOrder DEF T!TimerTypeOK, Seen
  <2>4. T!FilledInv
        BY <2>1, StoresInOrder DEF T!FilledInv
  <2>5. T!CountdownInv
        BY <2>1, CountdownOf
  <2>q. QED
        BY <2>1, <2>3, <2>4, <2>5 DEF T!TimerInv
<1>5. SerialInv
  <2>1. /\ writing = <<>> /\ probed = FALSE /\ fifo = 0 /\ overrun = FALSE /\ told = FALSE
        /\ port \in [Ports -> Kinds]
        BY DEF MachineInit, SerialStart
  <2>2. writing \in Seq(DebugCall) /\ DOMAIN writing = {}
        BY <2>1
  <2>q. QED
        BY <1>2, <2>1, <2>2 DEF SerialInv, ProbedInv, WritingInv, NoOverrun, Place
<1>6. TicksInv
      BY <1>2, Sizes DEF TicksInv, InHandler
<1>q. QED
      BY <1>1, <1>4, <1>5, <1>6 DEF MachineInv, TicksInv

LEMMA MachineStep == Inv /\ MachineInv /\ [MachineNext]_machine => (Inv /\ MachineInv)' /\ [T!Next]_(T!vars)
<1> SUFFICES ASSUME Inv, MachineInv, [MachineNext]_machine
             PROVE  (Inv /\ MachineInv)' /\ [T!Next]_(T!vars)
      OBVIOUS
<1>1. T!TimerInv /\ SerialInv /\ TicksInv
      BY DEF MachineInv, TicksInv
<1>2. Inv'
      BY SchedMove, InvStep
<1>3. [T!Next]_(T!vars) /\ TicksInv'
      BY <1>1, TimerStep
<1>4. T!TimerInv'
      BY <1>1, <1>3, TimerInvStep
<1>5. SerialInv'
      BY <1>1, SerialStep
<1>q. QED
      BY <1>2, <1>3, <1>4, <1>5 DEF MachineInv, TicksInv

\* The scheduler's invariant holds in the machine too, and with it that of the timer
\* and of the serial port.
THEOREM MachineInvariant == MachineSpec => [](Inv /\ MachineInv)
<1>1. MachineSpec => MachineInit /\ [][MachineNext]_machine
      BY PTL DEF MachineSpec
<1>q. QED
      BY <1>1, InitMachineInv, MachineStep, PTL

\* What schedule, debug and the callbacks do in an interrupt is a tick of Timer, or
\* none: MachineSpec implements Timer's Spec.
THEOREM TimerRefined == MachineSpec => TimerSpec
<1>1. MachineSpec => MachineInit /\ [][MachineNext]_machine
      BY PTL DEF MachineSpec
<1>2. MachineInit => T!Init
      BY DEF MachineInit
<1>q. QED
      BY <1>1, <1>2, InitMachineInv, MachineStep, PTL DEF TimerSpec, T!Spec

\* However the tick falls between the stores of create_callback, no func is called
\* that is not set, and callbacks[] never has a callback that malloc has not answered.
THEOREM CallsAreSet == MachineSpec => []NoCallUnset
<1>1. MachineInv => NoCallUnset
  <2> SUFFICES ASSUME T!TimerInv PROVE T!NoCallUnset
        BY DEF MachineInv, NoCallUnset
  <2>1. blocks \in Seq(T!Callback) /\ num_cbs = (IF todo = <<>> THEN Len(blocks) ELSE Len(blocks) - 1)
        BY DEF T!TimerInv, T!TimerTypeOK
  <2>2. Len(blocks) \in Nat
        BY <2>1
  <2>q. QED
        BY <2>1, <2>2 DEF T!TimerInv, T!NoCallUnset
<1>q. QED
      BY <1>1, MachineInvariant, PTL

\* Whatever its expiration was found as, and whatever else is created, slept and printed:
\* from its first call on a callback is called neither before its period is over nor more
\* than a tick after it, until the switch.
THEOREM CallsWithinTick == MachineSpec => PeriodWithinTick
<1>1. MachineSpec => [][MachineNext]_machine
      BY PTL DEF MachineSpec
<1>2. Inv /\ MachineInv /\ [MachineNext]_machine => [T!CallsInTime]_(T!vars)
  <2>1. MachineInv => T!TimerInv
        BY DEF MachineInv
  <2>q. QED
        BY <2>1, MachineStep, PeriodStep
<1>q. QED
      BY <1>1, <1>2, MachineInvariant, PTL DEF PeriodWithinTick, T!PeriodWithinTick

\* Nothing is written to a transmitter that has no room, for any ports and any size of
\* the transmitter from two bytes on.
THEOREM NeverOverrun == MachineSpec => []NoOverrun
<1>1. MachineInv => NoOverrun
      BY DEF MachineInv, SerialInv
<1>q. QED
      BY <1>1, MachineInvariant, PTL

=============================================================================
