------------------------------- MODULE MCBoot -------------------------------
(* An instance for TLC of Boot or of IrqStub: of the interrupts among the steps of *)
(* the boot, with stubs 2 MB up and .bss with the common symbols before the page   *)
(* tables; or of what the stub of one does, push by push.                          *)
EXTENDS Boot

VARIABLES part, regs, iret, pushed, pc, vector, at_entry, resumed

S == INSTANCE IrqStub WITH Vectors <- 0 .. 42, stack <- pushed

stub == <<regs, iret, pushed, pc, vector, at_entry, resumed>>

\* The stub does not need every mask the firmware may leave.
PartsInit ==
  /\ Init /\ S!Init
  /\ part = "boot" \/ (part = "stub" /\ pic.master.imr = {} /\ pic.slave.imr = {})

PartsNext ==
  \/ part = "boot" /\ Next /\ UNCHANGED <<part, stub>>
  \/ part = "stub" /\ S!Next /\ UNCHANGED <<part, vars>>

\* The fairness of Boot's FairSpec.
PartsFair ==
  /\ WF_vars(part = "boot" /\ (BootStep \/ HandlerStep))
  /\ \A l \in Lines : SF_vars(part = "boot" /\ BootTake(l))

PartsSpec == PartsInit /\ [][PartsNext]_<<vars, part, stub>> /\ PartsFair

\* The handler finds every word of the stack in the field of its name.
FrameAsDeclared == S!FrameAsDeclared


Stubs43 == [v \in 0 .. 42 |-> <<v, 16, 32, 0, 0, 0, 0, 0>>]
Tss2MB == <<64, 160, 33, 0, 0, 0, 0, 0>>

ASSUME Spared
=============================================================================
