-------------------------------- MODULE Irq --------------------------------
(***************************************************************************)
(* Hardware interrupts: what the two 8259s of module Pic let through, the  *)
(* gates of idt_setup (arch/x86/cpu/setup.c), the stub and its cli         *)
(* (asm/irq.S), interrupt_handler and its EOIs (int.c, pic.c).             *)
(*                                                                         *)
(* Vector 32 has an interrupt gate, those above it trap gates: between the *)
(* gate and the cli of the stub another interrupt can be taken.  Module    *)
(* Boot says when the code that is interrupted does what.                  *)
(***************************************************************************)
EXTENDS Descriptors, Pic, FiniteSetsExt

CONSTANT Lines    \* the lines of the 8259s that devices raise, 2 is the cascade

ASSUME IrqAssumption == Lines \subseteq (0 .. 15) \ {2}

VARIABLES
  pic,          \* the two chips as they are set up
  irr,          \* lines raised and not yet taken
  isr_master, isr_slave,   \* lines in service
  int_flag,     \* IF
  stack,        \* one [line, at] per interrupt not returned from, the last first
  int_handlers, \* lines with a handler
  halted,       \* "no", or "panic" or "hlt" when the processor will do nothing more
  switched      \* schedule has left a handler and does not come back

pics == <<pic, irr, isr_master, isr_slave>>
cpu == <<int_flag, stack, halted, switched>>
irq == <<pics, cpu, int_handlers>>

Slave == 8 .. 15
Vector(l) == VectorOf(pic, l)
InMaster(l) == IF l \in Slave THEN 2 ELSE l

IrqInit ==
  /\ \E masks \in SUBSET Lines :      \* what the firmware left
       pic = [master |-> Chip(masks \ Slave), slave |-> Chip({l - 8 : l \in masks \cap Slave})]
  /\ irr = {} /\ isr_master = {} /\ isr_slave = {}
  /\ int_flag = FALSE /\ stack = <<>>
  /\ int_handlers = {}
  /\ halted = "no" /\ switched = FALSE

-----------------------------------------------------------------------------
\* pic_remap_vectors, interrupt_install, and the code that is not a handler

\* pic_remap_vectors; a chip that is initialized forgets its requests.
PicRemapVectors ==
  /\ pic' = RemapVectors(pic)
  /\ irr' = {}
  /\ UNCHANGED <<isr_master, isr_slave, cpu, int_handlers>>

Install(l) ==
  /\ int_handlers' = int_handlers \cup {l}
  /\ UNCHANGED <<pics, cpu>>

\* sti and cli
SetFlag(on) ==
  /\ int_flag' = on
  /\ UNCHANGED <<pics, stack, halted, switched, int_handlers>>

\* cli, and for(;;)
Stop(how) ==
  /\ halted' = how
  /\ int_flag' = FALSE
  /\ UNCHANGED <<pics, stack, switched, int_handlers>>

-----------------------------------------------------------------------------
\* The 8259s, as the code relies on them: fully nested, edge triggered

Raise(l) ==
  /\ irr' = irr \cup {l}
  /\ UNCHANGED <<pic, isr_master, isr_slave, cpu, int_handlers>>

Requested == {l \in irr : ~IsMasked(pic, l)}

\* Nothing of the same or a higher priority is in service.
Free(l) ==
  /\ \A s \in isr_master : s > InMaster(l)
  /\ l \in Slave => \A s \in isr_slave : s > l

\* The line whose vector the 8259s give.
Granted(l) ==
  /\ l \in Requested /\ Free(l)
  /\ \A k \in Requested : Free(k) =>
       InMaster(l) < InMaster(k) \/ (InMaster(l) = InMaster(k) /\ l <= k)

\* A non-specific EOI ends the service of the highest priority.
Eoi(isr) == isr \ (IF isr = {} THEN {} ELSE {Min(isr)})

-----------------------------------------------------------------------------
\* Taking an interrupt and the handler

\* Without a gate the vector is a fault, and exception 13 has no handler.
Take(l) ==
  /\ int_flag /\ halted = "no"
  /\ Granted(l)
  /\ irr' = irr \ {l}
  /\ isr_master' = isr_master \cup {InMaster(l)}
  /\ isr_slave' = isr_slave \cup ({l} \cap Slave)
  /\ IF HasGate(Vector(l))
     THEN /\ stack' = <<[line |-> l, at |-> "gate"]>> \o stack
          /\ int_flag' = Traps(Vector(l))
          /\ UNCHANGED halted
     ELSE /\ halted' \in {"panic", "hlt"}
          /\ int_flag' = FALSE
          /\ UNCHANGED stack
  /\ UNCHANGED <<pic, switched, int_handlers>>

Top == Head(stack)
In(at) == stack # <<>> /\ halted = "no" /\ Top.at = at
Goto(at) == stack' = <<[Top EXCEPT !.at = at]>> \o Tail(stack)

\* Mutant: the stub does not turn interrupts off.
AfterCliOn == TRUE

\* cli, the first instruction of the stub.
AfterCli == FALSE

Cli ==
  /\ In("gate") /\ Goto("handler")
  /\ int_flag' = AfterCli
  /\ UNCHANGED <<pics, halted, switched, int_handlers>>

\* The handler of the line when there is one; it runs with interrupts off.
Handle ==
  /\ In("handler") /\ Goto("eoi")
  /\ UNCHANGED <<pics, int_flag, halted, switched, int_handlers>>

\* Mutant: the end of interrupt is sent before the switch.
Unfinished(isr) == Eoi(isr)

\* What is still in service when schedule does not return: pic_eoi is behind it.
InService(isr) == isr

\* timer_irq when schedule resumes a task instead of returning.
HandlerLeaves ==
  /\ In("handler") /\ Top.line = 0 /\ 0 \in int_handlers
  /\ isr_master' = InService(isr_master)
  /\ stack' = <<>> /\ int_flag' = TRUE /\ switched' = TRUE
  /\ UNCHANGED <<pic, irr, isr_slave, halted, int_handlers>>

\* Mutants: the master is told only of the slave's lines, or twice of all.
ToMasterOther(v) == IF v < 40 THEN isr_master ELSE Eoi(isr_master)
ToMasterTwice(v) == Eoi(Eoi(isr_master))

\* pic_eoi(v): the master is told of every vector, and so is the slave, as all are 8 or more.
ToMaster(v) == Eoi(isr_master)
ToSlave(v) == IF v >= 8 THEN Eoi(isr_slave) ELSE isr_slave

PicEoi ==
  /\ In("eoi") /\ Goto("iret")
  /\ isr_slave' = ToSlave(Vector(Top.line))
  /\ isr_master' = ToMaster(Vector(Top.line))
  /\ UNCHANGED <<pic, irr, int_flag, halted, switched, int_handlers>>

\* sti and iretq.
Iret ==
  /\ In("iret")
  /\ stack' = Tail(stack)
  /\ int_flag' = TRUE
  /\ UNCHANGED <<pics, halted, switched, int_handlers>>

-----------------------------------------------------------------------------

\* Until the switch, the EOI a handler sends the master ends the service of the
\* handler's own line, however interrupts nested in their gates; and with every
\* handler done nothing stays in service.
EoiEndsOwnService ==
  /\ In("eoi") /\ ~switched => /\ InMaster(Top.line) \in isr_master
                               /\ \A s \in isr_master : InMaster(Top.line) <= s
  /\ stack = <<>> /\ halted = "no" /\ ~switched => isr_master = {} /\ isr_slave = {}

\* No handler is entered while it runs, and an interrupt is only ever taken over
\* others that have not got to their cli: handlers run one at a time.
HandlersRunAlone ==
  /\ \A i, j \in DOMAIN stack : stack[i].line = stack[j].line => i = j
  /\ \A i \in DOMAIN stack : i > 1 => stack[i].at = "gate"

\* The first switch of tasks is the end of all interrupts and not of the timer's
\* alone: the keyboard is never heard again either, although interrupts are on.
NothingAfterSwitch == [][switched => UNCHANGED <<stack, isr_master, isr_slave>>]_irq

\* A timer interrupt that is raised is taken, unless the processor halts or has switched.
TimerTaken == 0 \in irr ~> (0 \notin irr \/ halted # "no" \/ switched)

-----------------------------------------------------------------------------
(* The part of the inductive invariant of BootProofs that is about interrupts. *)

IrqTypeOK ==
  /\ irr \subseteq Lines /\ isr_master \subseteq 0 .. 15 /\ isr_slave \subseteq Slave
  /\ int_flag \in BOOLEAN /\ switched \in BOOLEAN /\ halted \in {"no", "panic", "hlt"}
  /\ stack \in Seq([line : Lines, at : {"gate", "handler", "eoi", "iret"}])
  /\ int_handlers \subseteq {0, 1}

\* What waits is at its gate and has a lower priority than what waits for it.
StackInv ==
  /\ \A i, j \in DOMAIN stack : i < j => InMaster(stack[i].line) < InMaster(stack[j].line)
  /\ \A i \in DOMAIN stack : i > 1 => stack[i].at = "gate"
  /\ stack # <<>> /\ Top.at # "gate" => ~int_flag

\* The interrupts that have not had their EOI.
Served == {i \in DOMAIN stack : stack[i].at # "iret"}

\* The master serves what is on the stack.  The slave's service may end with the EOI
\* of a handler of the master's, which tells the slave too.
ServiceInv ==
  /\ halted = "no" /\ ~switched =>
       /\ isr_master = {InMaster(stack[i].line) : i \in Served}
       /\ isr_slave \subseteq {stack[i].line : i \in Served}
  /\ switched => stack = <<>> /\ 0 \in isr_master

IrqInv == IrqTypeOK /\ StackInv /\ ServiceInv

=============================================================================
