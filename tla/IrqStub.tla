------------------------------ MODULE IrqStub ------------------------------
(***************************************************************************)
(* The assembly every interrupt goes through: interrupt_handler_N and      *)
(* early_interrupt_handler (arch/x86/cpu/asm/irq.S) with pushaq and popaq  *)
(* (arch/x86/cpu/asm/common.inc), around interrupt_handler in C, which     *)
(* reads the stack as a struct interrupt_frame (include/arch/x86.h); and   *)
(* the frame of create_kernel_task (proc/task.c) with what takes it,       *)
(* sched_tasking_enter and context_switch (proc/context.S).                *)
(*                                                                         *)
(* A word on the stack is the name of what was pushed.  Interrupted code   *)
(* is abstracted to one that changes no register, so that what an          *)
(* interrupt does to the registers shows.                                  *)
(***************************************************************************)
EXTENDS Naturals, Sequences, SequencesExt

CONSTANT Vectors    \* those that come, of the 43 with a stub

VARIABLES
  regs,      \* the general registers, each with the name of the one whose value it had at first
  iret,      \* what the last iretq took
  stack,     \* what is pushed, the last word pushed first
  pc,
  vector,
  at_entry,  \* history: the registers when the interrupt was taken
  resumed    \* history: the code that runs was interrupted and has been returned to

vars == <<regs, iret, stack, pc, vector, at_entry, resumed>>

\* Mutant: rdi is pushed before rsi.
PushOrderDi == <<"rax", "rcx", "rdx", "rbx", "rdi", "rsi", "rbp",
                 "r8", "r9", "r10", "r11", "r12", "r13", "r14", "r15">>

\* pushaq, in the order of the instructions.
PushOrder == <<"rax", "rcx", "rdx", "rbx", "rsi", "rdi", "rbp",
               "r8", "r9", "r10", "r11", "r12", "r13", "r14", "r15">>


\* popaq.
PopOrder == <<"r15", "r14", "r13", "r12", "r11", "r10", "r9", "r8",
              "rbp", "rsi", "rdi", "rdx", "rcx", "rbx", "rax">>

\* What iretq takes.
IretWords == <<"rip", "cs", "eflags", "rsp", "ss">>

\* struct interrupt_frame
Frame == <<"ds", "r15", "r14", "r13", "r12", "r11", "r10", "r9", "r8",
           "rbp", "rdi", "rsi", "rbx", "rdx", "rcx", "rax", "intr", "error_code">> \o IretWords

\* create_kernel_task: the pushes of the stack of a new task.
TaskFrame == <<"ss", "rsp", "eflags", "cs", "rip", "rax", "rbx", "rcx", "rdx", "rbp", "rdi", "rsi",
               "r8", "r9", "r10", "r11", "r12", "r13", "r14", "r15">>

\* The pops of sched_tasking_enter, and of context_switch.
TaskPops == <<"r15", "r14", "r13", "r12", "r11", "r10", "r9", "r8",
              "rsi", "rdi", "rbp", "rdx", "rcx", "rbx", "rax">>

Regs == ToSet(PushOrder)

\* Registers a C function may leave with any value.
CallerSaved == {"rax", "rcx", "rdx", "rsi", "rdi", "r8", "r9", "r10", "r11"}

Init ==
  /\ regs = [r \in Regs |-> r] /\ iret = IretWords
  /\ stack = <<>>
  /\ pc = "run" /\ vector = 0
  /\ at_entry = regs
  /\ resumed = FALSE

-----------------------------------------------------------------------------

\* Exceptions with which the processor pushes an error code.
ErrorCodes == {8, 10, 11, 12, 13, 14, 17, 21, 29, 30}

\* DEFINE_INT_HANDLER: the stubs that push a word for the error code.
Pushes0 == (0 .. 42) \ ({8} \cup 10 .. 14 \cup {17, 21, 29, 30})

\* The processor pushes, then the stub.
Enter(v) ==
  /\ pc = "run"
  /\ stack' = <<"intr">> \o (IF v \in Pushes0 THEN <<"error_code">> ELSE <<>>) \o
              (IF v \in ErrorCodes THEN <<"error_code">> ELSE <<>>) \o IretWords
  /\ vector' = v
  /\ at_entry' = regs
  /\ pc' = "pushaq"
  /\ UNCHANGED <<regs, iret, resumed>>

Pushed == Len(stack) - 7

\* One push of pushaq.
Push ==
  /\ pc = "pushaq"
  /\ Pushed < Len(PushOrder)
  /\ stack' = <<regs[PushOrder[Pushed + 1]]>> \o stack
  /\ UNCHANGED <<regs, iret, pc, vector, at_entry, resumed>>

\* push of ds, and the call.
Call ==
  /\ pc = "pushaq"
  /\ Pushed = Len(PushOrder)
  /\ stack' = <<"ds">> \o stack
  /\ pc' = "handler"
  /\ UNCHANGED <<regs, iret, vector, at_entry, resumed>>

\* interrupt_handler returns, ds is popped into rax and the segments loaded.
HandlerReturns ==
  /\ pc = "handler"
  /\ regs' = [r \in Regs |-> IF r \in CallerSaved THEN "junk" ELSE regs[r]]
  /\ stack' = Tail(stack)
  /\ pc' = "popaq"
  /\ UNCHANGED <<iret, vector, at_entry, resumed>>

\* One pop of popaq.
Pop ==
  /\ pc = "popaq"
  /\ Pushed > 0
  /\ regs' = [regs EXCEPT ![PopOrder[Len(PopOrder) - Pushed + 1]] = Head(stack)]
  /\ stack' = Tail(stack)
  /\ UNCHANGED <<iret, pc, vector, at_entry, resumed>>

\* add rsp, 16, the end of popaq; sti; iretq.
Return ==
  /\ pc = "popaq"
  /\ Pushed = 0
  /\ iret' = SubSeq(stack, 3, 7)
  /\ stack' = <<>>
  /\ pc' = "run"
  /\ resumed' = TRUE
  /\ UNCHANGED <<regs, vector, at_entry>>

\* sched_tasking_enter at the end of the boot, or context_switch in the handler of
\* the timer: the frame of a task that has not run is popped.
TaskStarts ==
  /\ pc = "run" \/ (pc = "handler" /\ vector = 32)
  /\ LET words == Reverse(TaskFrame)
     IN  /\ regs' = [r \in Regs |-> words[CHOOSE k \in DOMAIN TaskPops : TaskPops[k] = r]]
         /\ iret' = SubSeq(words, Len(TaskPops) + 1, Len(words))
  /\ stack' = <<>>
  /\ pc' = "run"
  /\ resumed' = FALSE
  /\ UNCHANGED <<vector, at_entry>>

Next ==
  \/ \E v \in Vectors : Enter(v)
  \/ Push \/ Call \/ HandlerReturns \/ Pop \/ Return \/ TaskStarts

Spec == Init /\ [][Next]_vars

-----------------------------------------------------------------------------

\* interrupt_handler finds every word in the field of its name, whichever vectors
\* come with an error code: the fields are in the order of pushaq, whatever the
\* order popaq takes them back in.
FrameAsDeclared ==
  pc = "handler" =>
    stack = [k \in DOMAIN Frame |-> IF Frame[k] \in Regs THEN at_entry[Frame[k]] ELSE Frame[k]]


\* irq.S:27, "restore all registers": code that was interrupted goes on with the
\* registers it had.
ReturnRestores == pc = "run" /\ resumed => regs = at_entry

=============================================================================
