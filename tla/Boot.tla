-------------------------------- MODULE Boot --------------------------------
(***************************************************************************)
(* The boot, from the first instruction of trampoline.S to kernel_idle:    *)
(* _start (kernel/main.c) and what it calls, in order, with the interrupts *)
(* of module Irq coming between any two steps from load_idt's sti on.      *)
(*                                                                         *)
(* ready is what has been set up so far; a step, or the handler of an      *)
(* interrupt, that uses something else has used it too early.              *)
(***************************************************************************)
EXTENDS Irq

CONSTANTS
  BssSize,    \* bytes of .bss
  PgdAt, PudAt, StackAt,   \* offsets in .bss: boot_pgd, boot_pud, the stack's top words
  Puds        \* entries of boot_pud

ASSUME BootAssumption == BssSize \in Nat /\ PgdAt \in Nat /\ PudAt \in Nat /\ StackAt \in Nat
                           /\ Puds \in Nat \ {0}

VARIABLES
  at,         \* the step the boot is at
  ready, early,
  pgd,        \* boot_pgd[0] points to boot_pud
  pud,        \* the gigabyte each entry of boot_pud maps, or Absent
  returns     \* the return addresses on the stack are there

paging == <<pgd, pud, returns>>
vars == <<irq, at, ready, early, paging>>

Absent == Puds

Init ==
  /\ IrqInit
  /\ at = "grub" /\ ready = {} /\ early = FALSE
  /\ pgd = FALSE /\ pud = [i \in 0 .. Puds - 1 |-> Absent] /\ returns = TRUE

-----------------------------------------------------------------------------

Go(from, to) == at = from /\ at' = to /\ stack = <<>> /\ halted = "no" /\ ~switched
Uses(things) == early' = (early \/ ~(things \subseteq ready))
Provides(things) == ready' = ready \cup things

\* A step that only sets something up.
SetUp(from, to, uses, provides) ==
  Go(from, to) /\ Uses(uses) /\ Provides(provides) /\ UNCHANGED <<irq, paging>>
\* A step that only does a step of Irq.
Does(from, to, step) == Go(from, to) /\ step /\ UNCHANGED <<ready, early, paging>>
\* panic and panic_crit
Panics(from) == Does(from, "panic", Stop("panic"))

\* grub_load, cpuid_detect and long_mode_detect: any check can end in .err.
GrubLoad == SetUp("grub", "tables", {}, {}) \/ Does("grub", "err", Stop("hlt"))

\* page_table_setup, paging_enable, and kernel_jump with the stack it makes.
PageTableSetup ==
  /\ Go("tables", "bss")
  /\ pgd' = TRUE /\ pud' = [pud EXCEPT ![0] = 0]
  /\ UNCHANGED <<irq, ready, early, returns>>

\* The difference of two pointers to words, for a length in bytes.
BssBytes == BssSize \div 8

\* Mutant: all of .bss is cleared.
ClearedAll(offset) == offset < BssSize

\* bss_init clears what is at this offset in .bss.
Cleared(offset) == offset < BssBytes

\* bss_init, on the stack and with the page tables that are in .bss.
BssInit ==
  /\ Go("bss", "addr")
  /\ pgd' = (pgd /\ ~Cleared(PgdAt))
  /\ pud' = [i \in DOMAIN pud |-> IF Cleared(PudAt + 8 * i) THEN Absent ELSE pud[i]]
  /\ returns' = ~Cleared(StackAt)
  /\ UNCHANGED <<irq, ready, early>>

CheckAddr == SetUp("addr", "map", {}, {}) \/ Panics("addr")

\* arch_early_init's loop over boot_pud
MapMemory ==
  /\ Go("map", "gdt")
  /\ pud' = [i \in DOMAIN pud |-> IF i = 0 THEN pud[0] ELSE i]
  /\ UNCHANGED <<irq, ready, early, pgd, returns>>

GdtSetup == SetUp("gdt", "masks", {}, {"gdt", "map"})

\* idt_setup; load_idt ends with sti.
IdtSetup ==
  \/ Does("masks", "lidt", PicRemapVectors)
  \/ SetUp("lidt", "sti", {"gdt"}, {"idt"})
  \/ Does("sti", "exceptions", SetFlag(TRUE))

ExceptionsInit == SetUp("exceptions", "timer", {}, {"exceptions"})
TimerInit == Does("timer", "tss", Install(0))
TssSetup == SetUp("tss", "heap", {"gdt"}, {"tss"})
ArchEarlyInit == MapMemory \/ GdtSetup \/ IdtSetup \/ ExceptionsInit \/ TimerInit \/ TssSetup

HeapInit == SetUp("heap", "console", {}, {"heap"})

\* fbcon_init: without a framebuffer _start panics before it can say so.  The
\* callback of the cursor comes last, and its failure is not looked at.
FbconInit ==
  \/ SetUp("console", "callback", {}, {"framebuffer"})
  \/ Panics("console")
  \/ \E made \in {{"callback"}, {}} : SetUp("callback", "enable", {"heap"}, made)
ConsoleInit == FbconInit \/ SetUp("enable", "banner", {}, {"console"})

\* The banner, the command line, acpi_init; serial_init.
Messages == SetUp("banner", "serial", {"console", "framebuffer", "heap"}, {})
SerialInit == SetUp("serial", "tty", {}, {"serial"})
TtyCreate == SetUp("tty", "keyboard", {"heap", "console"}, {"tty"}) \/ Panics("tty")

\* Mutant: the section of keyboard_init ends before it has a tty.
KbdStepsOpen == [install |-> "exit", exit |-> "lookup", lookup |-> "sched"]

\* The order of the end of keyboard_init.
KbdSteps == [install |-> "lookup", lookup |-> "exit", exit |-> "sched"]

\* keyboard_init.  When a test fails it returns with interrupts off.
KeyboardInit ==
  \/ Does("keyboard", "tests", SetFlag(FALSE))
  \/ \E to \in {"install", "sched"} : SetUp("tests", to, {}, {})
  \/ Does("install", KbdSteps.install, Install(1))
  \/ SetUp("lookup", KbdSteps.lookup, {"tty"}, {"keyboard tty"})
  \/ Does("exit", KbdSteps.exit, SetFlag(TRUE))

\* sched_init: the kernel task, sched_queue, sched_tasking_enter with 0x202 for
\* RFLAGS, kernel_idle.
SchedInit ==
  \/ SetUp("sched", "queue", {"heap"}, {}) \/ Panics("sched")
  \/ Does("queue", "queued", SetFlag(FALSE))
  \/ SetUp("queued", "queue exit", {}, {"current"})
  \/ Does("queue exit", "enter", SetFlag(TRUE))
  \/ SetUp("enter", "idle", {"current", "gdt"}, {})
  \/ SetUp("idle", "up", {}, {"scheduler"})

BootStep ==
  \/ GrubLoad \/ PageTableSetup \/ BssInit \/ CheckAddr
  \/ ArchEarlyInit \/ HeapInit \/ ConsoleInit \/ Messages \/ SerialInit \/ TtyCreate \/ KeyboardInit \/ SchedInit

-----------------------------------------------------------------------------
\* Interrupts and exceptions

boot == <<at, ready, early, paging>>

\* What timer_irq and keyboard_port1_irq use.
HandlerUses(l) ==
  CASE l = 0 -> (IF "callback" \in ready THEN {"framebuffer"} ELSE {})
                  \cup (IF "scheduler" \in ready THEN {"current", "serial", "heap"} ELSE {})
    [] l = 1 -> {"console", "framebuffer", "keyboard tty"}
    [] OTHER -> {}

BootHandle ==
  /\ Handle
  /\ Uses(IF Top.line \in int_handlers THEN HandlerUses(Top.line) ELSE {})
  /\ UNCHANGED <<at, ready, paging>>

Switch ==
  /\ "scheduler" \in ready /\ HandlerLeaves
  /\ Uses(HandlerUses(0))
  /\ UNCHANGED <<at, ready, paging>>

\* exception_handler finds nothing: a dump and panic when there is a console, hlt
\* for ever when there is not; breakpoint_irq halts too.
LastWords == IF "console" \in ready THEN "panic" ELSE "hlt"

BootTake(l) ==
  Take(l) /\ (halted' # "no" => halted' = LastWords) /\ UNCHANGED boot

Exception ==
  /\ "idt" \in ready /\ halted = "no"
  /\ Stop(LastWords) \/ ("exceptions" \in ready /\ Stop("hlt"))
  /\ UNCHANGED boot

HandlerStep ==
  BootHandle \/ Switch \/ ((Cli \/ PicEoi \/ Iret) /\ UNCHANGED boot)

Next ==
  \/ BootStep \/ HandlerStep
  \/ \E l \in Lines : (Raise(l) /\ UNCHANGED boot) \/ BootTake(l)
  \/ Exception

Spec == Init /\ [][Next]_vars

\* Instructions go on, and a request that can be taken again and again is.
FairSpec ==
  Spec /\ WF_vars(BootStep \/ HandlerStep) /\ \A l \in Lines : SF_vars(BootTake(l))

-----------------------------------------------------------------------------

\* Whenever an interrupt comes, and whatever failed before, neither the boot nor
\* a handler uses what is not set up yet.
NothingUsedEarly == ~early

\* What the processor looks at in memory is there once it looks: the tables and
\* the stack in .bss outlive its clearing, all memory is mapped to itself, the
\* descriptors say what the code means, and the 8259s, told word by word, give the
\* vectors that the handlers are installed for.
TablesHold ==
  /\ at \notin {"grub", "tables", "err"} => pgd /\ pud[0] = 0 /\ returns
  /\ "map" \in ready => \A i \in DOMAIN pud : pud[i] = i
  /\ "gdt" \in ready => SegmentsDecode
  /\ "idt" \in ready => GatesDecode
  /\ "idt" \in ready => Initialized(pic) /\ \A l \in Lines : Vector(l) = 32 + l
  /\ "tss" \in ready => TssDecodes

-----------------------------------------------------------------------------
(* The inductive invariant of BootProofs. *)

\* The steps up to the one that sets something up.
ToMasks == {"grub", "tables", "bss", "addr", "map", "gdt", "masks"}
ToHeap == ToMasks \cup {"lidt", "sti", "exceptions", "timer", "tss", "heap"}
ToEnable == ToHeap \cup {"console", "callback", "enable"}
ToTty == ToEnable \cup {"banner", "serial", "tty"}
ToQueued == ToTty \cup {"keyboard", "tests", "install", "lookup", "exit", "sched", "queue", "queued"}
Past(steps) == at \notin steps \cup {"panic", "err"}

\* Where keyboard_init has interrupts off.
Closed == at \in {"tests", "install", "lookup"}

ReadyInv ==
  /\ Past(ToMasks \ {"masks"}) => "gdt" \in ready
  /\ Past(ToHeap) => "heap" \in ready
  /\ Past(ToHeap \cup {"console"}) => "framebuffer" \in ready
  /\ Past(ToEnable) => "console" \in ready
  /\ Past(ToTty \ {"tty"}) => "serial" \in ready
  /\ Past(ToTty) => "tty" \in ready
  /\ Past(ToQueued) => "current" \in ready

\* What a handler can use, whichever of the boot's steps it comes between.
CallsInv ==
  /\ "callback" \in ready => "framebuffer" \in ready
  /\ "scheduler" \in ready => {"current", "serial", "heap"} \subseteq ready
ClosedInv == Closed => stack = <<>> /\ ~int_flag
HandlersInv ==
  1 \in int_handlers =>
    {"console", "framebuffer"} \subseteq ready /\ (at = "lookup" \/ "keyboard tty" \in ready)
HandlerInv == CallsInv /\ ClosedInv /\ HandlersInv

Fresh == pic = [master |-> Chip(pic.master.imr), slave |-> Chip(pic.slave.imr)]
Remapped == Initialized(pic) /\ pic.master.vector = 32 /\ pic.slave.vector = 40

PicInv ==
  /\ Fresh \/ Remapped
  /\ at \in ToMasks => Fresh
  /\ Past(ToMasks) \/ "idt" \in ready => Remapped

\* .bss is so large, and so laid out by the linker, that the eighth of it which
\* bss_init clears ends before what the boot has already put into it.
Spared == BssBytes <= PgdAt /\ BssBytes <= PudAt /\ BssBytes <= StackAt

\* The page tables and the stack, which bss_init might clear.
PagingInv ==
  /\ pud \in [0 .. Puds - 1 -> Nat]
  /\ at \in {"grub", "tables", "bss"} => returns
  /\ at \notin {"grub", "tables", "err"} => pgd /\ pud[0] = 0 /\ returns
  /\ at = "gdt" \/ "map" \in ready => \A i \in DOMAIN pud : pud[i] = i

BootInv == IrqInv /\ ReadyInv /\ HandlerInv /\ PicInv /\ ~early

=============================================================================
