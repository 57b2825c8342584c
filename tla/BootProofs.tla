----------------------------- MODULE BootProofs -----------------------------
(***************************************************************************)
(* What holds of the boot and of its interrupts for any set of lines, any  *)
(* stubs and any layout of .bss.                                           *)
(***************************************************************************)
EXTENDS Boot, TLAPS

-----------------------------------------------------------------------------
\* The 8259s

\* The values of the bytes sent that stand for a number.
LEMMA Numbers == Number({5}) = 32 /\ Number({5, 3}) = 40 /\ Number({1}) = 2
  BY DEF Number

\* A word to both chips reaches the register it is meant for.
LEMMA BothCommand ==
  ASSUME NEW x, NEW y, NEW a, NEW b
  PROVE  SendBoth([master |-> x, slave |-> y], "command", a, b) =
           [master |-> CommandTo(x, a), slave |-> CommandTo(y, b)]
<1>1. Outb([master |-> x, slave |-> y], <<"master", "command">>, a) =
        [master |-> CommandTo(x, a), slave |-> y]
      BY DEF Outb
<1>2. \A z : Outb([master |-> z, slave |-> y], <<"slave", "command">>, b) =
        [master |-> z, slave |-> CommandTo(y, b)]
      BY DEF Outb
<1>q. QED
      BY <1>1, <1>2 DEF SendBoth

LEMMA BothData ==
  ASSUME NEW x, NEW y, NEW a, NEW b
  PROVE  SendBoth([master |-> x, slave |-> y], "data", a, b) =
           [master |-> DataTo(x, a), slave |-> DataTo(y, b)]
<1>1. Outb([master |-> x, slave |-> y], <<"master", "data">>, a) =
        [master |-> DataTo(x, a), slave |-> y]
      BY DEF Outb
<1>2. \A z : Outb([master |-> z, slave |-> y], <<"slave", "data">>, b) =
        [master |-> z, slave |-> DataTo(y, b)]
      BY DEF Outb
<1>q. QED
      BY <1>1, <1>2 DEF SendBoth

\* What an 8259 makes of the four words and of its masks.
Word(w, v, k, i) == [icw |-> w, icw4 |-> TRUE, vector |-> v, cascade |-> k, imr |-> i]
LEMMA FirstWord ==
  ASSUME NEW m PROVE CommandTo(Chip(m), ICW1_INIT \cup ICW1_ICW4) = Word(2, 8, {}, {})
  BY DEF CommandTo, Word, Chip, ICW1_INIT, ICW1_ICW4
LEMMA SecondWord ==
  ASSUME NEW v, NEW k, NEW i, NEW b PROVE DataTo(Word(2, v, k, i), b) = Word(3, Number(b), k, i)
  BY DEF DataTo, AfterWord, Word
LEMMA ThirdWord ==
  ASSUME NEW v, NEW k, NEW i, NEW b PROVE DataTo(Word(3, v, k, i), b) = Word(4, v, b, i)
  BY DEF DataTo, AfterWord, Word
LEMMA FourthWord ==
  ASSUME NEW v, NEW k, NEW i, NEW b PROVE DataTo(Word(4, v, k, i), b) = Word(0, v, k, i)
  BY DEF DataTo, AfterWord, Word
LEMMA MaskWord ==
  ASSUME NEW v, NEW k, NEW i, NEW b PROVE DataTo(Word(0, v, k, i), b) = Word(0, v, k, b)
  BY DEF DataTo, AfterWord, Word

\* Whatever the masks, pic_remap_vectors leaves both chips initialized, at 32 and at 40.
LEMMA RemapsTo ==
  ASSUME NEW m, NEW s
  PROVE  LET p == RemapVectors([master |-> Chip(m), slave |-> Chip(s)])
         IN  Initialized(p) /\ p.master.vector = 32 /\ p.slave.vector = 40
<1> DEFINE p0 == [master |-> Chip(m), slave |-> Chip(s)]
           p1 == SendBoth(p0, "command", ICW1_INIT \cup ICW1_ICW4, ICW1_INIT \cup ICW1_ICW4)
           p2 == SendBoth(p1, "data", {5}, {5, 3})
           p3 == SendBoth(p2, "data", {2}, {1})
           p4 == SendBoth(p3, "data", ICW4_8086, ICW4_8086)
           p5 == SendBoth(p4, "data", Inb(p0, SlaveData), Inb(p0, MasterData))
<1> HIDE DEF p0, p1, p2, p3, p4, p5
<1>1. p1 = [master |-> Word(2, 8, {}, {}), slave |-> Word(2, 8, {}, {})]
      BY FirstWord, BothCommand DEF p1, p0
<1>2. p2 = [master |-> Word(3, 32, {}, {}), slave |-> Word(3, 40, {}, {})]
      BY SecondWord, <1>1, BothData, Numbers DEF p2
<1>3. p3 = [master |-> Word(4, 32, {2}, {}), slave |-> Word(4, 40, {1}, {})]
      BY ThirdWord, <1>2, BothData DEF p3
<1>4. p4 = [master |-> Word(0, 32, {2}, {}), slave |-> Word(0, 40, {1}, {})]
      BY FourthWord, <1>3, BothData DEF p4
<1>5. \E a, b : p5 = [master |-> Word(0, 32, {2}, a), slave |-> Word(0, 40, {1}, b)]
      BY MaskWord, <1>4, BothData DEF p5
<1>6. \E a, b : PicUnmask(p5, 0 .. 41) = [master |-> Word(0, 32, {2}, a), slave |-> Word(0, 40, {1}, b)]
  <2>1. PICK a, b : p5 = [master |-> Word(0, 32, {2}, a), slave |-> Word(0, 40, {1}, b)]
        BY <1>5
  <2>2. \E u, w : PicUnmask(p5, 0 .. 41)
                    = [master |-> DataTo(p5.master, u), slave |-> DataTo(p5.slave, w)]
        BY DEF PicUnmask
  <2>q. QED
        BY <2>1, <2>2, MaskWord
<1>7. RemapVectors(p0) = PicUnmask(p5, 0 .. 41)
      BY DEF RemapVectors, p1, p2, p3, p4, p5
<1>q. QED
      BY <1>6, <1>7, Numbers, SMTT(30) DEF p0, Word, Initialized

\* The EOI ends the service of the line that is least.
LEMMA EoiOf ==
  ASSUME NEW S \in SUBSET Nat, NEW x \in S, \A y \in S : x <= y
  PROVE  Eoi(S) = S \ {x}
<1>1. Min(S) \in S /\ \A y \in S : Min(S) <= y
      BY DEF Min
<1> HIDE DEF Min
<1>2. Min(S) \in Nat /\ Min(S) <= x /\ x <= Min(S)
      BY <1>1
<1>3. Min(S) = x
      BY <1>1, <1>2
<1>q. QED
      BY <1>3 DEF Eoi

-----------------------------------------------------------------------------
\* The descriptor tables

\* The entries of the GDT that are used, byte by byte.
LEMMA GdtBytes ==
  /\ Selected(8) = <<255, 255, 0, 0, 0, 154, 32, 0>>
  /\ Selected(16) = <<255, 255, 0, 0, 0, 146, 0, 0>>
  /\ Selected(40) = <<102, 0, TssAddr[1], TssAddr[2], TssAddr[3], 137, 0, TssAddr[4]>>
  /\ Selected(48) = <<0, 0, TssAddr[5], TssAddr[6], TssAddr[7], 0, 0, TssAddr[8]>>
<1>1. /\ Selected(8) = Gdt[2] /\ Selected(16) = Gdt[3]
      /\ Selected(40) = Gdt[6] /\ Selected(48) = Gdt[7]
  <2>1. 8 \div 8 = 1 /\ 16 \div 8 = 2 /\ 40 \div 8 = 5 /\ 48 \div 8 = 6
        OBVIOUS
  <2>q. QED
        BY <2>1 DEF Selected
<1>2. /\ Gdt[2] = SetGlobalDescriptor(All, Zero4, Code, Bits64)
      /\ Gdt[3] = SetGlobalDescriptor(All, Zero4, Data, 0)
      /\ Gdt[6] = SetGlobalDescriptor(<<102, 0>>, Low(TssAddr), TssDesc, 0)
      /\ Gdt[7] = SetGlobalDescriptor(<<0, 0>>, High(TssAddr), 0, 0)
      BY DEF Gdt
<1>q. QED
      BY <1>1, <1>2
      DEF SetGlobalDescriptor, All, Zero4, Code, Data, TssDesc, Bits64, Low, High

\* The segments that are loaded are code and data of the kernel.
LEMMA SegmentsRight == SegmentsDecode
<1>1. /\ Bit(154, 128) /\ Bit(154, 16) /\ Bit(154, 8) /\ Bit(32, 32)
      /\ Bit(146, 128) /\ Bit(146, 16) /\ ~Bit(146, 8) /\ Bit(146, 2)
      BY DEF Bit
<1>q. QED
      BY <1>1, GdtBytes DEF SegmentsDecode, Present

\* The two descriptors of the task state segment hold its address.
LEMMA TssRight == TssDecodes
<1>1. Bit(137, 128) /\ 137 % 32 = 9
      BY DEF Bit
<1>2. TssAddr[5] = 0 /\ TssAddr[6] = 0 /\ TssAddr[7] = 0 /\ TssAddr[8] = 0
      BY DescriptorsAssumption
<1>q. QED
      BY <1>1, <1>2, GdtBytes DEF TssDecodes, Present, Base, Low, High

\* A gate holds the address of its stub.
LEMMA GatesRight == GatesDecode
<1> SUFFICES ASSUME NEW v \in DOMAIN Stub
             PROVE  Present(Idt[v]) /\ Offset(Idt[v]) = Stub[v] /\ Idt[v][6] % 16 \in {14, 15}
      BY DEF GatesDecode
<1>1. Idt[v][6] \in {238, 239}
      BY DEF Idt, SetInterruptVector, TrapGate, InterruptGate
<1>2. Bit(238, 128) /\ Bit(239, 128) /\ 238 % 16 = 14 /\ 239 % 16 = 15
      BY DEF Bit
<1>3. Offset(Idt[v]) = <<Stub[v][1], Stub[v][2], Stub[v][3], Stub[v][4],
                         Stub[v][5], Stub[v][6], Stub[v][7], Stub[v][8]>>
      BY DEF Idt, SetInterruptVector, Offset
<1>4. Stub[v] \in Seq(0 .. 255) /\ Len(Stub[v]) = 8
      BY DescriptorsAssumption
<1>5. Stub[v] = <<Stub[v][1], Stub[v][2], Stub[v][3], Stub[v][4],
                  Stub[v][5], Stub[v][6], Stub[v][7], Stub[v][8]>>
      BY <1>4
<1>q. QED
      BY <1>1, <1>2, <1>3, <1>5 DEF Present

-----------------------------------------------------------------------------
\* The stack of interrupts

Entry == [line : Lines, at : {"gate", "handler", "eoi", "iret"}]

\* Going on in the handler that is on top, taking an interrupt over it, and returning.
LEMMA SetTop ==
  ASSUME NEW R, NEW s \in Seq(R), s # <<>>, NEW e \in R, NEW t, t = <<e>> \o Tail(s)
  PROVE  /\ t \in Seq(R) /\ t # <<>> /\ DOMAIN t = DOMAIN s /\ t[1] = e
         /\ \A i \in DOMAIN s : i > 1 => t[i] = s[i]
<1>1. Len(s) \in Nat /\ Len(s) > 0 /\ Tail(s) \in Seq(R) /\ Len(Tail(s)) = Len(s) - 1
      OBVIOUS
<1>2. t \in Seq(R) /\ Len(t) = Len(s)
      BY <1>1
<1>3. \A i \in 2 .. Len(s) : t[i] = Tail(s)[i - 1]
      BY <1>1
<1>4. \A i \in 2 .. Len(s) : Tail(s)[i - 1] = s[i]
      BY <1>1
<1>q. QED
      BY <1>1, <1>2, <1>3, <1>4

LEMMA Push ==
  ASSUME NEW R, NEW s \in Seq(R), NEW e \in R, NEW t, t = <<e>> \o s
  PROVE  /\ t \in Seq(R) /\ t # <<>> /\ DOMAIN t = 1 .. Len(s) + 1 /\ t[1] = e
         /\ \A i \in DOMAIN t : i > 1 => i - 1 \in DOMAIN s /\ t[i] = s[i - 1]
  OBVIOUS

LEMMA Pop ==
  ASSUME NEW R, NEW s \in Seq(R), s # <<>>, NEW t, t = Tail(s)
  PROVE  /\ t \in Seq(R) /\ DOMAIN t = 1 .. Len(s) - 1
         /\ \A i \in DOMAIN t : i + 1 \in DOMAIN s /\ t[i] = s[i + 1]
<1>1. Len(s) \in Nat /\ Len(s) > 0
      OBVIOUS
<1>q. QED
      BY <1>1

\* What a step does to the interrupts: nothing, or one step of Irq, those that only
\* the code that is not a handler does while no interrupt is being handled.
Idle == stack = <<>> /\ halted = "no" /\ ~switched
IrqMove ==
  \/ UNCHANGED irq
  \/ Idle /\ (PicRemapVectors \/ Install(0) \/ Install(1) \/ SetFlag(TRUE) \/ SetFlag(FALSE))
  \/ \E how \in {"panic", "hlt"} : halted = "no" /\ Stop(how)
  \/ \E l \in Lines : Raise(l) \/ Take(l)
  \/ Handle \/ HandlerLeaves \/ Cli \/ PicEoi \/ Iret

LEMMA NextIrq == [Next]_vars => IrqMove
<1> SUFFICES ASSUME [Next]_vars PROVE IrqMove
      OBVIOUS
<1>1. CASE BootStep
  <2>2. CASE GrubLoad
        BY <2>2 DEF GrubLoad, SetUp, Does, Go, IrqMove, Idle
  <2>3. CASE PageTableSetup \/ BssInit
        BY <2>3 DEF PageTableSetup, BssInit, IrqMove
  <2>4. CASE CheckAddr
        BY <2>4 DEF CheckAddr, SetUp, Panics, Does, Go, IrqMove, Idle
  <2>5. CASE ArchEarlyInit
        BY <2>5 DEF ArchEarlyInit, MapMemory, GdtSetup, IdtSetup, ExceptionsInit, TimerInit,
                    TssSetup, SetUp, Does, Go, IrqMove, Idle
  <2>6. CASE HeapInit \/ Messages \/ SerialInit
        BY <2>6 DEF HeapInit, Messages, SerialInit, SetUp, IrqMove
  <2>7. CASE ConsoleInit
        BY <2>7 DEF ConsoleInit, FbconInit, SetUp, Panics, Does, Go, IrqMove, Idle
  <2>8. CASE TtyCreate
        BY <2>8 DEF TtyCreate, SetUp, Panics, Does, Go, IrqMove, Idle
  <2>9. CASE KeyboardInit
        BY <2>9 DEF KeyboardInit, SetUp, Does, Go, IrqMove, Idle
  <2>10. CASE SchedInit
        BY <2>10 DEF SchedInit, SetUp, Panics, Does, Go, IrqMove, Idle
  <2>q. QED
        BY <1>1, <2>2, <2>3, <2>4, <2>5, <2>6, <2>7, <2>8, <2>9, <2>10 DEF BootStep
<1>2. CASE HandlerStep
      BY <1>2 DEF HandlerStep, BootHandle, Switch, IrqMove
<1>3. CASE \E l \in Lines : (Raise(l) /\ UNCHANGED boot) \/ BootTake(l)
      BY <1>3 DEF BootTake, IrqMove
<1>4. CASE Exception
      BY <1>4 DEF Exception, LastWords, IrqMove
<1>5. CASE UNCHANGED vars
      BY <1>5 DEF vars, IrqMove
<1>q. QED
      BY <1>1, <1>2, <1>3, <1>4, <1>5 DEF Next

\* The top of the stack is one of its entries.
LEMMA FirstOf ==
  ASSUME NEW R, NEW s \in Seq(R), s # <<>>
  PROVE  1 \in DOMAIN s /\ Head(s) = s[1] /\ s[1] \in R
<1>1. Len(s) \in Nat /\ Len(s) > 0
      OBVIOUS
<1>q. QED
      BY <1>1
LEMMA TopEntry == IrqTypeOK /\ stack # <<>> => 1 \in DOMAIN stack /\ Top = stack[1] /\ Top \in Entry
<1>1. IrqTypeOK => stack \in Seq(Entry)
      BY DEF IrqTypeOK, Entry
<1>q. QED
      BY <1>1, FirstOf DEF Top
LEMMA EntryOf == IrqTypeOK => \A i \in DOMAIN stack : /\ stack[i] \in Entry /\ stack[i].line \in Lines
                                                     /\ i \in Nat /\ (i = 1 \/ i > 1)
<1>1. IrqTypeOK => stack \in Seq(Entry)
      BY DEF IrqTypeOK, Entry
<1>2. IrqTypeOK => \A i \in DOMAIN stack : stack[i] \in Entry /\ i \in Nat /\ (i = 1 \/ i > 1)
      BY <1>1
<1>q. QED
      BY <1>2 DEF Entry

LEMMA InMasterRange == \A l \in Lines : InMaster(l) \in 0 .. 15 /\ l \in 0 .. 15
  BY IrqAssumption DEF InMaster, Slave

\* Going on in the handler on top keeps the stack's order, and its service unless it is the EOI.
LEMMA GotoStep ==
  ASSUME IrqInv, NEW a \in {"handler", "eoi", "iret"}, stack # <<>>, Goto(a), ~int_flag'
  PROVE  /\ stack' \in Seq(Entry) /\ stack' # <<>> /\ StackInv'
         /\ DOMAIN stack' = DOMAIN stack /\ stack'[1].at = a
         /\ \A i \in DOMAIN stack : stack'[i].line = stack[i].line
         /\ Top.at # "iret" => Served' = (IF a = "iret" THEN Served \ {1} ELSE Served)
<1>1. stack \in Seq(Entry) /\ 1 \in DOMAIN stack /\ Top = stack[1] /\ Top \in Entry
      BY TopEntry DEF IrqInv, IrqTypeOK, Entry
<1>2. [Top EXCEPT !.at = a] \in Entry /\ [Top EXCEPT !.at = a].at = a
        /\ [Top EXCEPT !.at = a].line = Top.line
      BY <1>1 DEF Entry
<1>3. stack' = <<[Top EXCEPT !.at = a]>> \o Tail(stack)
      BY DEF Goto
<1> HIDE DEF Entry, Top
<1>4. /\ stack' \in Seq(Entry) /\ stack' # <<>> /\ DOMAIN stack' = DOMAIN stack
      /\ stack'[1] = [Top EXCEPT !.at = a]
      /\ \A i \in DOMAIN stack : i > 1 => stack'[i] = stack[i]
      BY <1>1, <1>2, <1>3, SetTop
<1>5. DOMAIN stack \subseteq Nat \ {0} /\ \A i \in DOMAIN stack : i = 1 \/ i > 1
      BY EntryOf DEF IrqInv
<1>6. \A i \in DOMAIN stack : stack'[i].line = stack[i].line
      BY <1>1, <1>2, <1>4, <1>5
<1>7. stack'[1].at = a
      BY <1>2, <1>4
<1>8. StackInv'
      BY <1>4, <1>5, <1>6 DEF IrqInv, StackInv
<1>9. \A i \in DOMAIN stack : i > 1 => stack[i].at = "gate" /\ stack'[i].at = "gate"
      BY <1>4 DEF IrqInv, StackInv
<1>10. ASSUME Top.at # "iret" PROVE Served' = (IF a = "iret" THEN Served \ {1} ELSE Served)
  <2>1. Served = DOMAIN stack
    <3>1. \A i \in DOMAIN stack : stack[i].at # "iret"
          BY <1>1, <1>5, <1>9, <1>10
    <3>q. QED
          BY <3>1 DEF Served
  <2>2. CASE a = "iret"
        BY <1>4, <1>5, <1>7, <1>9, <2>1, <2>2 DEF Served
  <2>3. CASE a # "iret"
        BY <1>4, <1>5, <1>7, <1>9, <2>1, <2>3 DEF Served
  <2>q. QED
        BY <2>2, <2>3
<1>q. QED
      BY <1>4, <1>6, <1>7, <1>8, <1>10

\* An interrupt is taken over interrupts at their gates, of lower priorities.
LEMMA TakeStep == ASSUME IrqInv, NEW l \in Lines, Take(l) PROVE IrqInv'
<1>1. stack \in Seq(Entry)
      BY DEF IrqInv, IrqTypeOK, Entry
<1>2. int_flag /\ halted = "no" /\ \A x \in isr_master : x > InMaster(l)
      BY DEF Take, Granted, Free
<1>3. ~switched
      BY <1>2, InMasterRange DEF IrqInv, ServiceInv
<1>4. \A i \in DOMAIN stack : stack[i].at = "gate"
  <2>1. stack # <<>> => stack[1].at = "gate"
        BY <1>2 DEF IrqInv, StackInv, Top
  <2>2. \A i \in DOMAIN stack : i = 1 \/ i > 1
        BY <1>1
  <2>q. QED
        BY <1>1, <2>1, <2>2 DEF IrqInv, StackInv
<1>5. Served = DOMAIN stack
      BY <1>4 DEF Served
<1>6. \A i \in DOMAIN stack : InMaster(l) < InMaster(stack[i].line) /\ stack[i].line \in Lines
  <2>1. \A i \in DOMAIN stack : InMaster(stack[i].line) \in isr_master
        BY <1>2, <1>3, <1>5 DEF IrqInv, ServiceInv
  <2>2. \A i \in DOMAIN stack : stack[i].line \in Lines
        BY EntryOf DEF IrqInv
  <2>q. QED
        BY <1>2, <2>1, <2>2, InMasterRange
<1>7. CASE HasGate(Vector(l))
  <2> DEFINE e == [line |-> l, at |-> "gate"]
  <2>1. e \in Entry /\ e.line = l /\ e.at = "gate"
        BY DEF Entry
  <2>2. stack' = <<e>> \o stack /\ int_flag' = Traps(Vector(l)) /\ UNCHANGED <<halted, switched>>
        BY <1>7 DEF Take
  <2> HIDE DEF e, Entry
  <2>3. /\ stack' \in Seq(Entry) /\ stack' # <<>> /\ DOMAIN stack' = 1 .. Len(stack) + 1
        /\ stack'[1] = e
        /\ \A i \in DOMAIN stack' : i > 1 => i - 1 \in DOMAIN stack /\ stack'[i] = stack[i - 1]
        BY <1>1, <2>1, <2>2, Push
  <2>4. \A i \in DOMAIN stack : i + 1 \in DOMAIN stack' /\ stack'[i + 1] = stack[i]
    <3>1. ASSUME NEW i \in DOMAIN stack
          PROVE  i + 1 \in DOMAIN stack' /\ i + 1 > 1 /\ (i + 1) - 1 = i
          BY <1>1, <2>3
    <3>q. QED
          BY <3>1, <2>3
  <2>5. StackInv'
    <3>1. ASSUME NEW i \in DOMAIN stack', NEW j \in DOMAIN stack', i < j
          PROVE  InMaster(stack'[i].line) < InMaster(stack'[j].line)
      <4>1. i \in Nat /\ j \in Nat /\ j > 1 /\ i >= 1
            BY <1>1, <2>3, <3>1
      <4>2. CASE i = 1
            BY <4>1, <4>2, <2>1, <2>3, <1>6
      <4>3. CASE i # 1
        <5>1. i > 1 /\ i - 1 < j - 1
              BY <4>1, <4>3, <3>1
        <5>q. QED
              BY <5>1, <4>1, <2>3 DEF IrqInv, StackInv
      <4>q. QED
            BY <4>2, <4>3
    <3>2. \A i \in DOMAIN stack' : i > 1 => stack'[i].at = "gate"
          BY <2>3, <1>4
    <3>3. Top'.at = "gate"
          BY <2>1, <2>3 DEF Top
    <3>q. QED
          BY <3>1, <3>2, <3>3 DEF StackInv
  <2>6. Served' = DOMAIN stack'
    <3>1. \A i \in DOMAIN stack' : i = 1 \/ i > 1
          BY <1>1, <2>3
    <3>2. \A i \in DOMAIN stack' : stack'[i].at = "gate"
          BY <3>1, <2>1, <2>3, <1>4
    <3>q. QED
          BY <3>2 DEF Served
  <2>7. \A x : (\E i \in DOMAIN stack' : x = stack'[i].line)
                 <=> x = l \/ \E i \in DOMAIN stack : x = stack[i].line
    <3>1. 1 \in DOMAIN stack' /\ \A i \in DOMAIN stack' : i = 1 \/ i > 1
          BY <1>1, <2>3
    <3>q. QED
          BY <3>1, <2>1, <2>3, <2>4
  <2>8. isr_master' = {InMaster(stack'[i].line) : i \in Served'}
    <3>1. isr_master' = isr_master \cup {InMaster(l)}
          BY DEF Take
    <3>2. isr_master = {InMaster(stack[i].line) : i \in DOMAIN stack}
          BY <1>2, <1>3, <1>5 DEF IrqInv, ServiceInv
    <3>3. \A x : x \in isr_master' <=> x = InMaster(l) \/ \E i \in DOMAIN stack : x = InMaster(stack[i].line)
          BY <3>1, <3>2
    <3>4. \A i \in DOMAIN stack' : stack'[i].line = l \/ \E j \in DOMAIN stack : stack'[i].line = stack[j].line
          BY <2>7
    <3>5. \E i \in DOMAIN stack' : stack'[i].line = l
          BY <2>7
    <3>6. \A j \in DOMAIN stack : \E i \in DOMAIN stack' : stack'[i].line = stack[j].line
          BY <2>7
    <3>7. \A i \in DOMAIN stack' : InMaster(stack'[i].line) \in isr_master'
          BY <3>3, <3>4
    <3>8. \A x \in isr_master' : \E i \in DOMAIN stack' : x = InMaster(stack'[i].line)
          BY <3>3, <3>5, <3>6
    <3>q. QED
          BY <3>7, <3>8, <2>6
  <2>9. isr_slave' \subseteq {stack'[i].line : i \in Served'}
    <3>1. isr_slave' = isr_slave \cup ({l} \cap Slave)
          BY DEF Take
    <3>2. isr_slave \subseteq {stack[i].line : i \in DOMAIN stack}
          BY <1>2, <1>3, <1>5 DEF IrqInv, ServiceInv
    <3>q. QED
          BY <3>1, <3>2, <2>6, <2>7
  <2>10. ServiceInv'
        BY <2>2, <2>8, <2>9, <1>3 DEF ServiceInv
  <2>11. IrqTypeOK'
    <3>1. int_flag' \in BOOLEAN
          BY <2>2 DEF Traps
    <3>2. isr_slave' \subseteq Slave /\ isr_master' \subseteq 0 .. 15 /\ irr' \subseteq Lines
          BY InMasterRange DEF Take, IrqInv, IrqTypeOK
    <3>q. QED
          BY <3>1, <3>2, <2>2, <2>3 DEF Take, IrqInv, IrqTypeOK, Entry
  <2>q. QED
        BY <2>5, <2>10, <2>11 DEF IrqInv
<1>8. CASE ~HasGate(Vector(l))
  <2>1. halted' \in {"panic", "hlt"} /\ int_flag' = FALSE /\ UNCHANGED <<stack, switched>>
        BY <1>8 DEF Take
  <2>2. isr_slave' \subseteq Slave /\ isr_master' \subseteq 0 .. 15 /\ irr' \subseteq Lines
        BY InMasterRange DEF Take, IrqInv, IrqTypeOK
  <2>3. IrqTypeOK'
        BY <2>1, <2>2 DEF Take, IrqInv, IrqTypeOK
  <2>4. StackInv'
        BY <2>1 DEF IrqInv, StackInv, Top
  <2>5. ServiceInv'
        BY <2>1, <1>3 DEF ServiceInv
  <2>q. QED
        BY <2>3, <2>4, <2>5 DEF IrqInv
<1>q. QED
      BY <1>7, <1>8

\* cli and the handler leave the lines on the stack and in service as they are.
LEMMA HandlerGoesOn == IrqInv /\ (Cli \/ Handle) => IrqInv'
<1> SUFFICES ASSUME IrqInv, Cli \/ Handle PROVE IrqInv'
      OBVIOUS
<1>1. /\ stack # <<>> /\ halted = "no" /\ Top.at \in {"gate", "handler"}
      /\ UNCHANGED <<pics, halted, switched, int_handlers>>
      BY DEF Cli, Handle, In
<1>2. ~int_flag' /\ int_flag' \in BOOLEAN
  <2>1. CASE Cli
        BY <2>1 DEF Cli, AfterCli
  <2>2. CASE Handle
        BY <2>2 DEF Handle, In, IrqInv, StackInv, IrqTypeOK
  <2>q. QED
        BY <2>1, <2>2
<1>3. PICK a \in {"handler", "eoi"} : Goto(a)
      BY DEF Cli, Handle
<1>4. /\ stack' \in Seq(Entry) /\ stack' # <<>> /\ StackInv'
      /\ DOMAIN stack' = DOMAIN stack
      /\ \A i \in DOMAIN stack : stack'[i].line = stack[i].line
      /\ Served' = Served
      BY <1>1, <1>2, <1>3, GotoStep
<1>5. IrqTypeOK'
      BY <1>1, <1>2, <1>4 DEF IrqInv, IrqTypeOK, Entry, pics
<1>6. ServiceInv'
  <2>1. ~switched
        BY <1>1 DEF IrqInv, ServiceInv
  <2>2. Served \subseteq DOMAIN stack
        BY DEF Served
  <2>3. /\ isr_master' = {InMaster(stack[i].line) : i \in Served}
        /\ isr_slave' \subseteq {stack[i].line : i \in Served}
        BY <1>1, <2>1 DEF IrqInv, ServiceInv, pics
  <2>4. isr_master' = {InMaster(stack'[i].line) : i \in Served'}
        BY <1>4, <2>2, <2>3
  <2>5. isr_slave' \subseteq {stack'[i].line : i \in Served'}
        BY <1>4, <2>2, <2>3
  <2>q. QED
        BY <1>1, <2>1, <2>4, <2>5 DEF ServiceInv
<1>q. QED
      BY <1>4, <1>5, <1>6 DEF IrqInv

\* What the EOI of the handler on top ends: the master's service of its line, and
\* whatever the slave has in service.
LEMMA EoiStep ==
  ASSUME IrqInv, halted = "no", ~switched, stack # <<>>, Top.at # "iret"
  PROVE  /\ InMaster(Top.line) \in isr_master
         /\ \A x \in isr_master : InMaster(Top.line) <= x
         /\ Eoi(isr_master) = {InMaster(stack[i].line) : i \in Served \ {1}}
         /\ Eoi(isr_slave) = {}
<1>1. 1 \in DOMAIN stack /\ Top = stack[1]
      BY TopEntry DEF IrqInv
<1>2. 1 \in Served /\ Served \subseteq DOMAIN stack
      BY <1>1 DEF Served
<1>3. isr_master = {InMaster(stack[i].line) : i \in Served}
      BY DEF IrqInv, ServiceInv
<1>4. \A i \in Served : i # 1 => InMaster(Top.line) < InMaster(stack[i].line)
      BY <1>1, <1>2, EntryOf DEF IrqInv, StackInv
<1>5. isr_master \in SUBSET Nat
      BY DEF IrqInv, IrqTypeOK
<1>6. InMaster(Top.line) \in isr_master
      BY <1>1, <1>2, <1>3
<1>7. \A i \in Served : InMaster(stack[i].line) \in Nat
      BY <1>3, <1>5
<1>8. \A x \in isr_master : InMaster(Top.line) <= x
  <2>1. ASSUME NEW i \in Served PROVE InMaster(Top.line) <= InMaster(stack[i].line)
        BY <1>1, <1>2, <1>4, <1>7
  <2>q. QED
        BY <2>1, <1>3
<1>9. Eoi(isr_master) = isr_master \ {InMaster(Top.line)}
      BY <1>5, <1>6, <1>8, EoiOf
<1>10. Eoi(isr_master) = {InMaster(stack[i].line) : i \in Served \ {1}}
  <2>1. \A i \in Served \ {1} : InMaster(stack[i].line) \in isr_master \ {InMaster(Top.line)}
        BY <1>2, <1>3, <1>4, <1>7, <1>5, <1>6
  <2>2. \A x \in isr_master \ {InMaster(Top.line)} : \E i \in Served \ {1} : x = InMaster(stack[i].line)
        BY <1>1, <1>3
  <2>q. QED
        BY <2>1, <2>2, <1>9
<1>11. Eoi(isr_slave) = {}
  <2>1. isr_slave \subseteq Slave /\ isr_slave \subseteq {stack[i].line : i \in Served}
        BY DEF IrqInv, IrqTypeOK, ServiceInv
  <2>2. \A x \in isr_slave : InMaster(x) = 2
        BY <2>1 DEF InMaster
  <2>3. ASSUME NEW x \in isr_slave, NEW y \in isr_slave PROVE x = y
    <3>1. PICK i \in Served : x = stack[i].line
          BY <2>1
    <3>2. PICK j \in Served : y = stack[j].line
          BY <2>1
    <3>3. InMaster(stack[i].line) = 2 /\ InMaster(stack[j].line) = 2
          BY <2>2, <3>1, <3>2
    <3>4. i \in DOMAIN stack /\ j \in DOMAIN stack /\ i \in Nat /\ j \in Nat
          BY <1>2, EntryOf DEF IrqInv
    <3>5. i = j
          BY <3>3, <3>4 DEF IrqInv, StackInv
    <3>q. QED
          BY <3>1, <3>2, <3>5
  <2>4. CASE isr_slave = {}
        BY <2>4 DEF Eoi
  <2>5. CASE isr_slave # {}
    <3>1. PICK x \in isr_slave : TRUE
          BY <2>5
    <3>2. isr_slave = {x}
          BY <2>3, <3>1
    <3>3. x \in Nat
          BY <2>1, <3>1 DEF Slave
    <3>4. Eoi({x}) = {x} \ {x}
          BY <3>3, EoiOf
    <3>q. QED
          BY <3>2, <3>4
  <2>q. QED
        BY <2>4, <2>5
<1>q. QED
      BY <1>6, <1>8, <1>10, <1>11

\* The vectors the code sees are those of lines that pic_eoi tells the slave about.
VectorsAbove == \A l \in 0 .. 15 : Vector(l) \in Nat /\ Vector(l) >= 8

LEMMA PicEoiStep == IrqInv /\ VectorsAbove /\ PicEoi => IrqInv'
<1> SUFFICES ASSUME IrqInv, VectorsAbove, PicEoi PROVE IrqInv'
      OBVIOUS
<1>1. /\ stack # <<>> /\ halted = "no" /\ Top.at = "eoi" /\ Goto("iret")
      /\ UNCHANGED <<pic, irr, int_flag, halted, switched, int_handlers>>
      BY DEF PicEoi, In
<1>2. ~int_flag'
      BY <1>1 DEF IrqInv, StackInv
<1>3. /\ stack' \in Seq(Entry) /\ stack' # <<>> /\ StackInv'
      /\ DOMAIN stack' = DOMAIN stack
      /\ \A i \in DOMAIN stack : stack'[i].line = stack[i].line
      /\ Served' = Served \ {1}
      BY <1>1, <1>2, GotoStep
<1>4. ~switched
      BY <1>1 DEF IrqInv, ServiceInv
<1>5. Top.line \in 0 .. 15
      BY <1>1, TopEntry, EntryOf, InMasterRange DEF IrqInv
<1>6. isr_master' = Eoi(isr_master) /\ isr_slave' = Eoi(isr_slave)
      BY <1>5 DEF PicEoi, ToMaster, ToSlave, VectorsAbove
<1>7. isr_master' = {InMaster(stack[i].line) : i \in Served \ {1}} /\ isr_slave' = {}
      BY <1>1, <1>4, <1>6, EoiStep
<1>8. Served \subseteq DOMAIN stack
      BY DEF Served
<1>9. isr_master' = {InMaster(stack'[i].line) : i \in Served'}
      BY <1>3, <1>7, <1>8
<1>10. ServiceInv'
      BY <1>1, <1>4, <1>7, <1>9 DEF ServiceInv
<1>11. isr_master' \subseteq 0 .. 15
      BY <1>7, <1>8, EntryOf, InMasterRange DEF IrqInv
<1>12. IrqTypeOK'
      BY <1>1, <1>3, <1>7, <1>11 DEF IrqInv, IrqTypeOK, Entry
<1>q. QED
      BY <1>3, <1>10, <1>12 DEF IrqInv

LEMMA IretStep == IrqInv /\ Iret => IrqInv'
<1> SUFFICES ASSUME IrqInv, Iret PROVE IrqInv'
      OBVIOUS
<1>1. /\ stack # <<>> /\ halted = "no" /\ Top.at = "iret" /\ stack' = Tail(stack) /\ int_flag'
      /\ UNCHANGED <<pics, halted, switched, int_handlers>>
      BY DEF Iret, In
<1>2. stack \in Seq(Entry) /\ Top = stack[1]
      BY <1>1, TopEntry DEF IrqInv, IrqTypeOK, Entry
<1>3. /\ stack' \in Seq(Entry) /\ DOMAIN stack' = 1 .. Len(stack) - 1
      /\ \A i \in DOMAIN stack' : i + 1 \in DOMAIN stack /\ stack'[i] = stack[i + 1]
      BY <1>1, <1>2, Pop
<1>4. \A i \in DOMAIN stack' : i \in Nat /\ i > 0 /\ stack'[i].at = "gate"
  <2>1. \A i \in DOMAIN stack' : i \in Nat /\ i > 0
        BY <1>2, <1>3
  <2>2. ASSUME NEW i \in DOMAIN stack' PROVE stack[i + 1].at = "gate"
        BY <2>1, <1>3 DEF IrqInv, StackInv
  <2>q. QED
        BY <2>1, <2>2, <1>3
<1>5. \A i \in DOMAIN stack : i = 1 \/ (i - 1 \in DOMAIN stack' /\ stack[i] = stack'[i - 1])
  <2>1. ASSUME NEW i \in DOMAIN stack, i # 1 PROVE i - 1 \in DOMAIN stack' /\ (i - 1) + 1 = i
        BY <2>1, <1>2, <1>3
  <2>q. QED
        BY <2>1, <1>3
<1>6. StackInv'
  <2>1. ASSUME NEW i \in DOMAIN stack', NEW j \in DOMAIN stack', i < j
        PROVE  InMaster(stack'[i].line) < InMaster(stack'[j].line)
    <3>1. i + 1 < j + 1
          BY <2>1, <1>4
    <3>q. QED
          BY <3>1, <1>3 DEF IrqInv, StackInv
  <2>2. stack' # <<>> => Top'.at = "gate"
        BY <1>3, <1>4, FirstOf DEF Top
  <2>q. QED
        BY <2>1, <2>2, <1>4 DEF StackInv
<1>7. ~switched
      BY <1>1 DEF IrqInv, ServiceInv
<1>8. /\ isr_master' = {InMaster(stack[i].line) : i \in Served}
      /\ isr_slave' \subseteq {stack[i].line : i \in Served}
      BY <1>1, <1>7 DEF IrqInv, ServiceInv, pics
<1>9. Served' = DOMAIN stack'
      BY <1>4 DEF Served
<1>10. \A i \in Served : i - 1 \in Served' /\ stack[i] = stack'[i - 1]
      BY <1>1, <1>2, <1>5, <1>9 DEF Served
<1>11. \A i \in Served' : i + 1 \in Served /\ stack'[i] = stack[i + 1]
      BY <1>3, <1>4, <1>9 DEF Served
<1>12. isr_master' = {InMaster(stack'[i].line) : i \in Served'}
  <2>1. \A i \in Served : InMaster(stack[i].line) \in {InMaster(stack'[j].line) : j \in Served'}
        BY <1>10
  <2>2. \A i \in Served' : InMaster(stack'[i].line) \in {InMaster(stack[j].line) : j \in Served}
        BY <1>11
  <2>q. QED
        BY <1>8, <2>1, <2>2
<1>13. isr_slave' \subseteq {stack'[i].line : i \in Served'}
      BY <1>8, <1>10
<1>14. ServiceInv'
      BY <1>1, <1>7, <1>12, <1>13 DEF ServiceInv
<1>15. IrqTypeOK'
      BY <1>1, <1>3 DEF Iret, IrqInv, IrqTypeOK, Entry, pics
<1>q. QED
      BY <1>6, <1>14, <1>15 DEF IrqInv

\* The switch leaves the timer's line in service, the highest there is.
LEMMA LeavesStep == IrqInv /\ HandlerLeaves => IrqInv'
<1> SUFFICES ASSUME IrqInv, HandlerLeaves PROVE IrqInv'
      OBVIOUS
<1>1. /\ stack # <<>> /\ halted = "no" /\ Top.at = "handler" /\ Top.line = 0
      /\ stack' = <<>> /\ int_flag' = TRUE /\ switched' = TRUE /\ isr_master' = isr_master
      /\ UNCHANGED <<pic, irr, isr_slave, halted, int_handlers>>
      BY DEF HandlerLeaves, In, InService
<1>2. ~switched
      BY <1>1 DEF IrqInv, ServiceInv
<1>3. InMaster(Top.line) \in isr_master /\ InMaster(0) = 0
      BY <1>1, <1>2, EoiStep DEF InMaster, Slave
<1>4. ServiceInv'
      BY <1>1, <1>3 DEF ServiceInv
<1>5. StackInv'
      BY <1>1 DEF StackInv
<1>6. stack' \in Seq(Entry)
      BY <1>1
<1>7. IrqTypeOK'
      BY <1>1, <1>6 DEF IrqInv, IrqTypeOK, Entry
<1>q. QED
      BY <1>4, <1>5, <1>7 DEF IrqInv

\* The code that is not a handler changes nothing while one is waited for.
LEMMA CodeStep ==
  ASSUME IrqInv, Idle,
         PicRemapVectors \/ Install(0) \/ Install(1) \/ SetFlag(TRUE) \/ SetFlag(FALSE)
  PROVE  IrqInv'
<1>1. UNCHANGED <<isr_master, isr_slave, stack, halted, switched>>
      BY DEF PicRemapVectors, Install, SetFlag, pics, cpu
<1>2. stack = <<>>
      BY DEF Idle
<1>3. IrqTypeOK'
  <2>1. irr' \subseteq Lines
        BY DEF PicRemapVectors, Install, SetFlag, pics, IrqInv, IrqTypeOK
  <2>2. int_flag' \in BOOLEAN
        BY DEF PicRemapVectors, Install, SetFlag, cpu, IrqInv, IrqTypeOK
  <2>3. int_handlers' \subseteq {0, 1}
        BY DEF PicRemapVectors, Install, SetFlag, IrqInv, IrqTypeOK
  <2>q. QED
        BY <1>1, <2>1, <2>2, <2>3 DEF IrqInv, IrqTypeOK
<1>4. StackInv'
      BY <1>1, <1>2 DEF StackInv
<1>5. ServiceInv'
      BY <1>1 DEF IrqInv, ServiceInv, Served
<1>q. QED
      BY <1>3, <1>4, <1>5 DEF IrqInv

LEMMA StopStep == ASSUME IrqInv, NEW how \in {"panic", "hlt"}, Stop(how) PROVE IrqInv'
  BY DEF Stop, IrqInv, IrqTypeOK, StackInv, ServiceInv, Top, pics

LEMMA RaiseStep == ASSUME IrqInv, NEW l \in Lines, Raise(l) PROVE IrqInv'
<1>1. UNCHANGED <<pic, isr_master, isr_slave, cpu, int_handlers>> /\ irr' = irr \cup {l}
      BY DEF Raise
<1>q. QED
      BY <1>1 DEF IrqInv, IrqTypeOK, StackInv, ServiceInv, Top, Served, cpu

\* Every step of the boot, of a handler or of a device keeps it.
LEMMA IrqStep == IrqInv /\ VectorsAbove /\ IrqMove => IrqInv'
<1> SUFFICES ASSUME IrqInv, VectorsAbove, IrqMove PROVE IrqInv'
      OBVIOUS
<1>1. CASE UNCHANGED irq
      BY <1>1 DEF irq, pics, cpu, IrqInv, IrqTypeOK, StackInv, ServiceInv, Top, Served
<1>2. CASE Idle /\ (PicRemapVectors \/ Install(0) \/ Install(1) \/ SetFlag(TRUE) \/ SetFlag(FALSE))
      BY <1>2, CodeStep
<1>3. CASE \E how \in {"panic", "hlt"} : halted = "no" /\ Stop(how)
      BY <1>3, StopStep
<1>4. CASE \E l \in Lines : Raise(l) \/ Take(l)
      BY <1>4, RaiseStep, TakeStep
<1>5. CASE Handle \/ Cli
      BY <1>5, HandlerGoesOn
<1>6. CASE HandlerLeaves
      BY <1>6, LeavesStep
<1>7. CASE PicEoi
      BY <1>7, PicEoiStep
<1>8. CASE Iret
      BY <1>8, IretStep
<1>q. QED
      BY <1>1, <1>2, <1>3, <1>4, <1>5, <1>6, <1>7, <1>8 DEF IrqMove

-----------------------------------------------------------------------------
\* The 8259s while the boot goes on

\* Until the remapping the firmware's vectors are there, and then those of the kernel.
LEMMA VectorsOf == PicInv => VectorsAbove
<1> SUFFICES ASSUME PicInv, NEW l \in 0 .. 15 PROVE Vector(l) \in Nat /\ Vector(l) >= 8
      BY DEF VectorsAbove
<1>1. Vector(l) = (IF l < 8 THEN pic.master.vector ELSE pic.slave.vector) + (l % 8)
      BY DEF Vector, VectorOf, ChipOf
<1>2. l % 8 \in Nat
      OBVIOUS
<1>3. CASE Fresh
  <2>1. pic.master.vector = 8 /\ pic.slave.vector = 8
        BY <1>3 DEF Fresh, Chip
  <2>q. QED
        BY <1>1, <1>2, <2>1
<1>4. CASE Remapped
      BY <1>1, <1>2, <1>4 DEF Remapped
<1>q. QED
      BY <1>3, <1>4 DEF PicInv

\* Initially, and by every step.
LEMMA PicInit == Init => PicInv
<1> SUFFICES ASSUME Init PROVE PicInv
      OBVIOUS
<1>1. PICK m, s : pic = [master |-> Chip(m), slave |-> Chip(s)]
      BY DEF Init, IrqInit
<1>2. Fresh
      BY <1>1 DEF Fresh, Chip
<1>3. at = "grub" /\ ready = {}
      BY DEF Init
<1>q. QED
      BY <1>2, <1>3 DEF PicInv, ToMasks, Past

\* What has been set up for the boot's next steps stays, and grows with them.
LEMMA ReadyStep == ReadyInv /\ BootStep => ReadyInv'
<1> SUFFICES ASSUME ReadyInv, BootStep PROVE ReadyInv'
      OBVIOUS
<1> USE DEF SetUp, Does, Panics, Go, Provides, ReadyInv, Past,
           ToMasks, ToHeap, ToEnable, ToTty, ToQueued
<1>1. CASE GrubLoad
      BY <1>1 DEF GrubLoad
<1>2. CASE PageTableSetup \/ BssInit
      BY <1>2 DEF PageTableSetup, BssInit
<1>3. CASE CheckAddr
      BY <1>3 DEF CheckAddr
<1>4. CASE MapMemory
      BY <1>4 DEF MapMemory
<1>5. CASE GdtSetup
      BY <1>5 DEF GdtSetup
<1>6. CASE IdtSetup
      BY <1>6 DEF IdtSetup
<1>7. CASE ExceptionsInit
      BY <1>7 DEF ExceptionsInit
<1>8. CASE TimerInit
      BY <1>8 DEF TimerInit
<1>9. CASE TssSetup
      BY <1>9 DEF TssSetup
<1>10. CASE HeapInit
      BY <1>10 DEF HeapInit
<1>11. CASE FbconInit
      BY <1>11 DEF FbconInit
<1>12. CASE ConsoleInit
      BY <1>12 DEF ConsoleInit, FbconInit
<1>13. CASE Messages
      BY <1>13 DEF Messages
<1>14. CASE SerialInit
      BY <1>14 DEF SerialInit
<1>15. CASE TtyCreate
      BY <1>15 DEF TtyCreate
<1>16. CASE KeyboardInit
      BY <1>16 DEF KeyboardInit, KbdSteps
<1>17. CASE SchedInit
      BY <1>17 DEF SchedInit
<1>q. QED
      BY <1>1, <1>2, <1>3, <1>4, <1>5, <1>6, <1>7, <1>8, <1>9, <1>10, <1>11, <1>12, <1>13,
         <1>14, <1>15, <1>16, <1>17 DEF BootStep, ArchEarlyInit

\* No step of the boot uses what is not set up.
LEMMA InTimeStep == ReadyInv /\ ~early /\ BootStep => ~early'
<1> SUFFICES ASSUME ReadyInv, ~early, BootStep PROVE ~early'
      OBVIOUS
<1> USE DEF SetUp, Does, Panics, Go, Uses, ReadyInv, Past,
           ToMasks, ToHeap, ToEnable, ToTty, ToQueued
<1>1. CASE GrubLoad
      BY <1>1 DEF GrubLoad
<1>2. CASE PageTableSetup \/ BssInit
      BY <1>2 DEF PageTableSetup, BssInit
<1>3. CASE CheckAddr
      BY <1>3 DEF CheckAddr
<1>4. CASE MapMemory
      BY <1>4 DEF MapMemory
<1>5. CASE GdtSetup
      BY <1>5 DEF GdtSetup
<1>6. CASE IdtSetup
      BY <1>6 DEF IdtSetup
<1>7. CASE ExceptionsInit
      BY <1>7 DEF ExceptionsInit
<1>8. CASE TimerInit
      BY <1>8 DEF TimerInit
<1>9. CASE TssSetup
      BY <1>9 DEF TssSetup
<1>10. CASE HeapInit
      BY <1>10 DEF HeapInit
<1>11. CASE FbconInit
      BY <1>11 DEF FbconInit
<1>12. CASE ConsoleInit
      BY <1>12 DEF ConsoleInit, FbconInit
<1>13. CASE Messages
      BY <1>13 DEF Messages
<1>14. CASE SerialInit
      BY <1>14 DEF SerialInit
<1>15. CASE TtyCreate
      BY <1>15 DEF TtyCreate
<1>16. CASE KeyboardInit
      BY <1>16 DEF KeyboardInit, KbdSteps
<1>17. CASE SchedInit
      BY <1>17 DEF SchedInit
<1>q. QED
      BY <1>1, <1>2, <1>3, <1>4, <1>5, <1>6, <1>7, <1>8, <1>9, <1>10, <1>11, <1>12, <1>13,
         <1>14, <1>15, <1>16, <1>17 DEF BootStep, ArchEarlyInit

\* What the callback of the cursor and the scheduler use is there before they are.
LEMMA CallsStep == ReadyInv /\ CallsInv /\ BootStep => CallsInv'
<1> SUFFICES ASSUME ReadyInv, CallsInv, BootStep PROVE CallsInv'
      OBVIOUS
<1> USE DEF SetUp, Does, Panics, Go, Provides, ReadyInv, CallsInv, Past,
           ToMasks, ToHeap, ToEnable, ToTty, ToQueued
<1>1. CASE GrubLoad
      BY <1>1 DEF GrubLoad
<1>2. CASE PageTableSetup \/ BssInit
      BY <1>2 DEF PageTableSetup, BssInit
<1>3. CASE CheckAddr
      BY <1>3 DEF CheckAddr
<1>4. CASE MapMemory
      BY <1>4 DEF MapMemory
<1>5. CASE GdtSetup
      BY <1>5 DEF GdtSetup
<1>6. CASE IdtSetup
      BY <1>6 DEF IdtSetup
<1>7. CASE ExceptionsInit
      BY <1>7 DEF ExceptionsInit
<1>8. CASE TimerInit
      BY <1>8 DEF TimerInit
<1>9. CASE TssSetup
      BY <1>9 DEF TssSetup
<1>10. CASE HeapInit
      BY <1>10 DEF HeapInit
<1>11. CASE FbconInit
      BY <1>11 DEF FbconInit
<1>12. CASE ConsoleInit
      BY <1>12 DEF ConsoleInit, FbconInit
<1>13. CASE Messages
      BY <1>13 DEF Messages
<1>14. CASE SerialInit
      BY <1>14 DEF SerialInit
<1>15. CASE TtyCreate
      BY <1>15 DEF TtyCreate
<1>16. CASE KeyboardInit
      BY <1>16 DEF KeyboardInit, KbdSteps
<1>17. CASE SchedInit
      BY <1>17 DEF SchedInit
<1>q. QED
      BY <1>1, <1>2, <1>3, <1>4, <1>5, <1>6, <1>7, <1>8, <1>9, <1>10, <1>11, <1>12, <1>13,
         <1>14, <1>15, <1>16, <1>17 DEF BootStep, ArchEarlyInit

\* keyboard_init works with interrupts off.
LEMMA ClosedStep == ClosedInv /\ BootStep => ClosedInv'
<1> SUFFICES ASSUME ClosedInv, BootStep PROVE ClosedInv'
      OBVIOUS
<1> USE DEF SetUp, Does, Panics, Go, Install, SetFlag, cpu, irq, ClosedInv, Closed
<1>1. CASE GrubLoad
      BY <1>1 DEF GrubLoad
<1>2. CASE PageTableSetup \/ BssInit
      BY <1>2 DEF PageTableSetup, BssInit
<1>3. CASE CheckAddr
      BY <1>3 DEF CheckAddr
<1>4. CASE MapMemory
      BY <1>4 DEF MapMemory
<1>5. CASE GdtSetup
      BY <1>5 DEF GdtSetup
<1>6. CASE IdtSetup
      BY <1>6 DEF IdtSetup
<1>7. CASE ExceptionsInit
      BY <1>7 DEF ExceptionsInit
<1>8. CASE TimerInit
      BY <1>8 DEF TimerInit
<1>9. CASE TssSetup
      BY <1>9 DEF TssSetup
<1>10. CASE HeapInit
      BY <1>10 DEF HeapInit
<1>11. CASE FbconInit
      BY <1>11 DEF FbconInit
<1>12. CASE ConsoleInit
      BY <1>12 DEF ConsoleInit, FbconInit
<1>13. CASE Messages
      BY <1>13 DEF Messages
<1>14. CASE SerialInit
      BY <1>14 DEF SerialInit
<1>15. CASE TtyCreate
      BY <1>15 DEF TtyCreate
<1>16. CASE KeyboardInit
      BY <1>16 DEF KeyboardInit, KbdSteps
<1>17. CASE SchedInit
      BY <1>17 DEF SchedInit
<1>q. QED
      BY <1>1, <1>2, <1>3, <1>4, <1>5, <1>6, <1>7, <1>8, <1>9, <1>10, <1>11, <1>12, <1>13,
         <1>14, <1>15, <1>16, <1>17 DEF BootStep, ArchEarlyInit

LEMMA OneOf == \A S : 1 \in S \cup {0} => 1 \in S
  OBVIOUS

\* The keyboard's handler is installed after the console, and finds its tty at the latest when
\* interrupts are back.
LEMMA HandlersStep == ReadyInv /\ HandlersInv /\ BootStep => HandlersInv'
<1> SUFFICES ASSUME ReadyInv, HandlersInv, BootStep PROVE HandlersInv'
      OBVIOUS
<1> USE DEF SetUp, Does, Panics, Go, Provides, Install, SetFlag, Stop, PicRemapVectors, irq,
           ReadyInv, HandlersInv, Past, ToMasks, ToHeap, ToEnable, ToTty, ToQueued
<1>1. CASE GrubLoad
      BY <1>1, OneOf DEF GrubLoad
<1>2. CASE PageTableSetup \/ BssInit
      BY <1>2, OneOf DEF PageTableSetup, BssInit
<1>3. CASE CheckAddr
      BY <1>3, OneOf DEF CheckAddr
<1>4. CASE MapMemory
      BY <1>4, OneOf DEF MapMemory
<1>5. CASE GdtSetup
      BY <1>5, OneOf DEF GdtSetup
<1>6. CASE IdtSetup
      BY <1>6, OneOf DEF IdtSetup
<1>7. CASE ExceptionsInit
      BY <1>7, OneOf DEF ExceptionsInit
<1>8. CASE TimerInit
      BY <1>8, OneOf DEF TimerInit
<1>9. CASE TssSetup
      BY <1>9, OneOf DEF TssSetup
<1>10. CASE HeapInit
      BY <1>10, OneOf DEF HeapInit
<1>11. CASE FbconInit
      BY <1>11, OneOf DEF FbconInit
<1>12. CASE ConsoleInit
      BY <1>12, OneOf DEF ConsoleInit, FbconInit
<1>13. CASE Messages
      BY <1>13, OneOf DEF Messages
<1>14. CASE SerialInit
      BY <1>14, OneOf DEF SerialInit
<1>15. CASE TtyCreate
      BY <1>15, OneOf DEF TtyCreate
<1>16. CASE KeyboardInit
  <2>1. CASE Does("keyboard", "tests", SetFlag(FALSE))
        BY <2>1
  <2>2. CASE \E to \in {"install", "sched"} : SetUp("tests", to, {}, {})
        BY <2>2
  <2>3. CASE Does("install", KbdSteps.install, Install(1))
        BY <2>3 DEF KbdSteps
  <2>4. CASE SetUp("lookup", KbdSteps.lookup, {"tty"}, {"keyboard tty"})
        BY <2>4 DEF KbdSteps
  <2>5. CASE Does("exit", KbdSteps.exit, SetFlag(TRUE))
        BY <2>5 DEF KbdSteps
  <2>q. QED
        BY <1>16, <2>1, <2>2, <2>3, <2>4, <2>5 DEF KeyboardInit
<1>17. CASE SchedInit
      BY <1>17, OneOf DEF SchedInit
<1>q. QED
      BY <1>1, <1>2, <1>3, <1>4, <1>5, <1>6, <1>7, <1>8, <1>9, <1>10, <1>11, <1>12, <1>13,
         <1>14, <1>15, <1>16, <1>17 DEF BootStep, ArchEarlyInit

\* The handlers find what they use, whatever step of the boot they come between.
LEMMA UsedByHandlers ==
  ASSUME HandlerInv, stack # <<>>, Top.line \in int_handlers, int_handlers \subseteq {0, 1}
  PROVE  HandlerUses(Top.line) \subseteq ready
<1>1. CASE Top.line = 0
      BY <1>1 DEF HandlerUses, HandlerInv, CallsInv
<1>2. CASE Top.line = 1
  <2>1. at # "lookup"
        BY DEF HandlerInv, ClosedInv, Closed
  <2>2. {"console", "framebuffer", "keyboard tty"} \subseteq ready
        BY <1>2, <2>1 DEF HandlerInv, HandlersInv
  <2>3. HandlerUses(1) = {"console", "framebuffer", "keyboard tty"}
        BY DEF HandlerUses
  <2>q. QED
        BY <1>2, <2>2, <2>3
<1>q. QED
      BY <1>1, <1>2

UsesInv == ReadyInv /\ HandlerInv /\ ~early

LEMMA UsesStep == IrqInv /\ UsesInv /\ [Next]_vars => UsesInv'
<1> SUFFICES ASSUME IrqInv, UsesInv, [Next]_vars PROVE UsesInv'
      OBVIOUS
<1>1. ASSUME BootStep PROVE UsesInv'
      BY <1>1, ReadyStep, InTimeStep, CallsStep, ClosedStep, HandlersStep DEF UsesInv, HandlerInv
<1>2. ASSUME UNCHANGED <<at, ready, int_handlers>>, ClosedInv', ~early' PROVE UsesInv'
  <2>1. ReadyInv'
        BY <1>2 DEF UsesInv, ReadyInv, Past
  <2>2. CallsInv'
        BY <1>2 DEF UsesInv, HandlerInv, CallsInv
  <2>3. HandlersInv'
        BY <1>2 DEF UsesInv, HandlerInv, HandlersInv
  <2>q. QED
        BY <1>2, <2>1, <2>2, <2>3 DEF UsesInv, HandlerInv
<1>3. ASSUME HandlerStep PROVE UsesInv'
  <2>1. stack # <<>> /\ UNCHANGED <<at, ready, int_handlers>>
        BY <1>3 DEF HandlerStep, BootHandle, Switch, Handle, HandlerLeaves, Cli, PicEoi, Iret, In, boot
  <2>2. ClosedInv'
        BY <2>1 DEF UsesInv, HandlerInv, ClosedInv, Closed
  <2>3. CASE BootHandle
        BY <2>1, <2>2, <2>3, <1>2, UsedByHandlers
        DEF BootHandle, Uses, UsesInv, IrqInv, IrqTypeOK
  <2>4. CASE Switch
    <3>1. Top.line = 0 /\ 0 \in int_handlers
          BY <2>4 DEF Switch, HandlerLeaves
    <3>2. HandlerUses(0) \subseteq ready
          BY <2>1, <3>1, UsedByHandlers DEF UsesInv, IrqInv, IrqTypeOK
    <3>q. QED
          BY <2>1, <2>2, <2>4, <3>2, <1>2 DEF Switch, Uses, UsesInv
  <2>5. CASE UNCHANGED boot
        BY <2>1, <2>2, <2>5, <1>2 DEF boot, UsesInv
  <2>q. QED
        BY <1>3, <2>3, <2>4, <2>5 DEF HandlerStep
<1>4. ASSUME NEW l \in Lines, (Raise(l) /\ UNCHANGED boot) \/ BootTake(l) PROVE UsesInv'
  <2>1. UNCHANGED <<at, ready, early, int_handlers>>
        BY <1>4 DEF Raise, BootTake, Take, boot
  <2>2. ClosedInv'
        BY <1>4, <2>1 DEF Raise, BootTake, Take, cpu, UsesInv, HandlerInv, ClosedInv, Closed
  <2>q. QED
        BY <2>1, <2>2, <1>2 DEF UsesInv
<1>5. ASSUME Exception PROVE UsesInv'
  <2>1. UNCHANGED <<at, ready, early, int_handlers, stack>> /\ int_flag' = FALSE
        BY <1>5 DEF Exception, Stop, boot
  <2>2. ClosedInv'
        BY <2>1 DEF UsesInv, HandlerInv, ClosedInv, Closed
  <2>q. QED
        BY <2>1, <2>2, <1>2 DEF UsesInv
<1>6. ASSUME UNCHANGED vars PROVE UsesInv'
  <2>1. UNCHANGED <<at, ready, early, int_handlers, stack, int_flag>>
        BY <1>6 DEF vars, irq, cpu
  <2>2. ClosedInv'
        BY <2>1 DEF UsesInv, HandlerInv, ClosedInv, Closed
  <2>q. QED
        BY <2>1, <2>2, <1>2 DEF UsesInv
<1>q. QED
      BY <1>1, <1>3, <1>4, <1>5, <1>6 DEF Next


-----------------------------------------------------------------------------
\* The 8259s while the boot goes on: they are remapped once, at its place in the boot

ChipsSame ==
  /\ UNCHANGED pic
  /\ at' \in ToMasks => at \in ToMasks
  /\ at \in ToMasks => at' \in ToMasks \cup {"panic", "err"}
  /\ at \in {"panic", "err"} => at' \in {"panic", "err"}
  /\ "idt" \in ready' => "idt" \in ready \/ at = "lidt"

\* Every other step leaves the chips, on the same side of the remapping.
LEMMA ChipsKept == BootStep /\ ~(at = "masks" /\ at' = "lidt") => ChipsSame
<1> SUFFICES ASSUME BootStep, ~(at = "masks" /\ at' = "lidt") PROVE ChipsSame
      OBVIOUS
<1> USE DEF SetUp, Does, Panics, Go, Provides, Install, SetFlag, Stop, irq, pics, ChipsSame, ToMasks
<1>1. CASE GrubLoad
      BY <1>1 DEF GrubLoad
<1>2. CASE PageTableSetup \/ BssInit
      BY <1>2 DEF PageTableSetup, BssInit
<1>3. CASE CheckAddr
      BY <1>3 DEF CheckAddr
<1>4. CASE MapMemory
      BY <1>4 DEF MapMemory
<1>5. CASE GdtSetup
      BY <1>5 DEF GdtSetup
<1>6. CASE IdtSetup
      BY <1>6 DEF IdtSetup
<1>7. CASE ExceptionsInit
      BY <1>7 DEF ExceptionsInit
<1>8. CASE TimerInit
      BY <1>8 DEF TimerInit
<1>9. CASE TssSetup
      BY <1>9 DEF TssSetup
<1>10. CASE HeapInit
      BY <1>10 DEF HeapInit
<1>11. CASE FbconInit
      BY <1>11 DEF FbconInit
<1>12. CASE ConsoleInit
      BY <1>12 DEF ConsoleInit, FbconInit
<1>13. CASE Messages
      BY <1>13 DEF Messages
<1>14. CASE SerialInit
      BY <1>14 DEF SerialInit
<1>15. CASE TtyCreate
      BY <1>15 DEF TtyCreate
<1>16. CASE KeyboardInit
      BY <1>16 DEF KeyboardInit, KbdSteps
<1>17. CASE SchedInit
      BY <1>17 DEF SchedInit
<1>q. QED
      BY <1>1, <1>2, <1>3, <1>4, <1>5, <1>6, <1>7, <1>8, <1>9, <1>10, <1>11, <1>12, <1>13, <1>14, <1>15, <1>16, <1>17 DEF BootStep, ArchEarlyInit

LEMMA PicStep == PicInv /\ [Next]_vars => PicInv'
<1> SUFFICES ASSUME PicInv, [Next]_vars PROVE PicInv'
      OBVIOUS
<1>1. ASSUME ChipsSame PROVE PicInv'
  <2>1. (Fresh <=> Fresh') /\ (Remapped <=> Remapped')
        BY <1>1 DEF ChipsSame, Fresh, Remapped
  <2>q. QED
        BY <1>1, <2>1 DEF PicInv, ChipsSame, Past, ToMasks
<1>2. ASSUME UNCHANGED <<pic, at, ready>> PROVE PicInv'
      BY <1>2, <1>1 DEF ChipsSame
<1>3. CASE BootStep /\ at = "masks" /\ at' = "lidt"
  <2>1. Fresh
        BY <1>3 DEF PicInv, ToMasks
  <2>2. PicRemapVectors
        BY <1>3 DEF BootStep, GrubLoad, PageTableSetup, BssInit, CheckAddr, ArchEarlyInit,
          MapMemory, GdtSetup, IdtSetup, ExceptionsInit, TimerInit, TssSetup, HeapInit,
          ConsoleInit, FbconInit, Messages, SerialInit, TtyCreate, KeyboardInit, SchedInit,
          SetUp, Does, Panics, Go
  <2>3. Remapped'
        BY <2>1, <2>2, RemapsTo DEF Fresh, Remapped, PicRemapVectors
  <2>q. QED
        BY <1>3, <2>3 DEF PicInv, ToMasks
<1>4. CASE BootStep /\ ~(at = "masks" /\ at' = "lidt")
      BY <1>1, <1>4, ChipsKept
<1>5. CASE HandlerStep
      BY <1>2, <1>5 DEF HandlerStep, BootHandle, Switch, Handle, HandlerLeaves, Cli, PicEoi, Iret, boot, pics
<1>6. CASE \E l \in Lines : (Raise(l) /\ UNCHANGED boot) \/ BootTake(l)
      BY <1>2, <1>6 DEF Raise, BootTake, Take, boot
<1>7. CASE Exception
      BY <1>2, <1>7 DEF Exception, Stop, boot, pics
<1>8. CASE UNCHANGED vars
      BY <1>2, <1>8 DEF vars, irq, pics
<1>q. QED
      BY <1>3, <1>4, <1>5, <1>6, <1>7, <1>8 DEF Next

-----------------------------------------------------------------------------
\* The page tables and the stack

PagingSame ==
  /\ UNCHANGED paging
  /\ at' \in {"grub", "tables", "bss"} => at \in {"grub", "tables", "bss"}
  /\ at' \notin {"grub", "tables", "err"} => at \notin {"grub", "tables", "err"}
  /\ at' = "gdt" \/ "map" \in ready' => at = "gdt" \/ "map" \in ready

\* Only three steps write there.
LEMMA PagingKept == BootStep /\ ~(PageTableSetup \/ BssInit \/ MapMemory) => PagingSame
<1> SUFFICES ASSUME BootStep, ~(PageTableSetup \/ BssInit \/ MapMemory) PROVE PagingSame
      OBVIOUS
<1> USE DEF SetUp, Does, Panics, Go, Provides, PagingSame
<1>1. CASE GrubLoad
      BY <1>1 DEF GrubLoad
<1>2. CASE CheckAddr
      BY <1>2 DEF CheckAddr
<1>3. CASE GdtSetup
      BY <1>3 DEF GdtSetup
<1>4. CASE IdtSetup
      BY <1>4 DEF IdtSetup
<1>5. CASE ExceptionsInit
      BY <1>5 DEF ExceptionsInit
<1>6. CASE TimerInit
      BY <1>6 DEF TimerInit
<1>7. CASE TssSetup
      BY <1>7 DEF TssSetup
<1>8. CASE HeapInit
      BY <1>8 DEF HeapInit
<1>9. CASE FbconInit
      BY <1>9 DEF FbconInit
<1>10. CASE ConsoleInit
      BY <1>10 DEF ConsoleInit, FbconInit
<1>11. CASE Messages
      BY <1>11 DEF Messages
<1>12. CASE SerialInit
      BY <1>12 DEF SerialInit
<1>13. CASE TtyCreate
      BY <1>13 DEF TtyCreate
<1>14. CASE KeyboardInit
      BY <1>14 DEF KeyboardInit, KbdSteps
<1>15. CASE SchedInit
      BY <1>15 DEF SchedInit
<1>q. QED
      BY <1>1, <1>2, <1>3, <1>4, <1>5, <1>6, <1>7, <1>8, <1>9, <1>10, <1>11, <1>12, <1>13, <1>14, <1>15 DEF BootStep, ArchEarlyInit

LEMMA PagingStep == Spared /\ PagingInv /\ [Next]_vars => PagingInv'
<1> SUFFICES ASSUME Spared, PagingInv, [Next]_vars PROVE PagingInv'
      OBVIOUS
<1>0. 0 \in 0 .. Puds - 1
      BY BootAssumption
<1>1. ASSUME PagingSame PROVE PagingInv'
      BY <1>1 DEF PagingSame, paging, PagingInv
<1>2. ASSUME UNCHANGED <<at, ready, paging>> PROVE PagingInv'
      BY <1>1, <1>2 DEF PagingSame
<1>3. CASE PageTableSetup
      BY <1>0, <1>3 DEF PageTableSetup, Go, PagingInv
<1>4. CASE BssInit
  <2>1. BssBytes \in Nat /\ PgdAt \in Nat /\ PudAt \in Nat /\ StackAt \in Nat
        BY BootAssumption DEF BssBytes
  <2>2. \A i \in 0 .. Puds - 1 : ~Cleared(PudAt + 8 * i)
        BY <2>1, BootAssumption DEF Spared, Cleared
  <2>3. pud' = pud
        BY <1>4, <2>2 DEF BssInit, PagingInv
  <2>4. at = "bss" /\ at' = "addr" /\ pgd' = pgd /\ returns' /\ ready' = ready
    <3>1. ~Cleared(PgdAt) /\ ~Cleared(StackAt)
          BY <2>1 DEF Cleared, Spared
    <3>2. at = "bss" /\ pgd
          BY <1>4 DEF BssInit, Go, PagingInv
    <3>q. QED
          BY <1>4, <3>1, <3>2 DEF BssInit, Go
  <2>q. QED
        BY <2>3, <2>4 DEF PagingInv
<1>5. CASE MapMemory
      BY <1>0, <1>5 DEF MapMemory, Go, PagingInv
<1>6. CASE HandlerStep
      BY <1>2, <1>6 DEF HandlerStep, BootHandle, Switch, boot
<1>7. CASE \E l \in Lines : (Raise(l) /\ UNCHANGED boot) \/ BootTake(l)
      BY <1>2, <1>7 DEF BootTake, boot
<1>8. CASE Exception
      BY <1>2, <1>8 DEF Exception, boot
<1>9. CASE UNCHANGED vars
      BY <1>2, <1>9 DEF vars
<1>q. QED
      BY PagingKept, <1>1, <1>3, <1>4, <1>5, <1>6, <1>7, <1>8, <1>9 DEF Next

-----------------------------------------------------------------------------
\* The theorems

LEMMA BootInit == Init => BootInv
<1> SUFFICES ASSUME Init PROVE BootInv
      OBVIOUS
<1>1. PicInv
      BY PicInit
<1>2. IrqInv
  <2>1. /\ irr = {} /\ isr_master = {} /\ isr_slave = {} /\ int_flag = FALSE /\ stack = <<>>
        /\ int_handlers = {} /\ halted = "no" /\ switched = FALSE
        BY DEF Init, IrqInit
  <2>2. Served = {}
        BY <2>1 DEF Served
  <2>3. IrqTypeOK
    <3>1. \A R : <<>> \in Seq(R)
          OBVIOUS
    <3>2. stack \in Seq([line : Lines, at : {"gate", "handler", "eoi", "iret"}])
          BY <2>1, <3>1
    <3>q. QED
          BY <2>1, <3>2 DEF IrqTypeOK
  <2>4. StackInv /\ ServiceInv
        BY <2>1, <2>2 DEF StackInv, ServiceInv
  <2>q. QED
        BY <2>3, <2>4 DEF IrqInv
<1>3. ReadyInv /\ HandlerInv /\ ~early
      BY DEF Init, IrqInit, ReadyInv, HandlerInv, CallsInv, ClosedInv, HandlersInv, Closed, Past,
             ToMasks, ToHeap, ToEnable, ToTty, ToQueued
<1>q. QED
      BY <1>1, <1>2, <1>3 DEF BootInv

LEMMA BootInvStep == BootInv /\ [Next]_vars => BootInv'
<1> SUFFICES ASSUME BootInv, [Next]_vars PROVE BootInv'
      OBVIOUS
<1>1. PicInv'
      BY PicStep DEF BootInv
<1>2. IrqInv'
      BY VectorsOf, NextIrq, IrqStep DEF BootInv
<1>3. UsesInv'
      BY UsesStep DEF BootInv, UsesInv
<1>q. QED
      BY <1>1, <1>2, <1>3 DEF BootInv, UsesInv

\* The interrupts, the handlers and the set-up of the boot keep to the inductive
\* invariant, whatever lines the devices raise and whenever they do.
THEOREM BootInvariant == Spec => []BootInv
  BY BootInit, BootInvStep, PTL DEF Spec

\* Handlers run one at a time: whatever interrupts come in the gates of others, those
\* that wait are at their gates, and none is there twice.
THEOREM OneHandler == Spec => []HandlersRunAlone
<1>1. BootInv => HandlersRunAlone
  <2> SUFFICES ASSUME BootInv PROVE HandlersRunAlone
        OBVIOUS
  <2>1. ASSUME NEW i \in DOMAIN stack, NEW j \in DOMAIN stack, stack[i].line = stack[j].line
        PROVE  i = j
    <3>1. i \in Nat /\ j \in Nat /\ InMaster(stack[i].line) \in 0 .. 15
          BY EntryOf, InMasterRange DEF BootInv, IrqInv
    <3>2. ~(i < j) /\ ~(j < i)
          BY <2>1, <3>1 DEF BootInv, IrqInv, StackInv
    <3>q. QED
          BY <3>1, <3>2
  <2>q. QED
        BY <2>1 DEF BootInv, IrqInv, StackInv, HandlersRunAlone
<1>q. QED
      BY <1>1, BootInvariant, PTL

\* The EOI of a handler ends the service of its own line in the master, and when all
\* handlers are done nothing is left in service, in either chip.
THEOREM EoisMatch == Spec => []EoiEndsOwnService
<1>1. BootInv => EoiEndsOwnService
  <2> SUFFICES ASSUME BootInv PROVE EoiEndsOwnService
        OBVIOUS
  <2>1. In("eoi") /\ ~switched => /\ InMaster(Top.line) \in isr_master
                                  /\ \A s \in isr_master : InMaster(Top.line) <= s
        BY EoiStep DEF BootInv, In
  <2>2. ASSUME stack = <<>> PROVE Served = {}
        BY <2>2 DEF Served
  <2>3. stack = <<>> /\ halted = "no" /\ ~switched => isr_master = {} /\ isr_slave = {}
        BY <2>2 DEF BootInv, IrqInv, ServiceInv
  <2>q. QED
        BY <2>1, <2>3 DEF EoiEndsOwnService
<1>q. QED
      BY <1>1, BootInvariant, PTL

\* Whatever lines interrupt the boot, at whatever steps, and whichever of its steps
\* fail, nothing is used before it is set up.
THEOREM NothingEarly == Spec => []NothingUsedEarly
<1>1. BootInv => NothingUsedEarly
      BY DEF BootInv, NothingUsedEarly
<1>q. QED
      BY <1>1, BootInvariant, PTL

\* The timer's line is never out of service after the first switch, and so nothing is
\* ever taken again.
THEOREM SwitchIsLast == Spec => NothingAfterSwitch
<1>1. BootInv /\ [Next]_vars => [switched => UNCHANGED <<stack, isr_master, isr_slave>>]_irq
  <2> SUFFICES ASSUME BootInv, [Next]_vars, switched
               PROVE  UNCHANGED <<stack, isr_master, isr_slave>>
        OBVIOUS
  <2>1. stack = <<>> /\ 0 \in isr_master
        BY DEF BootInv, IrqInv, ServiceInv
  <2>2. \A l \in Lines : ~Take(l)
    <3>1. \A l \in Lines : ~(0 > InMaster(l))
          BY InMasterRange
    <3>q. QED
          BY <2>1, <3>1 DEF Take, Granted, Free
  <2>3. IrqMove
        BY NextIrq
  <2>q. QED
        BY <2>1, <2>2, <2>3
        DEF IrqMove, Idle, Stop, Raise, Handle, HandlerLeaves, Cli, PicEoi, Iret, In, irq, pics, cpu
<1>q. QED
      BY <1>1, BootInvariant, PTL DEF Spec, NothingAfterSwitch

\* Where bss_init stops short of the page tables and of the stack, the processor finds
\* them whenever it looks, all memory mapped to itself, its descriptors as the code
\* means them, and the vectors of the 8259s where the gates are: for any addresses of
\* the stubs and of the task state, any masks that the firmware left, and any lines.
THEOREM TablesStay == ASSUME Spared PROVE Spec => []TablesHold
<1>1. Init => PagingInv
  <2>1. 0 \in 0 .. Puds - 1 /\ Absent \in Nat
        BY BootAssumption DEF Absent
  <2>q. QED
        BY <2>1 DEF Init, PagingInv
<1>2. PagingInv /\ [Next]_vars => PagingInv'
      BY PagingStep
<1>3. BootInv /\ PagingInv => TablesHold
  <2> SUFFICES ASSUME BootInv, PagingInv PROVE TablesHold
        OBVIOUS
  <2>1. ASSUME Remapped, NEW l \in Lines PROVE Vector(l) = 32 + l
    <3>1. Vector(l) = (IF l < 8 THEN 32 ELSE 40) + (l % 8)
          BY <2>1 DEF Remapped, Vector, VectorOf, ChipOf
    <3>2. l \in 0 .. 15
          BY InMasterRange
    <3>3. l % 8 = IF l < 8 THEN l ELSE l - 8
          BY <3>2
    <3>q. QED
          BY <3>1, <3>2, <3>3
  <2>2. "idt" \in ready => Remapped
        BY DEF BootInv, PicInv
  <2>3. "idt" \in ready => Initialized(pic) /\ \A l \in Lines : Vector(l) = 32 + l
        BY <2>1, <2>2 DEF Remapped
  <2>q. QED
        BY <2>3, SegmentsRight, GatesRight, TssRight DEF PagingInv, TablesHold
<1>q. QED
      BY <1>1, <1>2, <1>3, BootInvariant, PTL DEF Spec

=============================================================================
