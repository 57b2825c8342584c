----------------------------- MODULE Descriptors -----------------------------
(***************************************************************************)
(* The descriptor tables of arch/x86/cpu/setup.c as the bytes the code     *)
(* stores (struct segm_descriptor and struct interrupt_vector of           *)
(* include/arch/x86.h), and what the processor reads there.                *)
(*                                                                         *)
(* A number is the sequence of its bytes, the lowest first.                *)
(***************************************************************************)
EXTENDS Naturals, Sequences

CONSTANTS
  Stub,       \* interrupt_handlers: the address of each vector's stub
  TssAddr     \* &tss

ASSUME DescriptorsAssumption ==
  /\ \A v \in DOMAIN Stub : Stub[v] \in Seq(0 .. 255) /\ Len(Stub[v]) = 8
  /\ TssAddr \in Seq(0 .. 255) /\ Len(TssAddr) = 8
  /\ \A i \in 5 .. 8 : TssAddr[i] = 0      \* the image is at 2 MB

Low(n) == <<n[1], n[2], n[3], n[4]>>
High(n) == <<n[5], n[6], n[7], n[8]>>
Zero4 == <<0, 0, 0, 0>>

-----------------------------------------------------------------------------
\* The GDT

\* set_global_descriptor
SetGlobalDescriptor(limit, base, access, flags) ==
  <<limit[1], limit[2], base[1], base[2], base[3], access, flags * 16, base[4]>>

\* GDT_SEGM_KERNEL_CODE, GDT_SEGM_KERNEL_DATA, GDT_SEGM_TSS_DESC; GDT_DPL_USER is
\* the bit of GDT_DESC_RW, so the access bytes of the user segments are the kernel's.
Code == 154
Data == 146
TssDesc == 137
Bits64 == 2         \* GDT_FLAG_64BIT
All == <<255, 255>>

\* gdt_setup, and tss_setup for the last two
Gdt ==
  << SetGlobalDescriptor(<<0, 0>>, Zero4, 0, 0),
     SetGlobalDescriptor(All, Zero4, Code, Bits64),
     SetGlobalDescriptor(All, Zero4, Data, 0),
     SetGlobalDescriptor(All, Zero4, Code, 0),
     SetGlobalDescriptor(All, Zero4, Data, Bits64),
     SetGlobalDescriptor(<<102, 0>>, Low(TssAddr), TssDesc, 0),
     SetGlobalDescriptor(<<0, 0>>, High(TssAddr), 0, 0) >>

\* The bit of this weight is set.
Bit(byte, weight) == (byte \div weight) % 2 = 1
Selected(selector) == Gdt[selector \div 8 + 1]
Base(d) == <<d[3], d[4], d[5], d[8]>>
Present(d) == Bit(d[6], 128)

\* reload_segm and load_tss give the selectors 0x08, 0x10 and 0x28.
SegmentsDecode ==
  /\ LET c == Selected(8) IN Present(c) /\ Bit(c[6], 16) /\ Bit(c[6], 8) /\ Bit(c[7], 32)
  /\ LET d == Selected(16) IN Present(d) /\ Bit(d[6], 16) /\ ~Bit(d[6], 8) /\ Bit(d[6], 2)
TssDecodes ==
  LET t == Selected(40)
  IN  /\ Present(t) /\ t[6] % 32 = 9
      /\ Base(t) = Low(TssAddr) /\ Low(Selected(48)) = High(TssAddr)

-----------------------------------------------------------------------------
\* The IDT

\* set_interrupt_vector; the code segment is 0x08, and the flags get 0x60.
SetInterruptVector(offset, flags) ==
  <<offset[1], offset[2], 8, 0, 0, flags + 96, offset[3], offset[4],
    offset[5], offset[6], offset[7], offset[8], 0, 0, 0, 0>>

InterruptGate == 142
TrapGate == 143

\* idt_setup
Idt == [v \in DOMAIN Stub |->
          SetInterruptVector(Stub[v], IF v > 32 THEN TrapGate ELSE InterruptGate)]

\* The IDT has zeros for the other vectors.
HasGate(v) == v \in DOMAIN Idt
Offset(g) == <<g[1], g[2], g[7], g[8], g[9], g[10], g[11], g[12]>>
\* A trap gate leaves the interrupt flag as it is.
Traps(v) == Idt[v][6] % 16 = 15

GatesDecode ==
  \A v \in DOMAIN Stub : Present(Idt[v]) /\ Offset(Idt[v]) = Stub[v] /\ Idt[v][6] % 16 \in {14, 15}

=============================================================================
