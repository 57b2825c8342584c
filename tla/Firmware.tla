------------------------------ MODULE Firmware ------------------------------
(***************************************************************************)
(* What the kernel is given by the boot loader and the firmware: the walk  *)
(* over the tags of multiboot2_locate_tag (arch/x86/boot/multiboot2.c) and *)
(* acpi_init (drivers/acpi/acpi.c), which read with the structures of      *)
(* Layouts, and what it asks of the loader in header.S.                    *)
(*                                                                         *)
(* The loader puts every tag at the next multiple of 8, and a tag of type  *)
(* 0 after the last.                                                       *)
(***************************************************************************)
EXTENDS Layouts, Integers, FiniteSetsExt

VARIABLES
  tags,       \* what the loader has put in the list: [type, size]
  wanted,     \* type
  tag,        \* the address the walk is at
  located,    \* NotYet, or what has been returned
  rsdt,       \* the signatures of the tables the RSDT points to
  madt, fadt, \* indices of rsdt, or NULL
  enabled     \* acpi_enable_cmd has been written to smi_cmd_port

firmware == <<tags, wanted, tag, located, rsdt, madt, fadt, enabled>>

NULL == 0
NotYet == -1
AcpiOld == TagType("ACPI_OLD")

UpTo8(n) == ((n + 7) \div 8) * 8
Address(k) ==
  LET address[j \in 1 .. k] == IF j = 1 THEN 8 ELSE address[j - 1] + UpTo8(tags[j - 1].size)
  IN  address[k]
End == Address(Len(tags) + 1)
TagAt(a) ==
  IF a = End THEN [type |-> 0, size |-> 8]
  ELSE tags[CHOOSE k \in DOMAIN tags : Address(k) = a]

FirmwareStart ==
  /\ tag = 8 /\ located = NotYet
  /\ madt = NULL /\ fadt = NULL /\ enabled = FALSE

-----------------------------------------------------------------------------
\* arch/x86/boot/asm/header.S

\* The words of the header from address 16 on: the framebuffer tag, five of them,
\* and the end tag.  A tag begins with its type, flags and size.
Header == <<5 + 65536, 20, 1280, 720, 32, 0, 0>>
HeaderEnd == 16 + 4 * Len(Header)
HeaderWord(a) == Header[(a - 16) \div 4 + 1]

\* The loader looks for the next tag at a multiple of 8, which is not where the
\* end tag begins; it still meets a type of 0 before the header ends.
HeaderRead ==
  LET next == 16 + UpTo8(HeaderWord(20))
  IN  /\ HeaderTagTypes[HeaderWord(16) % 65536] = "FRAMEBUFFER"
      /\ HeaderWord(20) = SizeOf(HeaderTag \o Times(3, Uint(4)))
      /\ next < HeaderEnd /\ HeaderWord(next) % 65536 = 0

-----------------------------------------------------------------------------
\* multiboot2_locate_tag

Found(a) == located' = a /\ UNCHANGED <<tags, wanted, tag, rsdt, madt, fadt, enabled>>

NoTag == located = NotYet /\ TagAt(tag).type = 0 /\ Found(NULL)

ThisTag ==
  /\ located = NotYet /\ TagAt(tag).type # 0
  /\ TagAt(tag).type = wanted
  /\ Found(tag)

\* Mutant: the size is rounded down.
StrideDown(size) == (size \div 8) * 8

\* (size + 7) & ~7
Stride(size) == UpTo8(size)

NextTag ==
  /\ located = NotYet /\ TagAt(tag).type \notin {0, wanted}
  /\ tag' = tag + Stride(TagAt(tag).size)
  /\ UNCHANGED <<tags, wanted, located, rsdt, madt, fadt, enabled>>

-----------------------------------------------------------------------------
\* acpi_init

\* rsdt->hdr.length, and the pointers acpi_find_sdt looks at.
Length == 36 + 4 * Len(rsdt)
Entries == (Length - SizeOf(SdtHdr)) \div 4

FindSdt(signature) ==
  LET at == {e \in 1 .. Entries : rsdt[e] = signature} IN IF at = {} THEN NULL ELSE Min(at)

\* An RSDP of version 1 is asked for; both tables are taken or none.
AcpiInit ==
  /\ located \notin {NotYet, NULL} /\ wanted = AcpiOld /\ ~enabled
  /\ FindSdt("APIC") # NULL /\ FindSdt("FACP") # NULL
  /\ madt' = FindSdt("APIC") /\ fadt' = FindSdt("FACP")
  /\ enabled' = TRUE
  /\ UNCHANGED <<tags, wanted, tag, located, rsdt>>

FirmwareStep == NoTag \/ ThisTag \/ NextTag \/ AcpiInit

-----------------------------------------------------------------------------

\* The walk looks at the tags one by one and at nothing else, and returns the first
\* of the type or, when there is none, NULL; the tables taken are the firmware's
\* first of their signature.
TablesFound ==
  /\ tag \in {Address(k) : k \in 1 .. Len(tags) + 1}
  /\ located # NotYet =>
       LET of == {k \in DOMAIN tags : tags[k].type = wanted}
       IN  located = IF of = {} THEN NULL ELSE Address(Min(of))
  /\ enabled => /\ rsdt[madt] = "APIC" /\ "APIC" \notin {rsdt[e] : e \in 1 .. madt - 1}
                /\ rsdt[fadt] = "FACP" /\ "FACP" \notin {rsdt[e] : e \in 1 .. fadt - 1}

\* The inductive invariant of LibraryProofs: the walk has passed no tag of the type.
WalkInv ==
  /\ tags \in Seq([type : Nat \ {0}, size : Nat \ (0 .. 7)]) /\ wanted \in Nat
  /\ \E k \in 1 .. Len(tags) + 1 :
       tag = Address(k) /\ \A j \in 1 .. k - 1 : tags[j].type # wanted
  /\ rsdt \in Seq(STRING)

=============================================================================
