------------------------------ MODULE Layouts ------------------------------
(***************************************************************************)
(* The structures that the boot loader, the firmware and the processor     *)
(* share with the kernel, as the compiler lays them out.                   *)
(***************************************************************************)
EXTENDS Naturals, Sequences

\* The structures, a field as <<bytes, alignment>>; a structure that is _packed_ has
\* fields without alignment.
Char(n) == <<n, 1>>
Uint(bytes) == <<bytes, bytes>>
Packed(struct) == [k \in DOMAIN struct |-> Char(struct[k][1])]
Times(n, field) == [k \in 1 .. n |-> field]

-----------------------------------------------------------------------------
\* include/jamix/acpi.h

SdtHdr == <<Char(4), Uint(4), Uint(1), Uint(1), Char(6), Char(8), Uint(4), Uint(4), Uint(4)>>
Rsdp == Packed(<<Char(8), Uint(1), Char(6), Uint(1), Uint(4)>>)

\* acpi_gas, which begins where its last field may, and acpi_fadt: neither is _packed_.
Gas == <<<<1, 8>>>> \o Times(3, Uint(1)) \o <<Uint(8)>>
FadtHead ==
  SdtHdr \o Times(2, Uint(4)) \o Times(2, Uint(1)) \o <<Uint(2), Uint(4)>> \o Times(4, Uint(1))
    \o Times(8, Uint(4)) \o Times(8, Uint(1)) \o Times(4, Uint(2)) \o Times(5, Uint(1))
FadtTail ==
  <<Uint(2), Uint(1), Uint(4)>> \o Gas \o <<Uint(1), Char(3)>> \o Times(2, Uint(8))
    \o Gas \o Gas \o Gas \o Gas \o Gas \o Gas \o Gas \o Gas
Fadt == FadtHead \o FadtTail
AcpiEnableCmd == Len(SdtHdr) + 7

Madt == Packed(SdtHdr \o <<Uint(4), Uint(4)>>)

-----------------------------------------------------------------------------
\* include/multiboot2.h

MultibootHeader == Times(4, Uint(4))
HeaderTag == <<Uint(2), Uint(2), Uint(4)>>

\* The other tags of a header: as many words follow.
HeaderTags == {HeaderTag \o Times(n, Uint(4)) : n \in {0, 1, 3, 4}}

\* Their types, from 1 on.
HeaderTagTypes ==
  << "INFORMATION_REQUEST", "ADDRESS", "ENTRY_ADDRESS", "CONSOLE_FLAGS", "FRAMEBUFFER",
     "MODULE_ALIGN", "EFI_BS", "ENTRY_ADDRESS_EFI32", "ENTRY_ADDRESS_EFI64", "RELOCATABLE" >>

\* mmap_entry, and the tags of the information, in the order of their types: string
\* twice, module, basic_meminfo, bootdev, mmap with an entry, vbe, framebuffer_common;
MmapEntry == <<Uint(8), Uint(8), Uint(4), Uint(4)>>
Tag == <<Uint(4), Uint(4)>>
Framebuffer == Tag \o <<Uint(8), Uint(4), Uint(4), Uint(4), Uint(1), Uint(1), Uint(2)>>
InfoTags ==
  << Tag \o <<Char(0)>>, Tag \o <<Char(0)>>, Tag \o <<Uint(4), Uint(4), Char(0)>>,
     Tag \o Times(2, Uint(4)), Tag \o Times(3, Uint(4)), Tag \o Times(2, Uint(4)) \o MmapEntry,
     Tag \o Times(4, Uint(2)) \o <<Char(512), Char(256)>>, Framebuffer >>

\* elf_sections, apm, efi32, efi64, smbios, old_acpi and new_acpi, network, efi_mmap,
\* nothing, efi32_ih, efi64_ih, load_base_addr.
MoreInfoTags ==
  << Tag \o Times(3, Uint(4)) \o <<Char(0)>>,
     Tag \o <<Uint(2), Uint(2), Uint(4)>> \o Times(6, Uint(2)),
     Tag \o <<Uint(4)>>, Tag \o <<Uint(8)>>, Tag \o <<Uint(1), Uint(1), Char(6)>>,
     Tag \o <<Char(0)>>, Tag \o <<Char(0)>>, Tag \o <<Char(0)>>, Tag \o <<Uint(4), Uint(4), Char(0)>>,
     Tag, Tag \o <<Uint(4)>>, Tag \o <<Uint(8)>>, Tag \o <<Uint(4)>> >>

\* The colours behind a framebuffer: a palette, of two here, or fields.
Color == Times(3, Uint(1))
Colours == {Framebuffer \o <<Uint(2)>> \o Color \o Color, Framebuffer \o Times(6, Uint(1))}

\* The types, from 1 on.
TagTypes ==
  << "CMDLINE", "BOOT_LOADER_NAME", "MODULE", "BASIC_MEMINFO", "BOOTDEV", "MMAP", "VBE",
     "FRAMEBUFFER", "ELF_SECTIONS", "APM", "EFI32", "EFI64", "SMBIOS", "ACPI_OLD", "ACPI_NEW",
     "NETWORK", "EFI_MMAP", "EFI_BS", "EFI32_IH", "EFI64_IH", "LOAD_BASE_ADDR" >>
TagType(name) == CHOOSE k \in DOMAIN TagTypes : TagTypes[k] = name

-----------------------------------------------------------------------------
\* include/arch/x86.h, all _packed_: segm_descriptor, gdtr, interrupt_vector, idtr

ProcessorTables ==
  {Packed(s) : s \in {<<Uint(2), Uint(2), Uint(1), Uint(1), Uint(1), Uint(1)>>, <<Uint(2), Uint(8)>>,
                      <<Uint(2), Uint(2), Uint(1), Uint(1), Uint(2), Uint(4), Uint(4)>>}}

\* tss_descriptor
Tss == Packed([k \in 1 .. 16 |->
                 Uint(IF k \in {1, 5, 6, 14, 15} THEN 4 ELSE IF k = 16 THEN 2 ELSE 8)])

-----------------------------------------------------------------------------
\* The kernel's own

Pointer == Uint(8)

RingBuffer == <<Uint(4), Uint(4), Uint(8), Pointer>>          \* head, tail, size, buffer
TtyOperations == <<Pointer, Pointer>>                 \* read, write
ConsoleStruct == <<Char(16), Pointer, Pointer, Pointer>>    \* name, write, dev, data

\* magic to ticks_left, time_quantum, and the pointers to the tty and the ring
TaskStruct ==
  << Uint(8), Uint(4), Uint(4), Pointer, Pointer, Uint(8), Uint(8), Uint(4), Uint(8), Uint(8),
     Uint(1), Uint(1) >>
    \o Times(3, Pointer)

-----------------------------------------------------------------------------

\* Where the compiler puts a field, and the end of the last.
OffsetOf(struct, k) ==
  LET Aligned(n, a) == ((n + a - 1) \div a) * a
      end[j \in 0 .. k] == IF j = 0 THEN 0 ELSE Aligned(end[j - 1], struct[j][2]) + struct[j][1]
  IN  end[k] - struct[k][1]
SizeOf(struct) == OffsetOf(struct \o <<Char(0)>>, Len(struct) + 1)

\* Their writers put them without room between fields.
InPlace(struct, k) == OffsetOf(struct, k) = OffsetOf(Packed(struct), k)

Structures ==
  {SdtHdr, Rsdp, Madt, Tss, FadtHead, MultibootHeader} \cup HeaderTags
    \cup {(InfoTags \o MoreInfoTags)[k] : k \in DOMAIN TagTypes} \cup Colours \cup ProcessorTables

\* Every field is where its writer has put it; of the FADT every field that is read,
\* and none of those after the first 109 bytes.
Agree ==
  /\ \A s \in Structures : \A k \in DOMAIN s : InPlace(s, k)
  /\ AcpiEnableCmd \in DOMAIN FadtHead
  /\ {k \in DOMAIN Fadt : ~InPlace(Fadt, k)} = DOMAIN Fadt \ DOMAIN FadtHead

\* A tty has NULL for its operations and its rings: the word that is ops->write is
\* the ring's size, no other of the ring's, and clearing a task clears the ring.
SharedWords ==
  /\ OffsetOf(TtyOperations, 2) = OffsetOf(RingBuffer, 3)
  /\ SizeOf(TtyOperations) = OffsetOf(RingBuffer, 4)
  /\ SizeOf(RingBuffer) <= SizeOf(TaskStruct)

\* strncpy(con->name, ..., sizeof(con->name)) ends the name in the first byte of
\* con->write, which is stored after it.
NameReachesWrite == OffsetOf(ConsoleStruct, 1) + 16 = OffsetOf(ConsoleStruct, 2)

=============================================================================
