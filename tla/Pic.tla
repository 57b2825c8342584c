-------------------------------- MODULE Pic --------------------------------
(***************************************************************************)
(* The two 8259s as arch/x86/cpu/pic.c reaches them, through their ports.  *)
(* A byte is the set of its bits.                                          *)
(***************************************************************************)
EXTENDS Naturals

\* PIC_MASTER_DATA_PORT and PIC_SLAVE_DATA_PORT: the chip, and which of its two registers.
MasterData == <<"master", "data">>
SlaveData  == <<"slave", "data">>

ICW1_ICW4 == {0}
ICW1_INIT == {4}
ICW4_8086 == {0}

-----------------------------------------------------------------------------
\* A chip: the initialization word it waits for or 0, whether there will be a fourth,
\* its first vector, its place in the cascade, and its masks.

Chip(masks) == [icw |-> 0, icw4 |-> FALSE, vector |-> 8, cascade |-> {}, imr |-> masks]

Number(byte) ==
  LET Weight(b, w) == IF b \in byte THEN w ELSE 0
  IN  Weight(0, 1) + Weight(1, 2) + Weight(2, 4) + Weight(3, 8) +
      Weight(4, 16) + Weight(5, 32) + Weight(6, 64) + Weight(7, 128)

CommandTo(chip, byte) ==
  IF ICW1_INIT \subseteq byte
  THEN [icw |-> 2, icw4 |-> ICW1_ICW4 \subseteq byte, vector |-> chip.vector,
        cascade |-> chip.cascade, imr |-> {}]
  ELSE chip

\* The word a chip waits for after one of data.
AfterWord(chip) ==
  CASE chip.icw = 2 -> 3
    [] chip.icw = 3 -> (IF chip.icw4 THEN 4 ELSE 0)
    [] OTHER -> 0

DataTo(chip, byte) ==
  [icw     |-> AfterWord(chip),
   icw4    |-> chip.icw4,
   vector  |-> IF chip.icw = 2 THEN Number(byte) ELSE chip.vector,
   cascade |-> IF chip.icw = 3 THEN byte ELSE chip.cascade,
   imr     |-> IF chip.icw = 0 THEN byte ELSE chip.imr]

Outb(pic, port, byte) ==
  [pic EXCEPT ![port[1]] = IF port[2] = "command" THEN CommandTo(@, byte) ELSE DataTo(@, byte)]

\* read_pic_master_data, read_pic_slave_data
Inb(pic, port) == pic[port[1]].imr

-----------------------------------------------------------------------------
\* pic_unmask of each of intrs; from 16 on the bit is outside the register.
PicUnmask(pic, intrs) ==
  [master |-> DataTo(pic.master, pic.master.imr \ {i \in intrs : i < 8}),
   slave |-> DataTo(pic.slave, pic.slave.imr \ {i - 8 : i \in {j \in intrs : j >= 8}})]

\* A word to the same register of both chips, the master's first.
SendBoth(pic, register, toMaster, toSlave) ==
  Outb(Outb(pic, <<"master", register>>, toMaster), <<"slave", register>>, toSlave)

\* pic_remap_vectors.  Each chip gets the masks back that were the other's.
RemapVectors(pic) ==
  LET began   == SendBoth(pic, "command", ICW1_INIT \cup ICW1_ICW4, ICW1_INIT \cup ICW1_ICW4)
      vectors == SendBoth(began, "data", {5}, {5, 3})
      cascade == SendBoth(vectors, "data", {2}, {1})
      mode    == SendBoth(cascade, "data", ICW4_8086, ICW4_8086)
      masks   == SendBoth(mode, "data", Inb(pic, SlaveData), Inb(pic, MasterData))
  IN  PicUnmask(masks, 0 .. 41)

-----------------------------------------------------------------------------
\* What the chips make of it

ChipOf(line) == IF line < 8 THEN "master" ELSE "slave"
VectorOf(pic, line) == pic[ChipOf(line)].vector + (line % 8)
IsMasked(pic, line) == line % 8 \in pic[ChipOf(line)].imr

\* Both wait for no more words, and the slave's requests go to its place in the master.
Initialized(pic) ==
  /\ pic.master.icw = 0 /\ pic.slave.icw = 0
  /\ \E n \in 0 .. 7 : pic.master.cascade = {n} /\ Number(pic.slave.cascade) = n

=============================================================================
