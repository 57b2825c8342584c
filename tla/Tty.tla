-------------------------------- MODULE Tty --------------------------------
(***************************************************************************)
(* tty0 (drivers/tty/tty_io.c) between the two who use it: kernel code     *)
(* that calls tty_write, whose bytes fbcon_output_intr takes out again     *)
(* (drivers/video/console/fbcon.c), and the keyboard interrupt, whose putc *)
(* queues what is typed (drivers/char/keyboard/ps2-keyboard.c).            *)
(*                                                                         *)
(* tty_create clears the tty and never sets read_q, write_q and ops: all   *)
(* three are NULL, and the words at address zero are mapped.  So there is  *)
(* one ring_buffer, at address zero, and the store to ops->write is a      *)
(* store to its size.  sched_init clears the same words through current.   *)
(***************************************************************************)
EXTENDS Naturals, Sequences

L == INSTANCE Layouts
S == INSTANCE Termios

CONSTANTS
  Chars,      \* bytes kernel code writes
  Keys,       \* bytes the keyboard gives, never 0
  Foreign,    \* a byte of memory that is not the buffer's
  BufSize,    \* TTY_BUF_SIZE
  TtyWrite,   \* the address of tty_write, taken for a size
  MaxBytes    \* bound: nothing is queued past MaxBytes bytes

ASSUME TtyAssumption ==
  /\ BufSize \in Nat \ {0} /\ MaxBytes \in Nat
  /\ TtyWrite \in Nat /\ TtyWrite > MaxBytes    \* 0x100000 and more
  /\ Keys \subseteq Nat \ {0} /\ Chars \subseteq Nat \ {0} /\ Keys \cap Chars = {}
  /\ Foreign \notin Keys \cup Chars

\* What the words at address zero are to each, and what a tty is told.
ASSUME LayoutAssumption == L!SharedWords /\ S!SettingsHold

VARIABLES
  phase,      \* how far _start is
  head, tail, size,   \* the words at address zero
  buffer,     \* the last of them, TRUE when it is a block of the heap
  cells,      \* the bytes from buffer[0] on
  tty,        \* the keyboard's tty is tty0
  pc, idx, left, len,   \* tty_write: where it is, its index, bytes to go, bytes in all
  written,    \* history: the bytes tty_write has queued
  output,     \* history: the bytes given to the console
  typed,      \* history: how many keys have been queued and not overwritten
  dropped     \* history: how many bytes fbcon_output_intr left queued

ring == <<head, tail, size, buffer, cells>>
call == <<pc, idx, left, len>>
hist == <<written, output, typed, dropped>>
vars == <<phase, ring, tty, call, hist>>

Byte == Keys \cup Chars \cup {Foreign}

Init ==
  /\ phase = "boot"
  /\ head = 0 /\ tail = 0 /\ size = 0 /\ buffer = FALSE
  /\ cells = [i \in 0 .. MaxBytes - 1 |-> Foreign]
  /\ tty = FALSE
  /\ pc = "idle" /\ idx = 0 /\ left = 0 /\ len = 0
  /\ written = <<>> /\ output = <<>> /\ typed = 0 /\ dropped = 0

-----------------------------------------------------------------------------

\* fbcon_dev, the device of tty0, and IS_VALID_TTY
FbconDev == [device_type |-> "CHAR", device_class |-> "CONSOLE"]
IsValidTty(dev) == dev.device_type = "CHAR" /\ dev.device_class = "CONSOLE"

\* tty_create(0): ring_buffer_init twice on the same words, then ops->write.
TtyCreate ==
  /\ phase = "boot"
  /\ phase' = "created"
  /\ head' = 0 /\ tail' = 0
  /\ size' = TtyWrite
  /\ buffer' = TRUE
  /\ UNCHANGED <<cells, tty, call, hist>>

\* malloc has no room for the tty or for a buffer: _start panics.
TtyCreateFails ==
  /\ phase = "boot"
  /\ phase' = "panic"
  /\ UNCHANGED <<ring, tty, call, hist>>

\* keyboard_init, which ends with tty = tty_lookup(0) or gives up before.
KeyboardInit ==
  /\ phase = "created"
  /\ phase' = "run"
  /\ tty' \in BOOLEAN
  /\ UNCHANGED <<ring, call, hist>>

\* Mutant: only the indices are cleared.
SchedInitIndices ==
  /\ phase = "run" /\ pc = "idle"
  /\ phase' = "sched"
  /\ head' = 0 /\ tail' = 0
  /\ UNCHANGED <<size, buffer, cells, tty, call, hist>>

\* sched_init: memset(current, 0, sizeof(struct task_struct)), current is NULL.
SchedInit ==
  /\ phase = "run" /\ pc = "idle"
  /\ phase' = "sched"
  /\ head' = 0 /\ tail' = 0 /\ size' = 0 /\ buffer' = FALSE
  /\ UNCHANGED <<cells, tty, call, hist>>

-----------------------------------------------------------------------------
\* ring_buffer_write

\* The index the byte goes to.
Wrap == IF tail > size THEN 0 ELSE tail

\* buffer[i] = b.  A NULL buffer is the ring itself: byte 0 is the low byte of head.
Store(i, b) ==
  IF buffer
  THEN cells' = [cells EXCEPT ![i] = b] /\ UNCHANGED head
  ELSE head' = (IF i = 0 THEN b ELSE head) /\ UNCHANGED cells

\* keyboard_port1_irq with a key that has a character: putc.
Key(b) ==
  /\ tty
  /\ phase \in {"run", "sched"}
  /\ Wrap < MaxBytes
  /\ Store(Wrap, b)
  /\ tail' = Wrap + 1
  /\ typed' = IF phase = "run" THEN typed + 1 ELSE typed
  /\ UNCHANGED <<phase, size, buffer, tty, call, written, output, dropped>>

-----------------------------------------------------------------------------
\* tty_write, interrupted between the load of tail and the stores

\* ops->write is the word that is also size.
Refuse ==
  /\ phase \in {"run", "sched"} /\ pc = "idle"
  /\ size = 0
  /\ UNCHANGED vars

\* tty_write(tty, buf, n); it does nothing when malloc has no room.
Call(n) ==
  /\ phase \in {"run", "sched"} /\ pc = "idle"
  /\ size # 0 /\ IsValidTty(FbconDev)
  /\ pc' = "load" /\ left' = n /\ len' = n
  /\ UNCHANGED <<phase, ring, tty, idx, hist>>

\* for(i = 0; str[i]; i++) ring_buffer_write(tty->write_q, str[i]), its loads.
Load ==
  /\ pc = "load" /\ left # 0
  /\ Wrap < MaxBytes
  /\ idx' = Wrap
  /\ pc' = "store"
  /\ UNCHANGED <<phase, ring, tty, left, len, hist>>

\* Mutant: the byte goes where tail is now, tail to where it was.
StoreAtTail(c) ==
  /\ pc = "store"
  /\ Store(Wrap, c)
  /\ tail' = idx + 1
  /\ typed' = typed - (tail - idx)
  /\ written' = Append(written, c)
  /\ left' = left - 1
  /\ pc' = "load"
  /\ UNCHANGED <<phase, size, buffer, tty, idx, len, output, dropped>>

\* Keys queued since the load are overwritten, or left behind tail.
StoreByte(c) ==
  /\ pc = "store"
  /\ Store(idx, c)
  /\ tail' = idx + 1
  /\ typed' = typed - (tail - idx)
  /\ written' = Append(written, c)
  /\ left' = left - 1
  /\ pc' = "load"
  /\ UNCHANGED <<phase, size, buffer, tty, idx, len, output, dropped>>

\* Mutant: head is incremented before it is used.
TakenNext(n) == [i \in 1 .. n |-> IF head + i < BufSize THEN cells[head + i] ELSE Foreign]

\* ring_buffer_read of n bytes.
Taken(n) == [i \in 1 .. n |-> IF head + i - 1 < BufSize THEN cells[head + i - 1] ELSE Foreign]

\* fbcon_output_intr(tty, len): it reads as many bytes as were written.
Output ==
  /\ pc = "load" /\ left = 0
  /\ head' = (IF head > size THEN 0 ELSE head) + len
  /\ output' = output \o Taken(len)
  /\ pc' = "idle"
  /\ UNCHANGED <<phase, tail, size, buffer, cells, tty, idx, left, len, written, typed, dropped>>

\* Mutant: the bytes that find no scratch buffer are taken back.
OutputFailsUndone ==
  /\ pc = "load" /\ left = 0
  /\ tail' = tail - len
  /\ dropped' = dropped + len
  /\ pc' = "idle"
  /\ UNCHANGED <<phase, head, size, buffer, cells, tty, idx, left, len, written, output, typed>>

\* malloc has no room for the scratch buffer.
OutputFails ==
  /\ pc = "load" /\ left = 0
  /\ dropped' = dropped + len
  /\ pc' = "idle"
  /\ UNCHANGED <<phase, ring, tty, idx, left, len, written, output, typed>>

TtyWriteStep == Load \/ (\E c \in Chars : StoreByte(c)) \/ Output \/ OutputFails

Next ==
  \/ TtyCreate \/ TtyCreateFails \/ KeyboardInit \/ SchedInit
  \/ \E b \in Keys : Key(b)
  \/ Refuse \/ \E n \in 1 .. MaxBytes : Call(n)
  \/ TtyWriteStep

Spec == Init /\ [][Next]_vars

-----------------------------------------------------------------------------

TypeOK ==
  /\ phase \in {"boot", "created", "run", "sched", "panic"}
  /\ head \in Nat /\ tail \in Nat /\ size \in {0, TtyWrite} /\ buffer \in BOOLEAN
  /\ cells \in [0 .. MaxBytes - 1 -> Byte]
  /\ tty \in BOOLEAN
  /\ pc \in {"idle", "load", "store"}
  /\ idx \in Nat /\ left \in Nat /\ len \in Nat
  /\ written \in Seq(Chars) /\ output \in Seq(Byte) /\ typed \in Nat /\ dropped \in Nat

\* The bytes queued since tty_create, as the memory at buffer has them.
Queued == [i \in 1 .. tail |-> cells[i - 1]]

\* Whatever the keyboard does between the steps of tty_write, its bytes are all
\* queued, in order: a key can lose its place, a byte of tty_write cannot.
Places(f) ==
  /\ \A j, k \in DOMAIN f : j < k => f[j] < f[k]
  /\ \A i \in 1 .. tail : Queued[i] \in Chars <=> \E k \in DOMAIN f : f[k] = i
  /\ \A k \in DOMAIN f : Queued[f[k]] = written[k]
WrittenInOrder ==
  phase = "run" => \E f \in [1 .. Len(written) -> 1 .. tail] : Places(f)

\* Between calls of tty_write what is queued and not printed is exactly what was
\* typed and what found no scratch buffer: the backlog never shrinks.
BacklogAccounted ==
  phase = "run" /\ pc = "idle" => tail = head + typed + dropped

\* What is printed is what was queued, in order and nothing twice, as far as
\* the buffer goes; the ring does not wrap there, as its size is overwritten.
OutputIsQueued ==
  phase = "run" =>
    /\ Len(output) = head
    /\ \A i \in 1 .. Len(output) : output[i] = IF i <= BufSize THEN cells[i - 1] ELSE Foreign

\* After sched_init tty_write has no effect.
NoOutputAfterSchedInit ==
  [][phase = "sched" => UNCHANGED <<written, output, dropped>>]_vars

-----------------------------------------------------------------------------
(* The inductive invariant of TtyProofs. *)

\* The bytes tty_write has queued in the call it is in.
SoFar == IF pc = "idle" THEN 0 ELSE len - left

PhaseInv ==
  /\ pc # "idle" => phase = "run"
  /\ phase \in {"boot", "created", "panic"} =>
       head = 0 /\ tail = 0 /\ typed = 0 /\ dropped = 0 /\ output = <<>> /\ written = <<>>
  /\ phase \in {"created", "run"} => size = TtyWrite /\ buffer
  /\ phase = "sched" => tail \in {0, 1} /\ size = 0 /\ ~buffer /\ head \in {0} \cup Keys

QueueInv ==
  /\ left <= len
  /\ phase = "run" =>
       /\ tail = head + typed + dropped + SoFar
       /\ tail <= MaxBytes
       /\ Len(output) = head
  /\ pc = "store" => /\ left > 0
                     /\ head <= idx /\ idx <= tail /\ idx < MaxBytes
                     /\ tail - idx <= typed
                     /\ \A i \in idx + 1 .. tail : Queued[i] \in Keys

\* The types; after sched_init no key is stored past the first word at address zero,
\* however many are typed; and nothing but the keyboard and a missing scratch buffer makes a backlog.
TInv == TypeOK /\ PhaseInv /\ QueueInv

=============================================================================
