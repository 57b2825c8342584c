-------------------------------- MODULE Ring --------------------------------
(***************************************************************************)
(* struct ring_buffer (lib/ring/ring.c) with its size intact and a caller  *)
(* that keeps within it.  Nothing in the ring says how much is in it, so   *)
(* what a caller has to respect is in the guards: it does not write over   *)
(* what is unread, does not read what is not there, and does not ask for   *)
(* bytes on both sides of the end, as head only wraps at the start of a    *)
(* call.  The ring wraps past size, not at it: it has size + 1 bytes, the  *)
(* last one after the end of the block malloc gave.                        *)
(***************************************************************************)
EXTENDS Naturals, Sequences

CONSTANTS
  Size,    \* ring->size
  Bytes,
  None     \* a byte never written, a buffer never read into

\* What the theorems assume.
RingAssumption == Size \in Nat /\ None \notin Bytes

VARIABLES
  head, tail,
  buffer,    \* buffer[0] to buffer[size]
  buf,       \* what the last read returned
  unread     \* history: bytes written and not read

vars == <<head, tail, buffer, buf, unread>>

Room == Size + 1

\* ring_buffer_init
Init ==
  /\ head = 0 /\ tail = 0
  /\ buffer = [i \in 0 .. Size |-> None]
  /\ buf = None
  /\ unread = 0

\* if(i > ring->size) i = 0
Wrapped(i) == IF i > Size THEN 0 ELSE i

\* Mutant: tail is incremented before it is used.
WritePre(ch) ==
  /\ unread < Room
  /\ buffer' = [buffer EXCEPT ![Wrapped(Wrapped(tail) + 1)] = ch]
  /\ tail' = Wrapped(tail) + 1
  /\ unread' = unread + 1
  /\ UNCHANGED <<head, buf>>

\* ring_buffer_write
Write(ch) ==
  /\ unread < Room
  /\ buffer' = [buffer EXCEPT ![Wrapped(tail)] = ch]
  /\ tail' = Wrapped(tail) + 1
  /\ unread' = unread + 1
  /\ UNCHANGED <<head, buf>>

\* ring_buffer_read
Read(len) ==
  LET first == Wrapped(head)
  IN  /\ len <= unread
      /\ first + len <= Room
      /\ buf' = [i \in 1 .. len |-> buffer[first + i - 1]]
      /\ head' = first + len
      /\ unread' = unread - len
      /\ UNCHANGED <<tail, buffer>>

Next == \/ \E ch \in Bytes : Write(ch)
        \/ \E len \in 1 .. Room : Read(len)

Spec == Init /\ [][Next]_vars

-----------------------------------------------------------------------------

TypeOK ==
  /\ head \in 0 .. Room /\ tail \in 0 .. Room
  /\ buffer \in [0 .. Size -> Bytes \cup {None}]
  /\ unread \in 0 .. Room
  /\ buf = None \/ buf \in Seq(Bytes)

\* The distance from head to tail is what is unread, on either side of the wrap.
Around(i) == IF i < Room THEN i ELSE i - Room
Distance == Wrapped(tail) = Around(Wrapped(head) + unread)

\* The bytes from head on, around the end.
Contents == [i \in 1 .. unread |-> buffer[Around(Wrapped(head) + i - 1)]]

\* What lies between head and tail has been written.
WrittenInv == \A i \in 1 .. unread : Contents[i] \in Bytes

\* The inductive invariant: whatever the wraps, the indices bound the unread bytes.
RInv == TypeOK /\ Distance /\ WrittenInv

\* A ring used this way is a queue of size + 1 bytes: nothing is lost, repeated
\* or reordered, however often it goes around.
Queue == INSTANCE Fifo WITH queue <- Contents
RingIsFifo == Queue!Spec

=============================================================================
