------------------------------- MODULE MCTty -------------------------------
(* An instance for TLC of Tty or of Ring: of the queue of the terminal, or of a ring *)
(* that nothing else shares memory with.                                             *)
EXTENDS Tty

CONSTANTS Size, Bytes, None     \* of Ring

VARIABLES part, ring_head, ring_tail, ring_buffer, ring_buf, unread

R == INSTANCE Ring WITH head <- ring_head, tail <- ring_tail, buffer <- ring_buffer, buf <- ring_buf

ASSUME R!RingAssumption

ring_alone == <<ring_head, ring_tail, ring_buffer, ring_buf, unread>>

PartsInit == part \in {"tty", "ring"} /\ Init /\ R!Init

PartsNext ==
  \/ part = "tty" /\ Next /\ UNCHANGED <<part, ring_alone>>
  \/ part = "ring" /\ R!Next /\ UNCHANGED <<part, vars>>

PartsSpec == PartsInit /\ [][PartsNext]_<<vars, part, ring_alone>>

\* A ring used within its limits is a queue of size + 1 bytes.
RingIsFifo == R!RingIsFifo
=============================================================================
