-------------------------------- MODULE Fifo --------------------------------
(* What a ring_buffer promises: the bytes written, in order, each read once. *)
EXTENDS Naturals, Sequences

CONSTANTS
  Bytes,
  Room,   \* bytes it holds
  None    \* nothing has been read

VARIABLES
  queue,   \* written and not yet read
  buf      \* what the last read returned

vars == <<queue, buf>>

Init == queue = <<>> /\ buf = None

Write(ch) ==
  /\ Len(queue) < Room
  /\ queue' = Append(queue, ch)
  /\ UNCHANGED buf

Read(len) ==
  /\ len <= Len(queue)
  /\ buf' = SubSeq(queue, 1, len)
  /\ queue' = SubSeq(queue, len + 1, Len(queue))

Next == \/ \E ch \in Bytes : Write(ch)
        \/ \E len \in 1 .. Room : Read(len)

Spec == Init /\ [][Next]_vars

=============================================================================
