------------------------------- MODULE Serial -------------------------------
(***************************************************************************)
(* The serial ports (drivers/char/serial.c): the probe of serial_init, and *)
(* debug, which waits for the transmitter of the first port before every   *)
(* character.  debug can be interrupted by a handler that calls debug.     *)
(***************************************************************************)
EXTENDS Naturals, Sequences

CONSTANTS
  Ports,      \* serial_ports
  Com1,       \* the first of them, the one that is written to
  FifoSize    \* bytes the transmitter takes once it is empty

ASSUME SerialAssumption == Com1 \in Ports /\ FifoSize \in Nat /\ FifoSize >= 2

VARIABLES
  port,       \* what is at each address
  probed, faulty,
  fifo,       \* bytes in the transmitter
  writing,    \* one [left, thre, by] per call of debug that goes on, the last first
  overrun     \* history: a byte was written to a transmitter with no room

serial == <<port, probed, faulty, fifo, writing, overrun>>

\* A UART, nothing (every read is 0xff), or something that answers with zeros.
Kinds == {"uart", "absent", "other"}

SerialStart ==
  /\ port \in [Ports -> Kinds]
  /\ probed = FALSE
  /\ faulty = [i \in Ports |-> FALSE]
  /\ fifo = 0 /\ writing = <<>> /\ overrun = FALSE

\* Mutant: the loopback is not looked at.
LoopbackTrusted(i) == TRUE

\* serial_dev_init: the '!' written in loopback mode is read back.
Loopback(i) == port[i] = "uart"

SerialInit ==
  /\ probed' = TRUE
  /\ faulty' = [i \in Ports |-> ~Loopback(i)]
  /\ UNCHANGED <<port, fifo, writing, overrun>>

-----------------------------------------------------------------------------

\* debug(message), called by some code: nothing is written to a faulty port.
Debug(message, code) ==
  /\ writing' = IF faulty[Com1] THEN writing
                ELSE <<[left |-> message, thre |-> FALSE, by |-> code]>> \o writing
  /\ UNCHANGED <<port, probed, faulty, fifo, overrun>>

\* Mutant: room for one byte is enough.
EmptyTransitRoom == fifo < FifoSize

\* serial_empty_transit
EmptyTransit ==
  CASE port[Com1] = "uart" -> fifo = 0
    [] port[Com1] = "absent" -> TRUE
    [] port[Com1] = "other" -> FALSE

SeeEmpty ==
  /\ writing # <<>> /\ ~Head(writing).thre /\ EmptyTransit
  /\ writing' = [writing EXCEPT ![1].thre = TRUE]
  /\ UNCHANGED <<port, probed, faulty, fifo, overrun>>

\* A newline is written as two bytes, with no look at the transmitter between them.
Bytes(char) == IF char = "\n" THEN 2 ELSE 1

WriteChar ==
  /\ writing # <<>> /\ Head(writing).thre
  /\ LET w == Head(writing)
         n == fifo + Bytes(Head(w.left))
     IN  /\ fifo' = IF n <= FifoSize THEN n ELSE FifoSize
         /\ overrun' = (overrun \/ n > FifoSize)
         /\ writing' = IF Len(w.left) = 1 THEN Tail(writing)
                       ELSE <<[left |-> Tail(w.left), thre |-> FALSE, by |-> w.by]>> \o Tail(writing)
  /\ UNCHANGED <<port, probed, faulty>>

\* The UART sends a byte.
Transmit ==
  /\ port[Com1] = "uart" /\ fifo > 0
  /\ fifo' = fifo - 1
  /\ UNCHANGED <<port, probed, faulty, writing, overrun>>

=============================================================================
