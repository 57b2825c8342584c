------------------------------ MODULE Keyboard ------------------------------
(***************************************************************************)
(* The PS/2 keyboard (drivers/char/keyboard/ps2-keyboard.c): keyboard_init *)
(* with the 8042 it talks to, keyboard_port1_irq, and the keys. A byte is  *)
(* the number it is on the port, so that a scancode, the answer to a test  *)
(* and a configuration byte can be taken for one another.                  *)
(*                                                                         *)
(* keyboard_init reads the data port right after a command and never looks *)
(* at the status register: it gets what is first in the output buffer,     *)
(* which may be a scancode, or, when the controller has not answered yet,  *)
(* what it read last.                                                      *)
(***************************************************************************)
EXTENDS Naturals, Sequences, TLC

CONSTANTS
  Keys,        \* keys, each <<prefixed, code>>: those with a prefix send 0xe0 first
  Legend,      \* what is written on those that type: <<plain, with shift>>
  Garbage,     \* bytes that can be on the data port when nobody wrote one
  MaxEvents    \* bound: keys are pressed and released MaxEvents times in all

ASSUME KeyboardAssumption ==
  /\ Keys \subseteq BOOLEAN \X (1 .. 126)
  /\ DOMAIN Legend \subseteq Keys
  /\ Garbage \subseteq 0 .. 255 /\ Garbage # {}
  /\ MaxEvents \in Nat

VARIABLES
  cfg,        \* bits of the 8042's configuration byte: INTR1, INTR2, CLK1, CLK2
  second,     \* the 8042 has a second port
  out,        \* its output buffer, and what waits to go there
  last,       \* the byte last read from the data port
  kbdq,       \* scancodes the keyboard has not sent
  held,       \* keys that are down
  irq1,       \* IRQ1 is requested
  int_flag,   \* IF
  pc,         \* how far keyboard_init is
  is_dual_channel,
  installed,  \* vectors that have the driver's handlers; with the first, tty is tty0
  keyboard_flags,
  read_q,     \* what putc has queued
  typed,      \* history: for each key typed, the characters that will do, by the keys
  events,     \* history: how many
  lapsed,     \* history: flags with a key down, of which another key was released since
  clean       \* history: keyboard_init has read every answer and no scancode

hw   == <<cfg, second, out, last, kbdq, held, irq1, int_flag>>
drv  == <<pc, is_dual_channel, installed, keyboard_flags, read_q>>
hist == <<typed, events, lapsed, clean>>
vars == <<hw, drv, hist>>

-----------------------------------------------------------------------------
\* Scancodes

KEYPRESS_STOP == 128
Code(scancode) == scancode % 128
Released(scancode) == scancode >= KEYPRESS_STOP

\* keyboard_get_scancode_flag, where it is not 0
Flag == [c \in {1, 29, 42, 54, 56} |->
           CASE c = 1 -> "ESC" [] c = 29 -> "CTRL" [] c = 56 -> "ALT" [] OTHER -> "SHIFT"]
HasFlag(scancode) == Code(scancode) \in DOMAIN Flag

\* The two maps up to 0x53; what they hold past 0x7f is at no index the handler uses.
keyboard_map ==
  <<"nul", "esc", "1", "2", "3", "4", "5", "6", "7", "8", "9", "0", "-", "=", "bs", "\t",
    "q", "w", "e", "r", "t", "y", "u", "i", "o", "p", "[", "]", "\n", "nul", "a", "s",
    "d", "f", "g", "h", "j", "k", "l", ";", "'", "bq", "nul", "\\", "z", "x", "c", "v",
    "b", "n", "m", ",", ".", "/", "nul", "*", "nul", " ">>
  \o [i \in 1 .. 13 |-> "nul"] \o
  <<"7", "8", "9", "-", "4", "5", "6", "+", "1", "2", "3", "0", ".">>
shift_map ==
  <<"nul", "esc", "!", "@", "#", "$", "%", "^", "&", "*", "(", ")", "_", "+", "bs", "\t",
    "Q", "W", "E", "R", "T", "Y", "U", "I", "O", "P", "{", "}", "\n", "nul", "A", "S",
    "D", "F", "G", "H", "J", "K", "L", ":", "\"", "~", "nul", "|", "Z", "X", "C", "V",
    "B", "N", "M", "<", ">", "?", "nul", "*", "nul", " ">>
  \o [i \in 1 .. 13 |-> "nul"] \o
  <<"7", "8", "9", "-", "4", "5", "6", "+", "1", "2", "3", "0", ".">>

\* keymap[scancode & 0x7f]
Char(code, shift) ==
  LET keymap == IF shift THEN shift_map ELSE keyboard_map
  IN  IF code < Len(keymap) THEN keymap[code + 1] ELSE "nul"

-----------------------------------------------------------------------------
\* The keyboard

\* What it sends: a key that is released has bit 7.
Scancodes(k, down) ==
  (IF k[1] THEN <<224>> ELSE <<>>) \o <<IF down THEN k[2] ELSE KEYPRESS_STOP + k[2]>>

FlagOf(k) == {Flag[c] : c \in {k[2]} \cap DOMAIN Flag}
FlagsOf(keys) == UNION {FlagOf(k) : k \in keys}

Init ==
  /\ second \in BOOLEAN
  /\ cfg \in SUBSET {"INTR1"}                  \* as the firmware left it
  /\ out = <<>> /\ last \in Garbage /\ kbdq = <<>> /\ held = {}
  /\ irq1 = FALSE /\ int_flag = TRUE
  /\ pc = "boot"
  /\ is_dual_channel = FALSE /\ installed = {} /\ keyboard_flags = {}
  /\ read_q = <<>> /\ typed = <<>> /\ events = 0 /\ lapsed = {} /\ clean = TRUE

Event ==
  /\ events < MaxEvents
  /\ events' = events + 1
  /\ UNCHANGED <<cfg, second, out, last, irq1, int_flag, drv, clean>>

\* Whether a shift key is down; when another one was released since, either will do.
Shifts == {s \in BOOLEAN : "SHIFT" \in lapsed \/ (s <=> "SHIFT" \in FlagsOf(held))}

Press(k) ==
  /\ k \notin held /\ Event
  /\ held' = held \cup {k}
  /\ kbdq' = kbdq \o Scancodes(k, TRUE)
  /\ typed' = IF k \in DOMAIN Legend
              THEN Append(typed, {Legend[k][IF s THEN 2 ELSE 1] : s \in Shifts})
              ELSE typed
  /\ lapsed' = lapsed \ FlagOf(k)

Release(k) ==
  /\ k \in held /\ Event
  /\ held' = held \ {k}
  /\ kbdq' = kbdq \o Scancodes(k, FALSE)
  /\ lapsed' = (lapsed \cup FlagOf(k)) \cap FlagsOf(held')
  /\ UNCHANGED typed

\* 0x00 and 0xff: the keyboard has lost keys.
Overrun ==
  /\ Event
  /\ \E code \in {0, 255} : kbdq' = Append(kbdq, code)
  /\ UNCHANGED <<held, typed, lapsed>>

\* The output buffer is free: the next scancode goes there.
Send ==
  /\ kbdq # <<>> /\ out = <<>> /\ "CLK1" \notin cfg
  /\ out' = <<Head(kbdq)>>
  /\ kbdq' = Tail(kbdq)
  /\ irq1' = (irq1 \/ "INTR1" \in cfg)
  /\ UNCHANGED <<cfg, second, last, held, int_flag, drv, hist>>

-----------------------------------------------------------------------------
\* keyboard_init

Goto(from, to) == pc = from /\ pc' = to

\* What a step of keyboard_init that only talks to the 8042 leaves alone.
Talks == UNCHANGED <<second, kbdq, held, int_flag, installed, keyboard_flags, read_q,
                     typed, events, lapsed>>

\* SEND_CMD and READ_DATA: the controller answers as, the driver reads b.
Exchange(as, b) ==
  /\ \/ /\ b = Head(out \o as)
        /\ out' = Tail(out \o as)
        /\ last' = b
        /\ clean' = (clean /\ out = <<>> /\ Len(as) = 1)
     \/ /\ out = <<>> /\ b = last
        /\ out' = as
        /\ clean' = FALSE
        /\ UNCHANGED last
  /\ irq1' = (irq1 \/ "INTR1" \in cfg)
  /\ Talks

\* What READ_DATA can give when the answer is a.
Readable(a) == {a, last} \cup (IF out = <<>> THEN {} ELSE {Head(out)})

\* The configuration byte: bits 0, 1, 4 and 5, and bits 2 and 6, which are set.
Bit == "INTR1" :> 1 @@ "INTR2" :> 2 @@ "CLK1" :> 16 @@ "CLK2" :> 32
Has(byte, bit) == (byte \div Bit[bit]) % 2 = 1
Config(c) == CHOOSE byte \in 68 .. 119 :
               /\ \A bit \in DOMAIN Bit : Has(byte, bit) <=> bit \in c
               /\ (byte \div 4) % 2 = 1 /\ (byte \div 8) % 2 = 0

CriticalEnter == int_flag' = FALSE

\* What the commands make of the configuration.
FirstEnable(c) == c \ {"CLK1"}
SecondEnable(c) == IF second THEN c \ {"CLK2"} ELSE c
SecondDisable(c) == IF second THEN c \cup {"CLK2"} ELSE c

\* keyboard_first_disable and keyboard_second_disable, which both disable the
\* second port.
Disable ==
  /\ Goto("boot", "ctrl_test")
  /\ CriticalEnter
  /\ cfg' = SecondDisable(cfg)
  /\ UNCHANGED <<second, out, last, kbdq, held, irq1, is_dual_channel, installed,
                 keyboard_flags, read_q, hist>>

\* A test command: it goes on to next, or returns -EIO without critical_exit.
Test(from, next, answers, passing) ==
  /\ pc = from
  /\ \E a \in answers : \E b \in Readable(a) :
       Exchange(<<a>>, b) /\ pc' = IF b \in passing THEN next ELSE "failed"
  /\ UNCHANGED <<cfg, is_dual_channel>>

CONTROLLER_TEST_PASS == 85
CONTROLLER_TEST_FAIL == 252
PORT_TEST_PASS == 0

\* keyboard_ctrl_test: an answer that is not CONTROLLER_TEST_FAIL passes.
CtrlTest ==
  Test("ctrl_test", "port_test", {CONTROLLER_TEST_PASS, CONTROLLER_TEST_FAIL},
       (0 .. 255) \ {CONTROLLER_TEST_FAIL})

\* What keyboard_test_print_err knows the name of; it says "unknown" of the others.
PortErrors == 1 .. 4

\* keyboard_first_port_test: anything but FISRT_PORT_TEST_PASS fails.
PortTest ==
  Test("port_test", "channel", {PORT_TEST_PASS} \cup PortErrors, {PORT_TEST_PASS})

\* keyboard_channel_test
ChannelTest ==
  LET enabled == SecondEnable(cfg)
      a == Config(IF second THEN enabled ELSE enabled \cup {"CLK2"})
  IN  /\ Goto("channel", "enable")
      /\ cfg' = enabled
      /\ \E b \in Readable(a) : Exchange(<<a>>, b) /\ is_dual_channel' = ~Has(b, "CLK2")

\* keyboard_first_enable and, with two channels, keyboard_second_enable
Enable ==
  /\ Goto("enable", "intr1")
  /\ cfg' = IF is_dual_channel THEN SecondEnable(FirstEnable(cfg)) ELSE FirstEnable(cfg)
  /\ UNCHANGED <<out, last, irq1, is_dual_channel, clean>>
  /\ Talks

\* keyboard_first_intr_flag_set and, with two channels, the second. When the bit
\* is clear the new byte goes to the command port: the configuration stays as it
\* is, and the controller may have something to answer to it.
IntrFlag(from, to, bit) ==
  /\ Goto(from, to)
  /\ \E b \in Readable(Config(cfg)) :
       \/ Exchange(<<Config(cfg)>>, b)
       \/ ~Has(b, bit) /\ \E g \in Garbage : Exchange(<<Config(cfg), g>>, b)
  /\ UNCHANGED <<cfg, is_dual_channel>>

FirstIntrFlag == IntrFlag("intr1", IF is_dual_channel THEN "intr2" ELSE "install", "INTR1")
SecondIntrFlag == IntrFlag("intr2", "install", "INTR2")

\* interrupt_install, tty_lookup(0), critical_exit
Install ==
  /\ Goto("install", "done")
  /\ installed' = {33} \cup IF is_dual_channel THEN {44} ELSE {}
  /\ int_flag' = TRUE
  /\ UNCHANGED <<cfg, second, out, last, kbdq, held, irq1, is_dual_channel, keyboard_flags,
                 read_q, hist>>

KeyboardInit ==
  \/ Disable \/ CtrlTest \/ PortTest \/ ChannelTest \/ Enable
  \/ FirstIntrFlag \/ SecondIntrFlag \/ Install

\* sched_queue ends with critical_exit, whatever keyboard_init returned.
SchedQueue ==
  /\ Goto("failed", "failed_on")
  /\ int_flag' = TRUE
  /\ UNCHANGED <<cfg, second, out, last, kbdq, held, irq1, is_dual_channel, installed,
                 keyboard_flags, read_q, hist>>

-----------------------------------------------------------------------------
\* IRQ1

\* 0x00 and 0xff are not looked at.
Ignored(b) == b \in {0, 255}

\* Mutant: a released modifier is taken for a pressed one.
PressedAlways(flags, scancode) == flags \cup {Flag[Code(scancode)]}

\* keyboard_flags after the scancode of a key that has a flag
Flags(flags, scancode) ==
  IF Released(scancode) THEN flags \ {Flag[Code(scancode)]} ELSE flags \cup {Flag[Code(scancode)]}

\* Mutant: a character when the key is released.
TypesReleased(scancode) == Released(scancode)

\* The scancode gives the tty a character.
Types(scancode) == ~Released(scancode)

\* What keyboard_port1_irq makes of keyboard_flags, and of the queue, past the status check.
FlagsAfter(b, flags) == IF ~Ignored(b) /\ HasFlag(b) THEN Flags(flags, b) ELSE flags
QueueAfter(b, flags, q) ==
  IF ~Ignored(b) /\ ~HasFlag(b) /\ Types(b) THEN Append(q, Char(Code(b), "SHIFT" \in flags)) ELSE q

Scancode(b) ==
  /\ keyboard_flags' = FlagsAfter(b, keyboard_flags)
  /\ read_q' = QueueAfter(b, keyboard_flags, read_q)

\* Mutant: the status is tested for another bit, that of a command on its way.
StatusInput == FALSE

\* KEYBOARD_STATUS_OUTPUT
StatusOutput == out # <<>>

\* interrupt_handler(33); without a handler the scancode stays in the buffer.
Irq1 ==
  /\ int_flag /\ irq1
  /\ IF 33 \in installed /\ StatusOutput
     THEN /\ Scancode(Head(out))
          /\ last' = Head(out)
          /\ out' = Tail(out)
          /\ irq1' = (Tail(out) # <<>> /\ "INTR1" \in cfg)
     ELSE /\ irq1' = FALSE
          /\ UNCHANGED <<last, out, keyboard_flags, read_q>>
  /\ UNCHANGED <<cfg, second, kbdq, held, int_flag, pc, is_dual_channel, installed, hist>>

Next ==
  \/ \E k \in Keys : Press(k) \/ Release(k)
  \/ Overrun \/ Send
  \/ KeyboardInit \/ SchedQueue
  \/ Irq1

Spec == Init /\ [][Next]_vars

\* The keyboard sends, the driver goes on, a request is taken when IF is set.
FairSpec ==
  Spec /\ WF_vars(Send) /\ WF_vars(KeyboardInit \/ SchedQueue) /\ WF_vars(Irq1)

-----------------------------------------------------------------------------

TypeOK ==
  /\ cfg \subseteq DOMAIN Bit /\ second \in BOOLEAN
  /\ Len(out) <= 3 /\ held \subseteq Keys
  /\ irq1 \in BOOLEAN /\ int_flag \in BOOLEAN
  /\ pc \in {"boot", "ctrl_test", "port_test", "channel", "enable", "intr1", "intr2",
             "install", "done", "failed", "failed_on"}
  /\ is_dual_channel \in BOOLEAN /\ installed \subseteq {33, 44} /\ clean \in BOOLEAN
  /\ keyboard_flags \cup lapsed \subseteq {Flag[c] : c \in DOMAIN Flag}
  /\ events \in 0 .. MaxEvents

Settled == pc = "done" /\ clean /\ kbdq = <<>> /\ out = <<>>

\* What is queued for the tty is what is written on the keys that were typed, in
\* order, each shifted as the shift keys were when it was pressed and not when the
\* interrupt came. (Left open is a key typed with one shift key down after the other
\* was released: see FlagsTrackHeld.)
CharsAsTyped ==
  clean => /\ Len(read_q) <= Len(typed)
           /\ \A i \in 1 .. Len(read_q) : read_q[i] \in typed[i]
           /\ Settled => Len(read_q) = Len(typed)

\* Once every scancode is in no flag is stuck: each is that of a key that is down. A
\* key that is down has its flag, but for one of two shift keys if the other was
\* released since.
FlagsAreHeldKeys ==
  Settled => /\ keyboard_flags \subseteq FlagsOf(held)
             /\ FlagsOf(held) \ lapsed \subseteq keyboard_flags

\* ps2-keyboard.c:120: keyboard_flags keep track of which such keys are held.
FlagsTrackHeld == Settled => keyboard_flags = FlagsOf(held)

\* A key that is down during the boot makes keyboard_init fail or is lost, but
\* never leaves the keyboard dead behind a keyboard_init that succeeded.
KeysGetThrough ==
  (installed # {} /\ "INTR1" \in cfg) ~> (kbdq = <<>> /\ out = <<>>)

-----------------------------------------------------------------------------
(* The inductive invariant of KeyboardProofs, but for what is on its way. *)

\* The maps have what is written on the keys; a key with a flag types nothing.
LegendsMatch ==
  \A k \in Keys :
    IF HasFlag(k[2]) THEN k \notin DOMAIN Legend
    ELSE k \in DOMAIN Legend /\ Legend[k] = <<Char(k[2], FALSE), Char(k[2], TRUE)>>

FlagNames == {Flag[c] : c \in DOMAIN Flag}

HeldInv == held \subseteq Keys /\ lapsed \subseteq FlagNames

\* While clean, only scancodes are in the 8042's buffer.
ScancodesInv ==
  /\ kbdq \in Seq(0 .. 255) /\ clean \in BOOLEAN
  /\ clean => out \in Seq(0 .. 255)

=============================================================================
