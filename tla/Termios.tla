------------------------------ MODULE Termios ------------------------------
(***************************************************************************)
(* The settings of a tty: the flags of include/jamix/tty.h as the bits of  *)
(* their words, and what termios_init (drivers/tty/tty_io.c) stores in     *)
(* struct termios (include/jamix/termios.h).                               *)
(***************************************************************************)
EXTENDS Naturals

c_iflag ==
  [BRKINT |-> {0}, ICRNL |-> {1}, IGNBRK |-> {2}, IGNCR |-> {3}, IGNPAR |-> {4}, INLCR |-> {5},
   INPCK |-> {6}, ISTRIP |-> {7}, IUCLC |-> {8}, IXANY |-> {9}, IXOFF |-> {10}, IXON |-> {11},
   PARMRK |-> {12}]
c_oflag ==
  [OPOST |-> {0}, OLCUC |-> {1}, ONLCR |-> {2}, OCRNL |-> {3}, ONOCR |-> {4}, ONLRET |-> {5},
   OFILL |-> {6}, OFDEL |-> {7}, NLDLY |-> {8}, CRDLY |-> {9, 10}, TABDLY |-> {11, 12},
   BSDLY |-> {13}, VTDLY |-> {14}, FFDLY |-> {15}]
c_cflag ==
  [CSIZE |-> {4, 5}, CSTOPB |-> {6}, CREAD |-> {7}, PARENB |-> {8}, PARODD |-> {9},
   HUPCL |-> {10}, CLOCAL |-> {11}]
c_lflag ==
  [ISIG |-> {0}, ICANON |-> {1}, XCASE |-> {2}, ECHO |-> {3}, ECHOE |-> {4}, ECHOK |-> {5},
   ECHONL |-> {6}, ECHOCTL |-> {9}, NOFLSH |-> {7}, TOSTOP |-> {8}, IEXTEN |-> {9}]

\* The values of the fields of more than one bit, or of bits that say a delay.
CSize == [CS5 |-> {}, CS6 |-> {4}, CS7 |-> {5}, CS8 |-> {4, 5}]
Delays ==
  [NLDLY |-> {{}, {8}}, CRDLY |-> {{}, {9}, {10}, {9, 10}}, TABDLY |-> {{}, {11}, {12}, {11, 12}},
   BSDLY |-> {{}, {13}}, FFDLY |-> {{}, {15}}, VTDLY |-> {{}, {14}}]

\* Indices of c_cc, and its size.
ControlChars ==
  [VEOF |-> 1, VEOL |-> 2, VERASE |-> 3, VINTR |-> 4, VKILL |-> 5, VMIN |-> 6, VQUIT |-> 7,
   VSTART |-> 8, VSTOP |-> 9, VSUSP |-> 10, VTIME |-> 11, VWERASE |-> 12]
NCCS == 19

-----------------------------------------------------------------------------

Or(word, flags) == UNION {word[f] : f \in flags}

\* termios_init; the characters of VERASE, VMIN and VTIME are given as they are,
\* the others are what Control makes of a letter, @ being 64.
TermiosInit ==
  [iflag |-> Or(c_iflag, {"BRKINT", "ICRNL", "IXON", "IXANY"}),
   oflag |-> Or(c_oflag, {"OPOST", "ONLCR"}),
   cflag |-> Or(c_cflag, {"CREAD", "HUPCL"}) \cup CSize.CS8,
   lflag |-> Or(c_lflag, {"ISIG", "IEXTEN", "ICANON", "ECHO", "ECHOE"})]
Control(char) == (char + 128 - 64) % 128
ControlInit ==
  [VEOF |-> Control(68), VEOL |-> Control(63), VERASE |-> 8, VINTR |-> Control(67),
   VKILL |-> Control(85), VMIN |-> 1, VQUIT |-> Control(92), VSTART |-> Control(81),
   VSTOP |-> Control(83), VSUSP |-> Control(90), VTIME |-> 0]

\* What a reader of a word finds set.
On(word, bits) == {f \in DOMAIN word : word[f] \subseteq bits}

\* No flag or field of a word shares a bit with another, but for two: a terminal
\* that is told IEXTEN echoes control characters too.  A field's values stay in it,
\* every character is stored in c_cc, in a place of its own, and all those that can
\* be typed are different.
SettingsHold ==
  /\ \A w \in {c_iflag, c_oflag, c_cflag, c_lflag} : \A f, g \in DOMAIN w :
       f = g \/ w[f] \cap w[g] = {} \/ {f, g} = {"ECHOCTL", "IEXTEN"}
  /\ \A f \in DOMAIN Delays : UNION Delays[f] = c_oflag[f]
  /\ UNION {CSize[s] : s \in DOMAIN CSize} = c_cflag.CSIZE
  /\ On(c_iflag, TermiosInit.iflag) = {"BRKINT", "ICRNL", "IXON", "IXANY"}
  /\ On(c_oflag, TermiosInit.oflag) = {"OPOST", "ONLCR"}
  /\ On(c_cflag, TermiosInit.cflag) = {"CREAD", "CSIZE", "HUPCL"}
  /\ On(c_lflag, TermiosInit.lflag) = {"ISIG", "IEXTEN", "ICANON", "ECHO", "ECHOE", "ECHOCTL"}
  /\ \A f \in DOMAIN ControlChars : ControlChars[f] \in 0 .. NCCS - 1
  /\ \A f, g \in DOMAIN ControlInit :
       f # g => /\ ControlChars[f] # ControlChars[g]
                /\ {f, g} \cap {"VMIN", "VTIME"} # {} \/ ControlInit[f] # ControlInit[g]

=============================================================================
