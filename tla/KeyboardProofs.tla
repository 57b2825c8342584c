--------------------------- MODULE KeyboardProofs ---------------------------
(***************************************************************************)
(* What holds of the keyboard for any keys and any order of presses,       *)
(* releases and interrupts.                                                *)
(*                                                                         *)
(* The scancodes on their way are a queue, and keyboard_port1_irq is what  *)
(* takes from its front.  The invariant says where the handler, run over   *)
(* all of them, would bring the driver: to the flags and the characters    *)
(* that the keys themselves make.                                          *)
(***************************************************************************)
EXTENDS Keyboard, SequenceTheorems, TLAPS

Byte == 0 .. 255
Symbols == {Char(c, TRUE) : c \in 0 .. 127} \cup {Char(c, FALSE) : c \in 0 .. 127}
States == (SUBSET FlagNames) \X Seq(Symbols)

\* Scancode b of k, behind its prefix if it has one.
Bytes(k, b) == (IF k[1] THEN <<224>> ELSE <<>>) \o <<b>>

\* The handler on the flags and the queue.
After(b, st) == <<FlagsAfter(b, st[1]), QueueAfter(b, st[1], st[2])>>

\* q begins with p.
Begins(p, q) == Len(p) <= Len(q) /\ \A j \in 1 .. Len(p) : p[j] = q[j]

\* The scancodes of s bring the driver from a to z, by way of the states of r.
Way(r, s, a, z) ==
  /\ r[0] = a /\ r[Len(s)] = z
  /\ \A i \in 1 .. Len(s) : r[i] = After(s[i], r[i - 1])
  /\ \A i \in 0 .. Len(s) : Begins(r[i][2], z[2])
Leads(s, a, z) == \E r \in [0 .. Len(s) -> States] : Way(r, s, a, z)

Flight == out \o kbdq

\* The flags where the handler gets to: a flag goes with the first of its keys that is
\* released, and comes back with the next one pressed.
Latched == FlagsOf(held) \ lapsed

\* Every character is one of those that will do for the key.
Fitting(q, t) ==
  /\ t \in Seq(SUBSET Symbols) /\ Len(q) = Len(t)
  /\ \A i \in 1 .. Len(q) : q[i] \in t[i]

FlightInv ==
  clean => \E q \in Seq(Symbols) :
             /\ Leads(Flight, <<keyboard_flags, read_q>>, <<Latched, q>>)
             /\ LegendsMatch => Fitting(q, typed)

Inv == HeldInv /\ ScancodesInv /\ FlightInv

-----------------------------------------------------------------------------
\* Scancodes

LEMMA FlagDomain == DOMAIN Flag = {1, 29, 42, 54, 56}
  BY DEF Flag

LEMMA CodeFacts ==
  /\ \A c \in 1 .. 126 : Code(c) = c /\ Code(KEYPRESS_STOP + c) = c
                         /\ ~Released(c) /\ Released(KEYPRESS_STOP + c)
                         /\ c \in Byte /\ KEYPRESS_STOP + c \in Byte
                         /\ ~Ignored(c) /\ ~Ignored(KEYPRESS_STOP + c)
  /\ \A b \in Byte : Code(b) \in 0 .. 127
  /\ Code(224) = 96 /\ Released(224)
  BY DEF Code, Released, KEYPRESS_STOP, Byte, Ignored

LEMMA CharSymbol == \A b \in Byte, flags \in SUBSET FlagNames :
                      Char(Code(b), "SHIFT" \in flags) \in Symbols
<1> TAKE b \in Byte, flags \in SUBSET FlagNames
<1>1. Code(b) \in 0 .. 127
      BY CodeFacts
<1> DEFINE shift == "SHIFT" \in flags
<1>2. shift = TRUE \/ shift = FALSE
      OBVIOUS
<1>3. Char(Code(b), TRUE) \in Symbols /\ Char(Code(b), FALSE) \in Symbols
      BY <1>1, Zenon DEF Symbols
<1> HIDE DEF shift
<1>4. Char(Code(b), shift) \in Symbols
      BY <1>2, <1>3, Zenon
<1>q. QED
      BY <1>4, Zenon DEF shift

\* What the handler makes of a state is a state.
LEMMA AfterType ==
  ASSUME NEW b \in Byte, NEW st \in States
  PROVE  After(b, st) \in States
<1>1. st[1] \in SUBSET FlagNames /\ st[2] \in Seq(Symbols)
      BY DEF States
<1>2. FlagsAfter(b, st[1]) \in SUBSET FlagNames
      BY <1>1 DEF FlagsAfter, Flags, FlagNames, HasFlag
<1>3. Char(Code(b), "SHIFT" \in st[1]) \in Symbols
      BY <1>1, CharSymbol, Zenon
<1>4. QueueAfter(b, st[1], st[2]) \in Seq(Symbols)
      BY <1>1, <1>3 DEF QueueAfter
<1>q. QED
      BY <1>2, <1>4 DEF After, States

\* The handler only adds to the queue.
LEMMA AfterBegins ==
  ASSUME NEW b \in Byte, NEW st \in States
  PROVE  Begins(st[2], After(b, st)[2])
<1>1. st[2] \in Seq(Symbols)
      BY DEF States
<1>2. After(b, st)[2] = QueueAfter(b, st[1], st[2])
      BY DEF After
<1>3. CASE QueueAfter(b, st[1], st[2]) = st[2]
      BY <1>1, <1>2, <1>3 DEF Begins
<1>4. CASE QueueAfter(b, st[1], st[2]) # st[2]
  <2>1. PICK c \in Symbols : QueueAfter(b, st[1], st[2]) = Append(st[2], c)
    <3>1. st[1] \in SUBSET FlagNames
          BY DEF States
    <3>2. Char(Code(b), "SHIFT" \in st[1]) \in Symbols
          BY <3>1, CharSymbol, Zenon
    <3>3. QueueAfter(b, st[1], st[2]) = Append(st[2], Char(Code(b), "SHIFT" \in st[1]))
          BY <1>4, Zenon DEF QueueAfter
    <3>q. QED
          BY <3>2, <3>3, Zenon
  <2>q. QED
        BY <1>1, <1>2, <2>1 DEF Begins
<1>q. QED
      BY <1>3, <1>4

-----------------------------------------------------------------------------
\* Scancodes on their way

LEMMA SomeState == \E z : z \in States
<1> DEFINE none == <<>>
<1>1. none \in Seq(Symbols)
      BY EmptySeq, Zenon
<1> HIDE DEF none
<1>2. <<{}, none>> \in States
      BY <1>1 DEF States
<1>q. QED
      BY <1>2

\* Nothing on its way: the driver is there.
LEMMA LeadsNone ==
  ASSUME NEW a \in States
  PROVE  Leads(<<>>, a, a)
<1> DEFINE r == [i \in 0 .. 0 |-> a]
           none == <<>>
<1>1. Len(none) = 0 /\ r \in [0 .. 0 -> States] /\ r[0] = a
      OBVIOUS
<1>2. Begins(a[2], a[2])
      BY DEF Begins, States
<1> HIDE DEF r, none
<1>3. \A i \in 0 .. 0 : Begins(r[i][2], a[2])
      BY <1>1, <1>2
<1>4. Way(r, none, a, a)
      BY <1>1, <1>3 DEF Way
<1>5. Leads(none, a, a)
      BY <1>1, <1>4 DEF Leads
<1>q. QED
      BY <1>5 DEF none

\* A scancode more: the state to come is the handler's answer to it.
LEMMA LeadsAppend ==
  ASSUME NEW s \in Seq(Byte), NEW b \in Byte, NEW a, NEW z \in States, Leads(s, a, z)
  PROVE  Leads(Append(s, b), a, After(b, z))
<1>0. PICK n \in Nat : n = Len(s)
      OBVIOUS
<1>1. PICK r \in [0 .. n -> States] : Way(r, s, a, z)
      BY <1>0 DEF Leads
<1> DEFINE t == [i \in 0 .. n + 1 |-> IF i = n + 1 THEN After(b, z) ELSE r[i]]
           e == Append(s, b)
<1>2. Len(e) = n + 1 /\ e[n + 1] = b /\ \A i \in 1 .. n : e[i] = s[i]
      BY <1>0
<1>3. t \in [0 .. n + 1 -> States]
      BY <1>0, AfterType
<1>4. t[n + 1] = After(b, z) /\ \A i \in 0 .. n : t[i] = r[i]
      BY <1>0
<1> HIDE DEF t, e
<1>5. t[0] = a /\ t[n] = z
      BY <1>0, <1>1, <1>4 DEF Way
<1>6. \A i \in 1 .. n + 1 : t[i] = After(e[i], t[i - 1])
  <2> TAKE i \in 1 .. n + 1
  <2>1. CASE i = n + 1
        BY <1>0, <1>2, <1>4, <1>5, <2>1
  <2>2. CASE i # n + 1
    <3>1. i \in 1 .. n /\ i - 1 \in 0 .. n /\ i \in 0 .. n
          BY <1>0, <2>2
    <3>q. QED
          BY <1>0, <1>1, <1>2, <1>4, <3>1 DEF Way
  <2>q. QED
        BY <2>1, <2>2
<1>7. \A i \in 0 .. n + 1 : Begins(t[i][2], After(b, z)[2])
  <2> TAKE i \in 0 .. n + 1
  <2>0. After(b, z)[2] \in Seq(Symbols) /\ z[2] \in Seq(Symbols)
        BY AfterType DEF States
  <2>1. CASE i = n + 1
        BY <1>4, <2>0, <2>1 DEF Begins
  <2>2. CASE i # n + 1
    <3>1. i \in 0 .. n
          BY <1>0, <2>2
    <3>2. Begins(t[i][2], z[2]) /\ t[i][2] \in Seq(Symbols)
          BY <1>0, <1>1, <1>4, <3>1 DEF Way, States
    <3>3. Begins(z[2], After(b, z)[2])
          BY AfterBegins
    <3>q. QED
          BY <2>0, <3>2, <3>3, SMTT(30) DEF Begins
  <2>q. QED
        BY <2>1, <2>2
<1>q. QED
  <2>1. t[Len(e)] = After(b, z)
        BY <1>2, <1>4
  <2>2. Way(t, e, a, After(b, z))
        BY <1>2, <1>5, <1>6, <1>7, <2>1 DEF Way
  <2>q. QED
        BY <1>2, <1>3, <2>2 DEF Leads, e

\* A scancode less: the handler has had it.
LEMMA LeadsTail ==
  ASSUME NEW s \in Seq(Byte), s # <<>>, NEW a \in States, NEW z \in States, Leads(s, a, z)
  PROVE  Leads(Tail(s), After(Head(s), a), z)
<1>0. PICK n \in Nat : n + 1 = Len(s)
  <2>1. Len(s) \in Nat /\ Len(s) # 0
        BY EmptySeq
  <2>2. Len(s) - 1 \in Nat
        BY <2>1
  <2>q. QED
        BY <2>1, <2>2
<1>1. PICK r \in [0 .. n + 1 -> States] : Way(r, s, a, z)
      BY <1>0 DEF Leads
<1> DEFINE t == [i \in 0 .. n |-> r[i + 1]]
           e == Tail(s)
<1>2. Len(e) = n /\ Head(s) = s[1] /\ \A i \in 1 .. n : e[i] = s[i + 1]
      BY <1>0, HeadTailProperties
<1>3. t \in [0 .. n -> States]
      BY <1>0
<1>4. \A i \in 0 .. n : t[i] = r[i + 1]
      OBVIOUS
<1> HIDE DEF t, e
<1>5. t[0] = After(Head(s), a) /\ t[n] = z
      BY <1>0, <1>1, <1>2, <1>4 DEF Way
<1>6. \A i \in 1 .. n : t[i] = After(e[i], t[i - 1])
  <2> TAKE i \in 1 .. n
  <2>1. i + 1 \in 1 .. Len(s) /\ i - 1 \in 0 .. n /\ i \in 0 .. n /\ (i + 1) - 1 = i /\ (i - 1) + 1 = i
        BY <1>0
  <2>2. r[i + 1] = After(s[i + 1], r[i])
        BY <1>1, <2>1 DEF Way
  <2>q. QED
        BY <1>2, <1>4, <2>1, <2>2
<1>7. \A i \in 0 .. n : Begins(t[i][2], z[2])
      BY <1>0, <1>1, <1>4 DEF Way
<1>8. Way(t, e, After(Head(s), a), z)
      BY <1>2, <1>5, <1>6, <1>7 DEF Way
<1>q. QED
      BY <1>2, <1>3, <1>8 DEF Leads, e

-----------------------------------------------------------------------------
\* Keys

LEMMA KeyFacts ==
  \A k \in Keys : k[1] \in BOOLEAN /\ k[2] \in 1 .. 126
  BY KeyboardAssumption

LEMMA FlagOfFacts ==
  ASSUME NEW k \in Keys
  PROVE  /\ FlagOf(k) = IF HasFlag(k[2]) THEN {Flag[k[2]]} ELSE {}
         /\ FlagOf(k) \subseteq FlagNames
<1>1. Code(k[2]) = k[2]
      BY KeyFacts, CodeFacts
<1>2. CASE k[2] \in DOMAIN Flag
  <2>1. {k[2]} \cap DOMAIN Flag = {k[2]}
        BY <1>2
  <2>q. QED
        BY <1>1, <1>2, <2>1 DEF FlagOf, HasFlag, FlagNames
<1>3. CASE k[2] \notin DOMAIN Flag
  <2>1. {k[2]} \cap DOMAIN Flag = {}
        BY <1>3
  <2>q. QED
        BY <1>1, <1>3, <2>1 DEF FlagOf, HasFlag
<1>q. QED
      BY <1>2, <1>3

\* The prefix of a key, and the scancodes of a keyboard that has lost keys, do nothing.
LEMMA PrefixNothing ==
  ASSUME NEW z \in States, NEW b \in {0, 224, 255}
  PROVE  After(b, z) = z
<1>1. ~(~Ignored(b) /\ HasFlag(b))
      BY CodeFacts, FlagDomain DEF HasFlag, Ignored
<1>2. ~(~Ignored(b) /\ Types(b))
      BY CodeFacts DEF Types, Ignored
<1>3. FlagsAfter(b, z[1]) = z[1]
      BY <1>1, Zenon DEF FlagsAfter
<1>4. QueueAfter(b, z[1], z[2]) = z[2]
      BY <1>2, Zenon DEF QueueAfter
<1>q. QED
      BY <1>3, <1>4 DEF After, States

\* Sequences joined one element at a time.
LEMMA JoinOne ==
  ASSUME NEW s \in Seq(Byte), NEW b \in Byte
  PROVE  s \o <<b>> = Append(s, b) /\ <<b>> \in Seq(Byte)
<1>1. <<b>> \in Seq(Byte)
      OBVIOUS
<1>q. QED
      BY <1>1, AppendIsConcat, Zenon

LEMMA JoinTwo ==
  ASSUME NEW s \in Seq(Byte), NEW b \in Byte, NEW c \in Byte
  PROVE  s \o (<<b>> \o <<c>>) = Append(Append(s, b), c) /\ <<b>> \o <<c>> \in Seq(Byte)
<1>1. <<b>> \in Seq(Byte) /\ <<c>> \in Seq(Byte) /\ Append(s, b) \in Seq(Byte)
      BY JoinOne
<1> DEFINE u == <<b>>
           v == <<c>>
<1>2. u \in Seq(Byte) /\ v \in Seq(Byte)
      BY <1>1
<1>3. s \o u = Append(s, b) /\ Append(s, b) \o v = Append(Append(s, b), c)
      BY <1>1, JoinOne, Zenon
<1> HIDE DEF u, v
<1>4. s \o (u \o v) = (s \o u) \o v
      BY <1>2, ConcatAssociative
<1>5. u \o v \in Seq(Byte)
      BY <1>2, ConcatProperties
<1>6. s \o (u \o v) = Append(Append(s, b), c)
      BY <1>3, <1>4, Zenon
<1>q. QED
      BY <1>5, <1>6 DEF u, v

\* The scancodes of a key bring the driver where the last of them does.
LEMMA KeyLeads ==
  ASSUME NEW k \in Keys, NEW c \in {k[2], KEYPRESS_STOP + k[2]}, NEW codes,
         codes = Bytes(k, c),
         NEW s \in Seq(Byte), NEW a, NEW z \in States, Leads(s, a, z)
  PROVE  Leads(s \o codes, a, After(c, z)) /\ codes \in Seq(Byte)
<1>0. c \in Byte /\ 224 \in Byte
  <2>1. k[2] \in 1 .. 126
        BY KeyFacts, Zenon
  <2>2. \A m \in 1 .. 126 : m \in Byte /\ KEYPRESS_STOP + m \in Byte
        BY ONLY DEF Byte, KEYPRESS_STOP
  <2>3. 224 \in Byte
        BY ONLY DEF Byte
  <2>q. QED
        BY <2>1, <2>2, <2>3, ZenonT(30)
<1>1. CASE k[1]
  <2>1. codes = <<224>> \o <<c>>
        BY <1>1, Zenon DEF Bytes
  <2>2. s \o codes = Append(Append(s, 224), c) /\ codes \in Seq(Byte)
    <3>1. PICK prefix \in Byte : prefix = 224
          BY <1>0
    <3>2. /\ s \o (<<prefix>> \o <<c>>) = Append(Append(s, prefix), c)
          /\ <<prefix>> \o <<c>> \in Seq(Byte)
          BY <1>0, JoinTwo, Zenon
    <3>q. QED
          BY <2>1, <3>1, <3>2, Zenon
  <2>3. Leads(Append(s, 224), a, z) /\ Append(s, 224) \in Seq(Byte)
    <3>1. After(224, z) = z
          BY PrefixNothing
    <3>2. Leads(Append(s, 224), a, After(224, z))
          BY <1>0, LeadsAppend, Zenon
    <3>3. Append(s, 224) \in Seq(Byte)
          BY <1>0
    <3>q. QED
          BY <3>1, <3>2, <3>3, Zenon
  <2>4. Leads(Append(Append(s, 224), c), a, After(c, z))
        BY <1>0, <2>3, LeadsAppend, Zenon
  <2>q. QED
        BY <2>2, <2>4, Zenon
<1>2. CASE ~k[1]
  <2>1. codes = <<c>>
    <3>1. <<c>> \in Seq(Byte)
          BY <1>0, JoinOne
    <3>2. codes = <<>> \o <<c>>
          BY <1>2, Zenon DEF Bytes
    <3>q. QED
          BY <3>1, <3>2, ConcatEmptySeq, Zenon
  <2>2. s \o codes = Append(s, c) /\ codes \in Seq(Byte)
        BY <1>0, <2>1, JoinOne, Zenon
  <2>3. Leads(Append(s, c), a, After(c, z))
        BY <1>0, LeadsAppend, Zenon
  <2>q. QED
        BY <2>2, <2>3, Zenon
<1>q. QED
      BY <1>1, <1>2

\* What a key that is pressed or released makes of a state.
LEMMA KeyAfter ==
  ASSUME NEW k \in Keys, NEW z \in States
  PROVE  /\ After(k[2], z)[1] = z[1] \cup FlagOf(k)
         /\ After(k[2], z)[2] = IF HasFlag(k[2]) THEN z[2]
                                ELSE Append(z[2], Char(k[2], "SHIFT" \in z[1]))
         /\ After(KEYPRESS_STOP + k[2], z)[1] = z[1] \ FlagOf(k)
         /\ After(KEYPRESS_STOP + k[2], z)[2] = z[2]
<1> DEFINE c == k[2]
           d == KEYPRESS_STOP + k[2]
<1>1. /\ Code(c) = c /\ Code(d) = c /\ ~Released(c) /\ Released(d)
      /\ ~Ignored(c) /\ ~Ignored(d)
      BY KeyFacts, CodeFacts
<1>2. HasFlag(d) <=> HasFlag(c)
      BY <1>1 DEF HasFlag
<1> HIDE DEF d
<1>3. FlagOf(k) = IF HasFlag(c) THEN {Flag[c]} ELSE {}
      BY FlagOfFacts
<1>4. FlagsAfter(c, z[1]) = z[1] \cup FlagOf(k)
      BY <1>1, <1>3 DEF FlagsAfter, Flags
<1>5. FlagsAfter(d, z[1]) = z[1] \ FlagOf(k)
      BY <1>1, <1>2, <1>3 DEF FlagsAfter, Flags
<1>6. QueueAfter(c, z[1], z[2]) = IF HasFlag(c) THEN z[2] ELSE Append(z[2], Char(c, "SHIFT" \in z[1]))
      BY <1>1, Zenon DEF QueueAfter, Types
<1>7. QueueAfter(d, z[1], z[2]) = z[2]
      BY <1>1, Zenon DEF QueueAfter, Types
<1>q. QED
      BY <1>4, <1>5, <1>6, <1>7, Zenon DEF After, d


-----------------------------------------------------------------------------
\* The invariant

LEMMA LeadsType ==
  ASSUME NEW s \in Seq(Byte), NEW a, NEW z, Leads(s, a, z)
  PROVE  a \in States /\ z \in States
<1>1. PICK r \in [0 .. Len(s) -> States] : Way(r, s, a, z)
      BY DEF Leads
<1>2. 0 \in 0 .. Len(s) /\ Len(s) \in 0 .. Len(s)
      OBVIOUS
<1>q. QED
      BY <1>1, <1>2 DEF Way

LEMMA FlightType == Inv /\ clean => /\ out \in Seq(Byte) /\ kbdq \in Seq(Byte)
                                    /\ Flight \in Seq(Byte)
<1> SUFFICES ASSUME Inv, clean PROVE out \in Seq(Byte) /\ kbdq \in Seq(Byte) /\ Flight \in Seq(Byte)
      OBVIOUS
<1>1. out \in Seq(Byte) /\ kbdq \in Seq(Byte)
      BY DEF Inv, ScancodesInv, Byte
<1>q. QED
      BY <1>1, ConcatProperties DEF Flight

LEMMA InitInv == Init => Inv
<1> SUFFICES ASSUME Init PROVE Inv
      OBVIOUS
<1>1. HeldInv
      BY DEF Init, HeldInv
<1>2. ScancodesInv
      BY DEF Init, ScancodesInv
<1>3. FlightInv
  <2> DEFINE none == <<>>
             start == <<{}, none>>
  <2>1. Flight = <<>>
        BY DEF Init, Flight
  <2>2. none \in Seq(Symbols) /\ start \in States
    <3>1. none \in Seq(Symbols)
          BY EmptySeq, Zenon
    <3>2. {} \in SUBSET FlagNames
          OBVIOUS
    <3> HIDE DEF none
    <3>q. QED
          BY <3>1, <3>2 DEF States
  <2>3. Leads(Flight, start, start)
        BY <2>1, <2>2, LeadsNone, Zenon
  <2>4. keyboard_flags = {} /\ read_q = none /\ Latched = {} /\ typed = none
        BY DEF Init, Latched, FlagsOf
  <2>5. Leads(Flight, <<keyboard_flags, read_q>>, <<Latched, none>>)
        BY <2>3, <2>4, Zenon
  <2>6. none \in Seq(SUBSET Symbols) /\ Len(none) = 0
        BY EmptySeq, Zenon
  <2> HIDE DEF none
  <2>7. Fitting(none, typed)
        BY <2>4, <2>6 DEF Fitting
  <2>q. QED
        BY <2>2, <2>5, <2>7, Zenon DEF FlightInv
<1>q. QED
      BY <1>1, <1>2, <1>3 DEF Inv

\* A step that leaves the keys and the driver alone, and the scancodes in their order.
LEMMA Kept ==
  ASSUME Inv, UNCHANGED <<held, lapsed, typed, keyboard_flags, read_q>>, clean' \in BOOLEAN,
         clean' => clean, kbdq' \in Seq(Byte), clean' => out' \in Seq(Byte) /\ Flight' = Flight
  PROVE  Inv'
<1>1. HeldInv'
      BY DEF Inv, HeldInv
<1>2. ScancodesInv'
      BY DEF ScancodesInv, Byte
<1>3. ASSUME clean'
      PROVE  \E q \in Seq(Symbols) :
               /\ Leads(Flight', <<keyboard_flags', read_q'>>, <<Latched', q>>)
               /\ LegendsMatch => Fitting(q, typed')
  <2>1. PICK q \in Seq(Symbols) :
               /\ Leads(Flight, <<keyboard_flags, read_q>>, <<Latched, q>>)
               /\ LegendsMatch => Fitting(q, typed)
        BY <1>3 DEF Inv, FlightInv
  <2>2. Flight' = Flight /\ keyboard_flags' = keyboard_flags /\ read_q' = read_q
        /\ Latched' = Latched /\ typed' = typed
        BY <1>3 DEF Latched
  <2>q. QED
        BY <2>1, <2>2, Zenon
<1>4. FlightInv'
      BY <1>3 DEF FlightInv
<1>q. QED
      BY <1>1, <1>2, <1>4 DEF Inv

\* While nothing is mistaken, keyboard_init reads the answer to its own command.
LEMMA ExchangeKept ==
  ASSUME Inv, NEW X, NEW as \in Seq(X), NEW b, Exchange(as, b)
  PROVE  Inv'
<1>1. UNCHANGED <<held, lapsed, typed, keyboard_flags, read_q, kbdq>> /\ clean' \in BOOLEAN
      BY DEF Exchange, Talks
<1>2. clean' => clean /\ out = <<>> /\ Len(as) = 1 /\ out' = Tail(out \o as)
      BY DEF Exchange
<1>3. clean' => out' = <<>>
  <2> SUFFICES ASSUME clean' PROVE out' = <<>>
        OBVIOUS
  <2>1. out = <<>> /\ Len(as) = 1 /\ out' = Tail(out \o as)
        BY <1>2
  <2>2. out' = Tail(as)
        BY <2>1, ConcatEmptySeq
  <2>3. as # <<>>
    <3> SUFFICES ASSUME as = <<>> PROVE FALSE
          OBVIOUS
    <3>1. Len(as) = 0
          BY EmptySeq, Zenon
    <3>q. QED
          BY <2>1, <3>1
  <2>4. Tail(as) \in Seq(X) /\ Len(Tail(as)) = Len(as) - 1
        BY <2>3, HeadTailProperties, Zenon
  <2>5. Len(Tail(as)) = 0
        BY <2>1, <2>4
  <2>q. QED
        BY <2>2, <2>4, <2>5, EmptySeq
<1>4. kbdq' \in Seq(Byte)
      BY <1>1 DEF Inv, ScancodesInv, Byte
<1>5. clean' => out' \in Seq(Byte) /\ Flight' = Flight
      BY <1>1, <1>2, <1>3 DEF Flight
<1>q. QED
      BY <1>1, <1>2, <1>4, <1>5, Kept


\* A scancode the controller takes from the keyboard stays on its way.
LEMMA SendKept == Inv /\ Send => Inv'
<1> SUFFICES ASSUME Inv, Send PROVE Inv'
      OBVIOUS
<1>1. UNCHANGED <<held, lapsed, typed, keyboard_flags, read_q, clean>>
      BY DEF Send, drv, hist
<1>2. out = <<>> /\ kbdq # <<>> /\ out' = <<Head(kbdq)>> /\ kbdq' = Tail(kbdq)
      BY DEF Send
<1>3. kbdq \in Seq(Byte) /\ clean' \in BOOLEAN
      BY <1>1 DEF Inv, ScancodesInv, Byte
<1>4. Head(kbdq) \in Byte /\ kbdq' \in Seq(Byte)
      BY <1>2, <1>3, HeadTailProperties
<1>5. out' \in Seq(Byte)
      BY <1>2, <1>4
<1>6. Flight' = Flight
  <2>1. Flight = kbdq
        BY <1>2, <1>3, ConcatEmptySeq DEF Flight
  <2>2. <<Head(kbdq)>> \o Tail(kbdq) = kbdq
        BY <1>2, <1>3
  <2>q. QED
        BY <1>2, <2>1, <2>2 DEF Flight
<1>q. QED
      BY <1>1, <1>3, <1>4, <1>5, <1>6, Kept

LEMMA LatchedType == HeldInv => Latched \in SUBSET FlagNames
<1> SUFFICES ASSUME HeldInv PROVE Latched \subseteq FlagNames
      OBVIOUS
<1>1. \A k \in held : FlagOf(k) \subseteq FlagNames
      BY FlagOfFacts DEF HeldInv
<1>q. QED
      BY <1>1 DEF Latched, FlagsOf

\* The handler's shift is one of those that will do.
LEMMA LatchedShift == ("SHIFT" \in Latched) \in Shifts
<1>1. "SHIFT" \in lapsed \/ ("SHIFT" \in Latched <=> "SHIFT" \in FlagsOf(held))
      BY DEF Latched
<1>2. ("SHIFT" \in Latched) \in BOOLEAN
      OBVIOUS
<1>q. QED
      BY <1>1, <1>2, Zenon DEF Shifts

LEMMA FittingAppend ==
  ASSUME NEW q \in Seq(Symbols), NEW t, Fitting(q, t), NEW w \in SUBSET Symbols, NEW c \in w
  PROVE  Fitting(Append(q, c), Append(t, w))
<1>1. /\ t \in Seq(SUBSET Symbols) /\ Len(q) = Len(t) /\ \A i \in 1 .. Len(q) : q[i] \in t[i]
      BY DEF Fitting
<1>2. /\ Append(t, w) \in Seq(SUBSET Symbols) /\ Len(Append(t, w)) = Len(t) + 1
      /\ Append(t, w)[Len(t) + 1] = w /\ \A i \in 1 .. Len(t) : Append(t, w)[i] = t[i]
      BY <1>1
<1>3. /\ Len(Append(q, c)) = Len(q) + 1
      /\ Append(q, c)[Len(q) + 1] = c /\ \A i \in 1 .. Len(q) : Append(q, c)[i] = q[i]
      OBVIOUS
<1>4. Len(q) \in Nat /\ \A i \in 1 .. Len(q) + 1 : i \in 1 .. Len(q) \/ i = Len(q) + 1
      OBVIOUS
<1>q. QED
      BY <1>1, <1>2, <1>3, <1>4 DEF Fitting

\* The keys' steps but for what they do to the history.
LEMMA KeyKept ==
  ASSUME Inv, HeldInv', NEW codes, NEW b,
         UNCHANGED <<out, clean, keyboard_flags, read_q>>, kbdq' = kbdq \o codes,
         codes \in Seq(Byte),
         \A s \in Seq(Byte) : \A a, z \in States : Leads(s, a, z) => Leads(s \o codes, a, After(b, z)),
         \A q \in Seq(Symbols) :
           After(b, <<Latched, q>>) \in States /\ After(b, <<Latched, q>>)[1] = Latched',
         \A q \in Seq(Symbols) : LegendsMatch /\ Fitting(q, typed) => Fitting(After(b, <<Latched, q>>)[2], typed')
  PROVE  Inv'
<1>1. kbdq \in Seq(Byte) /\ kbdq' \in Seq(Byte)
  <2>1. kbdq \in Seq(Byte)
        BY DEF Inv, ScancodesInv, Byte
  <2>q. QED
        BY <2>1, ConcatProperties
<1>2. ScancodesInv'
      BY <1>1 DEF Inv, ScancodesInv, Byte
<1>3. ASSUME clean'
      PROVE  \E q \in Seq(Symbols) :
               /\ Leads(Flight', <<keyboard_flags', read_q'>>, <<Latched', q>>)
               /\ LegendsMatch => Fitting(q, typed')
  <2>0. clean
        BY <1>3
  <2>1. PICK q \in Seq(Symbols) :
               /\ Leads(Flight, <<keyboard_flags, read_q>>, <<Latched, q>>)
               /\ LegendsMatch => Fitting(q, typed)
        BY <2>0 DEF Inv, FlightInv
  <2>2. out \in Seq(Byte) /\ Flight \in Seq(Byte)
        BY <2>0, FlightType
  <2>3. Flight' = Flight \o codes
        BY <1>1, <2>2, ConcatAssociative, SMTT(30) DEF Flight
  <2>4. <<keyboard_flags, read_q>> \in States /\ <<Latched, q>> \in States
        BY <2>1, <2>2, LeadsType, Zenon
  <2> DEFINE z == After(b, <<Latched, q>>)
  <2>5. Leads(Flight \o codes, <<keyboard_flags, read_q>>, z)
        BY <2>1, <2>2, <2>4, Zenon
  <2>6. z \in States /\ z[1] = Latched' /\ (LegendsMatch => Fitting(z[2], typed'))
        BY <2>1, Zenon
  <2> HIDE DEF z
  <2>7. z = <<Latched', z[2]>> /\ z[2] \in Seq(Symbols)
        BY <2>6 DEF States
  <2>8. Leads(Flight', <<keyboard_flags', read_q'>>, z)
        BY <2>3, <2>5, Zenon
  <2>q. QED
        BY <2>6, <2>7, <2>8, Zenon
<1>4. FlightInv'
      BY <1>3 DEF FlightInv
<1>q. QED
      BY <1>2, <1>4 DEF Inv

LEMMA HeadTailJoin ==
  ASSUME NEW s \in Seq(Byte), s # <<>>, NEW t \in Seq(Byte)
  PROVE  s \o t # <<>> /\ Head(s \o t) = Head(s) /\ Tail(s \o t) = Tail(s) \o t
<1>0. Len(s) \in Nat \ {0} /\ Len(t) \in Nat
      BY EmptySeq
<1>1. /\ s \o t \in Seq(Byte) /\ Len(s \o t) = Len(s) + Len(t)
      /\ \A i \in 1 .. Len(s) + Len(t) : (s \o t)[i] = IF i <= Len(s) THEN s[i] ELSE t[i - Len(s)]
      BY ConcatProperties
<1>2. s \o t # <<>>
      BY <1>0, <1>1
<1>3. /\ Tail(s) \in Seq(Byte) /\ Len(Tail(s)) = Len(s) - 1
      /\ \A i \in 1 .. Len(Tail(s)) : Tail(s)[i] = s[i + 1]
      BY HeadTailProperties
<1>4. /\ Tail(s \o t) \in Seq(Byte) /\ Len(Tail(s \o t)) = Len(s \o t) - 1
      /\ \A i \in 1 .. Len(Tail(s \o t)) : Tail(s \o t)[i] = (s \o t)[i + 1]
      BY <1>1, <1>2, HeadTailProperties
<1> DEFINE u == Tail(s)
           j == s \o t
<1>5. /\ u \o t \in Seq(Byte) /\ Len(u \o t) = Len(u) + Len(t)
      /\ \A i \in 1 .. Len(u) + Len(t) : (u \o t)[i] = IF i <= Len(u) THEN u[i] ELSE t[i - Len(u)]
      BY <1>3, ConcatProperties
<1>6. Head(j) = j[1] /\ Head(s) = s[1]
      BY <1>1, <1>2
<1> HIDE DEF u, j
<1>7. Head(j) = Head(s)
      BY <1>0, <1>1, <1>6 DEF j
<1> DEFINE v == u \o t
           w == Tail(j)
<1>7a. /\ \A i \in 1 .. Len(u) + Len(t) : v[i] = IF i <= Len(u) THEN u[i] ELSE t[i - Len(u)]
       /\ \A i \in 1 .. Len(w) : w[i] = j[i + 1]
       /\ Len(w) = Len(s) + Len(t) - 1 /\ Len(u) = Len(s) - 1
      BY <1>0, <1>1, <1>3, <1>4, <1>5 DEF u, j
<1>7b. Len(v) = Len(s) + Len(t) - 1 /\ v \in Seq(Byte) /\ w \in Seq(Byte)
      BY <1>0, <1>1, <1>3, <1>4, <1>5 DEF u, j
<1> HIDE DEF v, w
<1>8. \A i \in 1 .. Len(s) + Len(t) - 1 : v[i] = w[i]
  <2> TAKE i \in 1 .. Len(s) + Len(t) - 1
  <2>1. v[i] = IF i <= Len(s) - 1 THEN u[i] ELSE t[i - (Len(s) - 1)]
        BY <1>0, <1>7a
  <2>2. w[i] = j[i + 1]
        BY <1>0, <1>7a
  <2>3. j[i + 1] = IF i + 1 <= Len(s) THEN s[i + 1] ELSE t[i + 1 - Len(s)]
        BY <1>0, <1>1 DEF j
  <2>4. i <= Len(s) - 1 => u[i] = s[i + 1]
        BY <1>0, <1>3 DEF u
  <2>5. i - (Len(s) - 1) = i + 1 - Len(s)
        BY <1>0
  <2>6. CASE i <= Len(s) - 1
        BY <1>0, <2>1, <2>2, <2>3, <2>4, <2>6
  <2>7. CASE ~(i <= Len(s) - 1)
    <3>1. v[i] = t[i - (Len(s) - 1)] /\ w[i] = t[i + 1 - Len(s)]
          BY <1>0, <2>1, <2>2, <2>3, <2>7
    <3>q. QED
          BY <2>5, <3>1
  <2>q. QED
        BY <2>6, <2>7
<1>10. v = w
      BY <1>7a, <1>7b, <1>8, SeqEqual
<1>q. QED
      BY <1>2, <1>7, <1>10, Zenon DEF u, j, v, w

\* The interrupt takes the first scancode on its way.
LEMMA Irq1Kept == Inv /\ Irq1 => Inv'
<1> SUFFICES ASSUME Inv, Irq1 PROVE Inv'
      OBVIOUS
<1>0. UNCHANGED <<held, lapsed, typed, clean, kbdq>>
      BY DEF Irq1, hist
<1>0a. kbdq' \in Seq(Byte) /\ clean' \in BOOLEAN
      BY <1>0 DEF Inv, ScancodesInv, Byte
<1>1. CASE 33 \in installed /\ StatusOutput
  <2>0. out # <<>> /\ out' = Tail(out) /\ Scancode(Head(out))
        BY <1>1 DEF Irq1, StatusOutput
  <2>1. HeldInv'
        BY <1>0 DEF Inv, HeldInv
  <2>2. ScancodesInv'
        BY <1>0, <2>0, HeadTailProperties DEF Inv, ScancodesInv
  <2>3. ASSUME clean'
        PROVE  \E q \in Seq(Symbols) :
                 /\ Leads(Flight', <<keyboard_flags', read_q'>>, <<Latched', q>>)
                 /\ LegendsMatch => Fitting(q, typed')
    <3>0. clean
          BY <1>0, <2>3
    <3>1. PICK q \in Seq(Symbols) :
                 /\ Leads(Flight, <<keyboard_flags, read_q>>, <<Latched, q>>)
                 /\ LegendsMatch => Fitting(q, typed)
          BY <3>0 DEF Inv, FlightInv
    <3>2. out \in Seq(Byte) /\ kbdq \in Seq(Byte) /\ Flight \in Seq(Byte)
          BY <3>0, FlightType
    <3>3. Flight # <<>> /\ Head(Flight) = Head(out) /\ Tail(Flight) = Flight'
      <4>1. Tail(out) \o kbdq = Tail(out \o kbdq) /\ Head(out \o kbdq) = Head(out) /\ out \o kbdq # <<>>
            BY <2>0, <3>2, HeadTailJoin
      <4>q. QED
            BY <1>0, <2>0, <4>1 DEF Flight
    <3> DEFINE a == <<keyboard_flags, read_q>>
    <3>4. a \in States /\ <<Latched, q>> \in States
          BY <3>1, <3>2, LeadsType, Zenon
    <3>5. Leads(Flight', After(Head(out), a), <<Latched, q>>)
          BY <3>1, <3>2, <3>3, <3>4, LeadsTail, Zenon
    <3>6. After(Head(out), a) = <<keyboard_flags', read_q'>>
          BY <2>0 DEF Scancode, After
    <3>7. Latched' = Latched
          BY <1>0 DEF Latched
    <3>q. QED
          BY <1>0, <3>1, <3>5, <3>6, <3>7, Zenon
  <2>4. FlightInv'
        BY <2>3 DEF FlightInv
  <2>q. QED
        BY <2>1, <2>2, <2>4 DEF Inv
<1>2. CASE ~(33 \in installed /\ StatusOutput)
  <2>1. UNCHANGED <<out, keyboard_flags, read_q>>
        BY <1>2 DEF Irq1
  <2>2. Flight' = Flight
        BY <1>0, <2>1 DEF Flight
  <2>3. clean' => out' \in Seq(Byte)
        BY <1>0, <2>1 DEF Inv, ScancodesInv, Byte
  <2>q. QED
        BY <1>0, <1>0a, <2>1, <2>2, <2>3, Kept
<1>q. QED
      BY <1>1, <1>2


\* A key that is pressed.
LEMMA PressKept == ASSUME NEW k \in Keys PROVE Inv /\ Press(k) => Inv'
<1> SUFFICES ASSUME Inv, Press(k) PROVE Inv'
      OBVIOUS
<1> DEFINE codes == Scancodes(k, TRUE)
           b == k[2]
<1>1. UNCHANGED <<out, clean, keyboard_flags, read_q>> /\ kbdq' = kbdq \o codes
      BY DEF Press, Event, drv
<1>2. /\ lapsed' = lapsed \ FlagOf(k) /\ held' = held \cup {k}
      /\ typed' = IF k \in DOMAIN Legend
                  THEN Append(typed, {Legend[k][IF s THEN 2 ELSE 1] : s \in Shifts})
                  ELSE typed
      BY DEF Press
<1>2a. Latched' = Latched \cup FlagOf(k)
  <2>1. FlagsOf(held') = FlagsOf(held) \cup FlagOf(k)
        BY <1>2 DEF FlagsOf
  <2>q. QED
        BY <1>2, <2>1 DEF Latched
<1>3. HeldInv'
      BY <1>2, FlagOfFacts DEF Inv, HeldInv
<1>4. codes = Bytes(k, b)
      BY DEF Scancodes, Bytes
<1>5. ASSUME NEW s \in Seq(Byte), NEW a \in States, NEW z \in States, Leads(s, a, z)
      PROVE  Leads(s \o codes, a, After(b, z))
      BY <1>4, <1>5, KeyLeads, Zenon
<1>6. codes \in Seq(Byte)
  <2>1. PICK z : z \in States
        BY SomeState, Zenon
  <2>2. Leads(<<>>, z, z) /\ <<>> \in Seq(Byte)
        BY <2>1, LeadsNone, EmptySeq, Zenon
  <2>q. QED
        BY <1>4, <2>1, <2>2, KeyLeads, Zenon
<1>7. b \in Byte
      BY KeyFacts DEF Byte
<1>7a. \A s \in BOOLEAN : Char(b, s) \in Symbols
  <2>1. b \in 0 .. 127
        BY KeyFacts
  <2>2. Char(b, TRUE) \in Symbols /\ Char(b, FALSE) \in Symbols
        BY <2>1, Zenon DEF Symbols
  <2>3. \A s \in BOOLEAN : s = TRUE \/ s = FALSE
        OBVIOUS
  <2>q. QED
        BY <2>2, <2>3, Zenon
<1>8. ASSUME NEW q \in Seq(Symbols)
      PROVE  After(b, <<Latched, q>>) \in States /\ After(b, <<Latched, q>>)[1] = Latched'
  <2>1. <<Latched, q>> \in States
        BY LatchedType DEF States, Inv
  <2>2. After(b, <<Latched, q>>)[1] = <<Latched, q>>[1] \cup FlagOf(k)
        BY <2>1, KeyAfter, Zenon
  <2>q. QED
        BY <1>2a, <1>7, <2>1, <2>2, AfterType
<1>9. ASSUME NEW q \in Seq(Symbols), LegendsMatch, Fitting(q, typed)
      PROVE  Fitting(After(b, <<Latched, q>>)[2], typed')
  <2>0. <<Latched, q>> \in States
        BY LatchedType DEF States, Inv
  <2>1. After(b, <<Latched, q>>)[2] = IF HasFlag(b) THEN q ELSE Append(q, Char(b, "SHIFT" \in Latched))
    <3> DEFINE z == <<Latched, q>>
    <3>1. z[1] = Latched /\ z[2] = q
          OBVIOUS
    <3>2. After(b, z)[2] = IF HasFlag(b) THEN z[2] ELSE Append(z[2], Char(b, "SHIFT" \in z[1]))
          BY <2>0, KeyAfter, Zenon
    <3> HIDE DEF z
    <3>3. After(b, z)[2] = IF HasFlag(b) THEN q ELSE Append(q, Char(b, "SHIFT" \in Latched))
          BY <3>1, <3>2, Zenon
    <3>q. QED
          BY <3>3, Zenon DEF z
  <2>2. CASE HasFlag(b)
    <3>1. k \notin DOMAIN Legend
          BY <1>9, <2>2, Zenon DEF LegendsMatch
    <3>q. QED
          BY <1>2, <1>9, <2>1, <2>2, <3>1, Zenon
  <2>3. CASE ~HasFlag(b)
    <3> DEFINE c == Char(b, "SHIFT" \in Latched)
               w == {Legend[k][IF s THEN 2 ELSE 1] : s \in Shifts}
    <3>1. k \in DOMAIN Legend /\ Legend[k] = <<Char(b, FALSE), Char(b, TRUE)>>
          BY <1>9, <2>3, Zenon DEF LegendsMatch
    <3>2. \A s \in BOOLEAN : Legend[k][IF s THEN 2 ELSE 1] = Char(b, s)
      <4>1. Legend[k][1] = Char(b, FALSE) /\ Legend[k][2] = Char(b, TRUE)
            BY <3>1
      <4>2. \A s \in BOOLEAN : s = TRUE \/ s = FALSE
            OBVIOUS
      <4>q. QED
            BY <4>1, <4>2, Zenon
    <3>3. w = {Char(b, s) : s \in Shifts} /\ Shifts \subseteq BOOLEAN
      <4>1. Shifts \subseteq BOOLEAN
            BY Zenon DEF Shifts
      <4>q. QED
            BY <3>2, <4>1, Zenon
    <3>4. c \in w
      <4>1. ("SHIFT" \in Latched) \in Shifts
            BY LatchedShift, Zenon
      <4>q. QED
            BY <3>3, <4>1, Zenon
    <3>5. w \in SUBSET Symbols
      <4>1. \A s \in BOOLEAN : Char(b, s) \in Symbols
            BY <1>7a, Zenon
      <4>q. QED
            BY <3>3, <4>1, Zenon
    <3>6. typed' = Append(typed, w) /\ After(b, <<Latched, q>>)[2] = Append(q, c)
          BY <1>2, <2>1, <2>3, <3>1, Zenon
    <3>7. c \in Symbols
          BY <3>4, <3>5, Zenon
    <3> HIDE DEF c, w
    <3>8. Fitting(Append(q, c), Append(typed, w))
          BY <1>9, <3>4, <3>5, <3>7, FittingAppend, Zenon
    <3>q. QED
          BY <3>6, <3>8, Zenon
  <2>q. QED
        BY <2>2, <2>3
<1> HIDE DEF codes, b
<1>q. QED
      BY <1>1, <1>3, <1>5, <1>6, <1>8, <1>9, KeyKept, Zenon


\* A key that is released.
LEMMA ReleaseKept == ASSUME NEW k \in Keys PROVE Inv /\ Release(k) => Inv'
<1> SUFFICES ASSUME Inv, Release(k) PROVE Inv'
      OBVIOUS
<1> DEFINE codes == Scancodes(k, FALSE)
           b == KEYPRESS_STOP + k[2]
<1>1. UNCHANGED <<out, clean, keyboard_flags, read_q>> /\ kbdq' = kbdq \o codes
      BY DEF Release, Event, drv
<1>2. /\ lapsed' = (lapsed \cup FlagOf(k)) \cap FlagsOf(held')
      /\ held' = held \ {k} /\ typed' = typed /\ k \in held
      BY DEF Release
<1>2a. Latched' = Latched \ FlagOf(k)
  <2>1. FlagsOf(held) = FlagsOf(held') \cup FlagOf(k)
        BY <1>2 DEF FlagsOf
  <2>q. QED
        BY <1>2, <2>1 DEF Latched
<1>3. HeldInv'
      BY <1>2, FlagOfFacts DEF Inv, HeldInv
<1>4. codes = Bytes(k, b)
      BY DEF Scancodes, Bytes
<1>5. ASSUME NEW s \in Seq(Byte), NEW a \in States, NEW z \in States, Leads(s, a, z)
      PROVE  Leads(s \o codes, a, After(b, z))
      BY <1>4, <1>5, KeyLeads, Zenon
<1>6. codes \in Seq(Byte)
  <2>1. PICK z : z \in States
        BY SomeState, Zenon
  <2>2. Leads(<<>>, z, z) /\ <<>> \in Seq(Byte)
        BY <2>1, LeadsNone, EmptySeq, Zenon
  <2>q. QED
        BY <1>4, <2>1, <2>2, KeyLeads, Zenon
<1>7. b \in Byte
      BY KeyFacts DEF Byte, KEYPRESS_STOP
<1>8. ASSUME NEW q \in Seq(Symbols)
      PROVE  /\ After(b, <<Latched, q>>) \in States
             /\ After(b, <<Latched, q>>)[1] = Latched' /\ After(b, <<Latched, q>>)[2] = q
  <2> DEFINE z == <<Latched, q>>
  <2>1. z \in States /\ z[1] = Latched /\ z[2] = q
        BY LatchedType DEF States, Inv
  <2> HIDE DEF z
  <2>2. After(b, z)[1] = z[1] \ FlagOf(k) /\ After(b, z)[2] = z[2]
        BY <2>1, KeyAfter, Zenon
  <2> HIDE DEF b
  <2>3. After(b, z) \in States /\ After(b, z)[1] = Latched' /\ After(b, z)[2] = q
        BY <1>2a, <1>7, <2>1, <2>2, AfterType
  <2>q. QED
        BY <2>3 DEF z
<1>9. ASSUME NEW q \in Seq(Symbols), LegendsMatch, Fitting(q, typed)
      PROVE  Fitting(After(b, <<Latched, q>>)[2], typed')
      BY <1>2, <1>8, <1>9, Zenon
<1> HIDE DEF codes, b
<1>q. QED
      BY <1>1, <1>3, <1>5, <1>6, <1>8, <1>9, KeyKept, Zenon


\* A keyboard that has lost keys.
LEMMA OverrunKept == Inv /\ Overrun => Inv'
<1> SUFFICES ASSUME Inv, Overrun PROVE Inv'
      OBVIOUS
<1>1. PICK b \in Byte : b \in {0, 255} /\ kbdq' = Append(kbdq, b)
      BY DEF Overrun, Byte
<1>2. UNCHANGED <<out, clean, keyboard_flags, read_q, held, lapsed, typed>>
      BY DEF Overrun, Event, drv
<1>2a. Latched' = Latched
      BY <1>2 DEF Latched
<1>3. kbdq \in Seq(Byte)
      BY DEF Byte, Inv, ScancodesInv
<1> DEFINE codes == <<b>>
<1>4. codes \in Seq(Byte) /\ kbdq' = kbdq \o codes
      BY <1>1, <1>3, JoinOne, Zenon
<1>5. ASSUME NEW s \in Seq(Byte), NEW a \in States, NEW z \in States, Leads(s, a, z)
      PROVE  Leads(s \o codes, a, After(b, z))
  <2>1. s \o codes = Append(s, b)
        BY <1>3, JoinOne, Zenon
  <2>q. QED
        BY <1>3, <1>5, <2>1, LeadsAppend, Zenon
<1> HIDE DEF codes
<1>6. ASSUME NEW q \in Seq(Symbols)
      PROVE  /\ After(b, <<Latched, q>>) \in States
             /\ After(b, <<Latched, q>>)[1] = Latched' /\ After(b, <<Latched, q>>)[2] = q
  <2> DEFINE z == <<Latched, q>>
  <2>1. z \in States /\ z[1] = Latched /\ z[2] = q
        BY LatchedType DEF States, Inv
  <2> HIDE DEF z
  <2>2. After(b, z) = z
        BY <1>1, <2>1, PrefixNothing
  <2>3. After(b, z) \in States /\ After(b, z)[1] = Latched' /\ After(b, z)[2] = q
        BY <1>2a, <2>1, <2>2, Zenon
  <2>q. QED
        BY <2>3 DEF z
<1>7. HeldInv'
      BY <1>2 DEF Inv, HeldInv
<1>8. ASSUME NEW q \in Seq(Symbols), LegendsMatch, Fitting(q, typed)
      PROVE  Fitting(After(b, <<Latched, q>>)[2], typed')
      BY <1>2, <1>6, <1>8, Zenon
<1>9. ASSUME NEW q \in Seq(Symbols)
      PROVE  After(b, <<Latched, q>>) \in States /\ After(b, <<Latched, q>>)[1] = Latched'
      BY <1>6, Zenon
<1>10. UNCHANGED <<out, clean, keyboard_flags, read_q>>
      BY <1>2, Zenon
<1>q. QED
      BY <1>4, <1>5, <1>7, <1>8, <1>9, <1>10, KeyKept, Zenon

\* keyboard_init
LEMMA InitKept == Inv /\ (KeyboardInit \/ SchedQueue) => Inv'
<1>1. ASSUME Inv, UNCHANGED <<held, lapsed, typed, keyboard_flags, read_q, clean, kbdq, out>>
      PROVE  Inv'
  <2>1. clean' \in BOOLEAN /\ kbdq' \in Seq(Byte) /\ (clean' => out' \in Seq(Byte))
        BY <1>1 DEF Inv, ScancodesInv, Byte
  <2>2. Flight' = Flight
        BY <1>1 DEF Flight
  <2>q. QED
        BY <1>1, <2>1, <2>2, Kept
<1>2. ASSUME Inv, NEW a, NEW b, Exchange(<<a>>, b) PROVE Inv'
  <2>1. <<a>> \in Seq({a})
        OBVIOUS
  <2>q. QED
        BY <1>2, <2>1, ExchangeKept, Zenon
<1>3. ASSUME Inv, NEW a, NEW g, NEW b, Exchange(<<a, g>>, b) PROVE Inv'
  <2>1. <<a, g>> \in Seq({a, g})
        OBVIOUS
  <2>q. QED
        BY <1>3, <2>1, ExchangeKept, Zenon
<1>4. ASSUME Inv, Disable PROVE Inv'
      BY <1>1, <1>4 DEF Disable, hist
<1>5. ASSUME Inv, CtrlTest PROVE Inv'
      BY <1>2, <1>5, Zenon DEF CtrlTest, Test
<1>6. ASSUME Inv, PortTest PROVE Inv'
      BY <1>2, <1>6, Zenon DEF PortTest, Test
<1>7. ASSUME Inv, ChannelTest PROVE Inv'
      BY <1>2, <1>7, Zenon DEF ChannelTest
<1>8. ASSUME Inv, Enable PROVE Inv'
      BY <1>1, <1>8 DEF Enable, Talks
<1>9. ASSUME Inv, FirstIntrFlag \/ SecondIntrFlag PROVE Inv'
  <2>1. ASSUME NEW from, NEW to, NEW bit, IntrFlag(from, to, bit) PROVE Inv'
    <3>1. PICK b : \/ Exchange(<<Config(cfg)>>, b)
                   \/ \E g \in Garbage : Exchange(<<Config(cfg), g>>, b)
          BY <2>1, Zenon DEF IntrFlag
    <3>2. CASE Exchange(<<Config(cfg)>>, b)
          BY <1>2, <1>9, <3>2, Zenon
    <3>3. CASE \E g \in Garbage : Exchange(<<Config(cfg), g>>, b)
          BY <1>3, <1>9, <3>3, Zenon
    <3>q. QED
          BY <3>1, <3>2, <3>3
  <2>q. QED
        BY <1>9, <2>1, Zenon DEF FirstIntrFlag, SecondIntrFlag
<1>10. ASSUME Inv, Install PROVE Inv'
      BY <1>1, <1>10 DEF Install, hist
<1>11. ASSUME Inv, SchedQueue PROVE Inv'
      BY <1>1, <1>11 DEF SchedQueue, hist
<1>q. QED
      BY <1>4, <1>5, <1>6, <1>7, <1>8, <1>9, <1>10, <1>11 DEF KeyboardInit

LEMMA InvStep == Inv /\ [Next]_vars => Inv'
<1> SUFFICES ASSUME Inv, [Next]_vars PROVE Inv'
      OBVIOUS
<1>1. ASSUME UNCHANGED vars PROVE Inv'
  <2>1. UNCHANGED <<held, lapsed, typed, keyboard_flags, read_q, clean, kbdq, out>>
        BY <1>1 DEF vars, hw, drv, hist
  <2>2. clean' \in BOOLEAN /\ kbdq' \in Seq(Byte) /\ (clean' => out' \in Seq(Byte))
        BY <2>1 DEF Inv, ScancodesInv, Byte
  <2>3. Flight' = Flight
        BY <2>1 DEF Flight
  <2>q. QED
        BY <2>1, <2>2, <2>3, Kept
<1>q. QED
      BY <1>1, PressKept, ReleaseKept, OverrunKept, SendKept, InitKept, Irq1Kept, Zenon DEF Next

LEMMA InvAlways == Spec => []Inv
  BY InitInv, InvStep, PTL DEF Spec

-----------------------------------------------------------------------------

\* With nothing on its way the driver is where the keys are.
LEMMA Arrived ==
  ASSUME Inv, clean, out = <<>>, kbdq = <<>>
  PROVE  keyboard_flags = Latched /\ (LegendsMatch => Fitting(read_q, typed))
<1>1. PICK q \in Seq(Symbols) :
             /\ Leads(Flight, <<keyboard_flags, read_q>>, <<Latched, q>>)
             /\ LegendsMatch => Fitting(q, typed)
      BY DEF Inv, FlightInv
<1>2. Flight = <<>>
  <2>1. out \in Seq(Byte)
        BY FlightType
  <2>q. QED
        BY <2>1, ConcatEmptySeq, Zenon DEF Flight
<1> DEFINE a == <<keyboard_flags, read_q>>
           z == <<Latched, q>>
           none == <<>>
<1>3. Leads(none, a, z)
      BY <1>1, <1>2, Zenon
<1>4. Len(none) = 0
      BY EmptySeq, Zenon
<1> HIDE DEF a, z, none
<1>5. a = z
      BY <1>3, <1>4 DEF Leads, Way
<1>6. keyboard_flags = Latched /\ read_q = q
      BY <1>5 DEF a, z
<1>q. QED
      BY <1>1, <1>6, Zenon

\* For any keys and any order of events: once every scancode is in, no flag is stuck,
\* and each key that is down has its flag, but for one of several keys of a flag when
\* another of them was released since.
THEOREM FlagsFollowKeys == Spec => []FlagsAreHeldKeys
<1>1. Inv => FlagsAreHeldKeys
  <2> SUFFICES ASSUME Inv, Settled PROVE /\ keyboard_flags \subseteq FlagsOf(held)
                                         /\ FlagsOf(held) \ lapsed \subseteq keyboard_flags
        BY DEF FlagsAreHeldKeys
  <2>1. keyboard_flags = Latched
        BY Arrived DEF Settled
  <2>q. QED
        BY <2>1 DEF Latched
<1>q. QED
      BY InvAlways, <1>1, PTL

\* For any keys that the maps have as they are labelled: what is queued is what is written
\* on the keys typed, in their order, shifted exactly if a shift key was down, unless
\* another one was released since.
THEOREM QueuedAsTyped ==
  ASSUME LegendsMatch
  PROVE  Spec => []CharsAsTyped
<1>1. Inv => CharsAsTyped
  <2> SUFFICES ASSUME Inv, clean
               PROVE  /\ Len(read_q) <= Len(typed)
                      /\ \A i \in 1 .. Len(read_q) : read_q[i] \in typed[i]
                      /\ Settled => Len(read_q) = Len(typed)
        BY DEF CharsAsTyped
  <2>1. PICK q \in Seq(Symbols) : /\ Leads(Flight, <<keyboard_flags, read_q>>, <<Latched, q>>)
                                  /\ Fitting(q, typed)
        BY DEF Inv, FlightInv
  <2> DEFINE a == <<keyboard_flags, read_q>>
             z == <<Latched, q>>
  <2>2. Flight \in Seq(Byte)
        BY FlightType
  <2>3. a \in States /\ z \in States /\ Leads(Flight, a, z)
        BY <2>1, <2>2, LeadsType, Zenon
  <2>4. Begins(a[2], z[2])
    <3> HIDE DEF a, z
    <3>1. PICK r \in [0 .. Len(Flight) -> States] : Way(r, Flight, a, z)
          BY <2>3 DEF Leads
    <3>2. 0 \in 0 .. Len(Flight)
          BY <2>2
    <3>q. QED
          BY <3>1, <3>2 DEF Way
  <2>5. read_q \in Seq(Symbols) /\ Begins(read_q, q)
        BY <2>3, <2>4 DEF States
  <2>6. Len(read_q) <= Len(typed) /\ \A i \in 1 .. Len(read_q) : read_q[i] \in typed[i]
        BY <2>1, <2>5 DEF Begins, Fitting
  <2>7. Settled => Len(read_q) = Len(typed)
        BY Arrived DEF Settled, Fitting
  <2>q. QED
        BY <2>6, <2>7
<1>q. QED
      BY InvAlways, <1>1, PTL

=============================================================================
