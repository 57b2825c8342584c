------------------------------- MODULE Library -------------------------------
(***************************************************************************)
(* One call of one of the functions that everything else uses, with any of *)
(* the arguments given: the command line (Params), vsnprintf (Format), the *)
(* tags and tables (Firmware) and lib/common (Strings).                    *)
(***************************************************************************)
EXTENDS Strings, Layouts

CONSTANTS
  Lines, Names, Zero,              \* of Params
  IntBits, LongBits, StringAt,     \* of Format
  Formats, ArgLists,               \* formats, and arguments for them
  TagLists, Wanted, Rsdts,         \* tags in memory, types asked for, tables
  Memories, Calls                  \* memories, and calls [f, a, b, n]

VARIABLES
  fn, cmdline, name, p, result, farthest,
  format, args, taken, i, conv, zero, width, str,
  tags, wanted, tag, located, rsdt, madt, fadt, enabled,
  memory, before, call, done

P == INSTANCE Params
F == INSTANCE Format
W == INSTANCE Firmware

\* Every field that is read is where the boot loader, the firmware and the processor
\* have it, though most of the structures are not packed.
\* The loader's tags have a type and a size, and the first bytes are their own; the
\* memories begin at address 0.
ASSUME LibraryAssumption ==
  /\ Agree
  /\ P!ParamsAssumption /\ F!FormatAssumption
  /\ \A f \in Formats, a \in ArgLists : F!IsFormat(f, a)
  /\ \A t \in TagLists : t \in Seq([type : Nat \ {0}, size : Nat \ (0 .. 7)])
  /\ Wanted \subseteq Nat \ {0}
  /\ \A r \in Rsdts : r \in Seq(STRING)
  /\ \A m \in Memories : Max(DOMAIN m) \in Nat /\ m \in [0 .. Max(DOMAIN m) -> Nat]
  /\ Calls \subseteq [f : STRING, a : Nat, b : Nat, n : Nat]

params == <<fn, cmdline, name, p, result, farthest>>
formatting == <<format, args, taken, i, conv, zero, width, str>>
firmware == <<tags, wanted, tag, located, rsdt, madt, fadt, enabled>>
strings == <<memory, before, call, done>>
vars == <<params, formatting, firmware, strings>>

-----------------------------------------------------------------------------
\* The calls; what is not called does nothing.

ParamsIdle ==
  fn = "none" /\ cmdline = <<>> /\ name = <<>> /\ p = 1 /\ result = P!Null /\ farthest = 1

FormatCall == format \in Formats /\ args \in ArgLists /\ F!Start
FormatIdle == format = <<>> /\ args = <<>> /\ F!Start

FirmwareCall == tags \in TagLists /\ wanted \in Wanted /\ rsdt \in Rsdts /\ W!FirmwareStart
FirmwareIdle ==
  /\ tags = <<>> /\ wanted = 0 /\ rsdt = <<>> /\ tag = 8 /\ located = W!NULL
  /\ madt = W!NULL /\ fadt = W!NULL /\ enabled = FALSE

\* The string at an address, if it ends in the memory.
IsString(a) == \E k \in DOMAIN before : k >= a /\ before[k] = 0
StringIn(m, a) == [k \in 1 .. Strlen(m, a) |-> m[a + k - 1]]
Fits(a, n) == n = 0 \/ a + n - 1 \in DOMAIN before
Apart(a, n, b, m) == a + n <= b \/ b + m <= a

\* The calls C allows, and memmove's that return.  What strcat is given by panic
\* are two literals, anywhere but in each other, and memory behind them.
Legal(c) ==
  CASE c.f = "memcpy" -> Fits(c.a, c.n) /\ Fits(c.b, c.n) /\ Apart(c.a, c.n, c.b, c.n)
    [] c.f = "memmove" -> Fits(c.a, c.n) /\ Fits(c.b, c.n) /\ MemmoveReturns(c.a, c.b, c.n)
    [] c.f = "strcpy" -> /\ IsString(c.b) /\ Fits(c.a, Strlen(before, c.b) + 1)
                         /\ LET n == Strlen(before, c.b) + 1 IN Apart(c.a, n, c.b, n)
    [] c.f = "strncpy" -> /\ Fits(c.a, c.n + 1) /\ Fits(c.b, c.n) /\ IsString(c.b)
                          /\ Apart(c.a, c.n + 1, c.b, c.n)
    [] c.f = "strcat" -> /\ IsString(c.a) /\ IsString(c.b)
                         /\ LET n == Strlen(before, c.a)
                                m == Strlen(before, c.b)
                            IN  Apart(c.a, n + 1, c.b, m + 1) /\ Fits(c.a, n + m + 1)
    [] c.f = "strncmp" -> IsString(c.a) /\ IsString(c.b)
    [] c.f = "reverse" -> Fits(c.a, c.n) /\ c.n > 0
    [] c.f = "memset" -> Fits(c.a, c.n)

StringsCall ==
  /\ before \in Memories /\ memory = before
  /\ \E c \in Calls : Legal(c) /\ call = c
  /\ done = FALSE
StringsIdle == before = <<>> /\ memory = <<>> /\ call = [f |-> "none"] /\ done = TRUE

Init ==
  \/ P!Init /\ FormatIdle /\ FirmwareIdle /\ StringsIdle
  \/ ParamsIdle /\ FormatCall /\ FirmwareIdle /\ StringsIdle
  \/ ParamsIdle /\ FormatIdle /\ FirmwareCall /\ StringsIdle
  \/ ParamsIdle /\ FormatIdle /\ FirmwareIdle /\ StringsCall

StringCall ==
  /\ ~done /\ done' = TRUE
  /\ memory' = CASE call.f = "memcpy" -> Memcpy(memory, call.a, call.b, call.n)
                 [] call.f = "memmove" -> Memmove(memory, call.a, call.b, call.n)
                 [] call.f = "strcpy" -> Strcpy(memory, call.a, call.b)
                 [] call.f = "strncpy" -> Strncpy(memory, call.a, call.b, call.n)
                 [] call.f = "strcat" -> Strcat(memory, call.a, call.b)
                 [] call.f = "reverse" -> Reversed(memory, call.a, call.n)
                 [] call.f = "memset" -> Memset(memory, call.a, call.b, call.n)
                 [] OTHER -> memory
  /\ UNCHANGED <<before, call>>

Next ==
  \/ P!Next /\ UNCHANGED <<formatting, firmware, strings>>
  \/ F!Vsnprintf /\ UNCHANGED <<params, firmware, strings>>
  \/ W!FirmwareStep /\ UNCHANGED <<params, formatting, strings>>
  \/ StringCall /\ UNCHANGED <<params, formatting, firmware>>

Spec == Init /\ [][Next]_vars

-----------------------------------------------------------------------------

\* No read is past the zero of the command line, though every comparison asks
\* for as many bytes as the name has.
ReadsWithinLine == P!ReadsWithinLine

\* What get_cmdline_param_val and has_cmdline_param find is what a reader of the
\* line would, when the line mentions the name only as a key.
FindsParameter == P!FindsParameter

\* printk writes what C's printf would for the formats the kernel uses, exactly as
\* long as no word given to a %x is more than half of what an int holds: an address
\* beyond 2 GB is cut and printed as if it were negative.
FormatIsPrintf ==
  i > Len(format) => (str = F!Printf <=> ~F!HexCut)

\* The first tag and the first tables asked for are found, nothing but tags is looked
\* at, and the loader can walk the header although its end tag is not where it looks.
TablesFound == W!TablesFound /\ W!HeaderRead

\* The functions of lib/common do what C says of them, where memory overlaps too:
\* a row moved up by less than itself, or panic's text appended to a literal with
\* the format in front of it or right behind it.
LibIsC ==
  LET a == call.a
      b == call.b
      n == call.n
      Copied(m) == [k \in DOMAIN before |->
                      IF k \in a .. a + m - 1 THEN before[b + k - a] ELSE before[k]]
      Prefix(s) == SubSeq(s, 1, IF Len(s) < n THEN Len(s) ELSE n)
      Kept(m) == \A k \in DOMAIN before : k \notin a .. a + m - 1 => memory[k] = before[k]
  IN  done => CASE call.f \in {"memcpy", "memmove"} -> memory = Copied(n)
                [] call.f = "strcpy" -> StringIn(memory, a) = StringIn(before, b)
                [] call.f = "strncpy" ->
                     StringIn(memory, a) = Prefix(StringIn(before, b)) /\ Kept(n + 1)
                [] call.f = "strcat" ->
                     StringIn(memory, a) = StringIn(before, a) \o StringIn(before, b)
                [] call.f = "strncmp" ->
                     (Strncmp(before, a, b, n) = "equal") <=>
                       (Prefix(StringIn(before, a)) = Prefix(StringIn(before, b)))
                [] call.f = "reverse" ->
                     \A k \in 0 .. n - 1 : memory[a + k] = before[a + n - 1 - k]
                [] call.f = "memset" ->
                     Kept(n) /\ \A k \in a .. a + n - 1 : memory[k] = b
                [] OTHER -> TRUE

\* The inductive invariant of LibraryProofs, with the properties above: a call of
\* lib/common is one C allows, on a memory nothing has been stored in.
LibraryInv ==
  /\ P!ScanInv /\ F!FormatInv /\ W!WalkInv
  /\ ~done => before \in Memories /\ memory = before /\ call \in Calls /\ Legal(call)

=============================================================================
