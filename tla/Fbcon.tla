------------------------------- MODULE Fbcon -------------------------------
(***************************************************************************)
(* The framebuffer console (drivers/video/console/fbcon.c) at the grain of *)
(* a character cell: fbcon_putc step by step, interrupted anywhere by the  *)
(* blinking cursor of the timer or by the message keyboard_port1_irq       *)
(* prints, which goes through fbcon_putc itself.                           *)
(*                                                                         *)
(* fbcon_x and fbcon_y are shared with no lock and are not volatile.  A    *)
(* build keeps what it read of them, so that a step may use either that or *)
(* what is in memory by then, and orders the two stores of a line's end as *)
(* it likes.                                                               *)
(***************************************************************************)
EXTENDS Integers, Sequences, FiniteSets

CONSTANTS
  W, H,        \* cells of a row, vc_rows / 8, and of a column, vc_cols / 16
  Chars,       \* characters with a glyph
  Messages,    \* what an interrupt prints: sequences of Chars and NL
  MaxPuts, MaxBlinks, MaxMessages   \* bounds

NL == "newline"
BS == "backspace"
Old == "old"      \* what was there before fbcon_init
Mixed == "mixed"  \* parts of two glyphs

ASSUME FbconAssumption ==
  /\ W \in Nat \ {0} /\ H \in Nat \ {0, 1}
  /\ {NL, BS, Old, Mixed, " ", "_"} \cap Chars = {}
  /\ Messages \subseteq Seq(Chars \cup {NL})
  /\ MaxPuts \in Nat /\ MaxBlinks \in Nat /\ MaxMessages \in Nat

VARIABLES
  cells,       \* rows 0 .. H - 1 are the framebuffer, the others the memory behind it
  fbcon_x, fbcon_y,
  show_cursor,
  pc, ch,      \* fbcon_putc(ch): its next step
  x, y,        \* the cursor as fbcon_putc has it
  stores,      \* stores it still has to do at the end of a line
  lines,       \* history: the lines of the text
  printing,    \* what an interrupt's message has left to print
  puts, blinks, messages,
  hits         \* history: how many blinks have interrupted fbcon_putc

vars == <<cells, fbcon_x, fbcon_y, show_cursor, pc, ch, x, y, stores, lines, printing,
          puts, blinks, messages, hits>>

Rows == 0 .. H + 1

Init ==
  /\ cells = [r \in Rows |-> [c \in 0 .. W - 1 |-> Old]]
  /\ fbcon_x = 0 /\ fbcon_y = 0 /\ show_cursor = TRUE
  /\ pc = "idle" /\ ch = NL /\ x = 0 /\ y = 0 /\ stores = {}
  /\ lines = << <<>> >> /\ printing = <<>>
  /\ puts = 0 /\ blinks = 0 /\ messages = 0 /\ hits = 0

\* fbcon_print_glyph; in column W every line of pixels but the last is in the
\* first cell of this row, one line lower, and the last in that of the next row.
Glyph(s, cx, cy, g) ==
  IF cx < W THEN [s EXCEPT ![cy][cx] = g]
  ELSE [s EXCEPT ![cy][0] = Mixed, ![cy + 1][0] = Mixed]

\* Mutant: the first row stays.
MoveRowsFew(s) == [r \in Rows |-> IF r \in 1 .. H - 1 THEN s[r + 1] ELSE s[r]]

\* fbcon_scroll's memmove and its memset
MoveRows(s) == [r \in Rows |-> IF r < H THEN s[r + 1] ELSE s[r]]
ClearRow(s) == [s EXCEPT ![H] = [c \in 0 .. W - 1 |-> " "]]

\* Mutant: the last row is off by one.
PastScreenLate(cy) == cy > H

PastRow(cx) == cx > W - 1
PastScreen(cy) == cy > H - 1

-----------------------------------------------------------------------------
\* fbcon_putc, one step at a time

\* The text as a terminal of W columns has it.
Typed(ls, k) ==
  LET row == ls[Len(ls)]
  IN  CASE k = NL -> Append(ls, <<>>)
        [] k = BS -> IF row = <<>> THEN ls ELSE [ls EXCEPT ![Len(ls)] = SubSeq(row, 1, Len(row) - 1)]
        [] OTHER  -> LET new == [ls EXCEPT ![Len(ls)] = Append(row, k)]
                     IN  IF Len(row) + 1 = W THEN Append(new, <<>>) ELSE new

Putc(k) ==
  /\ pc = "idle" /\ puts < MaxPuts
  /\ puts' = puts + 1
  /\ lines' = Typed(lines, k)
  /\ ch' = k
  /\ x' = fbcon_x /\ y' = fbcon_y
  /\ pc' = CASE k = NL -> "end_line" [] k = BS -> "back" [] OTHER -> "glyph"
  /\ stores' = IF k = NL THEN {"x", "y"} ELSE {}
  /\ UNCHANGED <<cells, fbcon_x, fbcon_y, show_cursor, blinks, messages, hits>>

PrintGlyph ==
  /\ pc = "glyph" /\ pc' = "advance"
  /\ cells' = Glyph(cells, x, y, ch)
  /\ UNCHANGED <<fbcon_x, fbcon_y, show_cursor, ch, x, y, stores, lines, puts, blinks,
                 messages, hits>>

\* fbcon_x++ and the first condition of fbcon_scroll
Advance ==
  /\ pc = "advance"
  /\ \E cx \in {x, fbcon_x} :
       /\ fbcon_x' = cx + 1 /\ x' = cx + 1
       /\ IF PastRow(cx + 1)
          THEN pc' = "end_line" /\ stores' = {"x", "y"}
          ELSE pc' = "bottom" /\ UNCHANGED stores
  /\ UNCHANGED <<cells, fbcon_y, show_cursor, ch, y, lines, puts, blinks, messages, hits>>

\* fbcon_x = 0
StoreX ==
  /\ pc = "end_line" /\ "x" \in stores
  /\ fbcon_x' = 0 /\ x' = 0
  /\ stores' = stores \ {"x"}
  /\ pc' = IF stores' = {} THEN "bottom" ELSE pc
  /\ UNCHANGED <<cells, fbcon_y, show_cursor, ch, y, lines, puts, blinks, messages, hits>>

\* fbcon_y++
StoreY ==
  /\ pc = "end_line" /\ "y" \in stores
  /\ \E cy \in {y, fbcon_y} : fbcon_y' = cy + 1 /\ y' = cy + 1
  /\ stores' = stores \ {"y"}
  /\ pc' = IF stores' = {} THEN "bottom" ELSE pc
  /\ UNCHANGED <<cells, fbcon_x, show_cursor, ch, x, lines, puts, blinks, messages, hits>>

\* bs
Back ==
  /\ pc = "back"
  /\ IF x > 0
     THEN fbcon_x' = x - 1 /\ x' = x - 1 /\ pc' = "erase"
     ELSE pc' = "bottom" /\ UNCHANGED <<fbcon_x, x>>
  /\ UNCHANGED <<cells, fbcon_y, show_cursor, ch, y, stores, lines, puts, blinks, messages, hits>>

Erase ==
  /\ pc = "erase" /\ pc' = "bottom"
  /\ cells' = Glyph(cells, x, y, " ")
  /\ UNCHANGED <<fbcon_x, fbcon_y, show_cursor, ch, x, y, stores, lines, puts, blinks,
                 messages, hits>>

\* fbcon_scroll's second condition
Bottom ==
  /\ pc = "bottom"
  /\ \E cy \in {y, fbcon_y} : pc' = IF PastScreen(cy) THEN "move" ELSE "idle"
  /\ UNCHANGED <<cells, fbcon_x, fbcon_y, show_cursor, ch, x, y, stores, lines, puts, blinks,
                 messages, hits>>

Move ==
  /\ pc = "move" /\ pc' = "clear"
  /\ cells' = MoveRows(cells)
  /\ UNCHANGED <<fbcon_x, fbcon_y, show_cursor, ch, x, y, stores, lines, puts, blinks,
                 messages, hits>>

Clear ==
  /\ pc = "clear" /\ pc' = "up"
  /\ cells' = ClearRow(cells)
  /\ UNCHANGED <<fbcon_x, fbcon_y, show_cursor, ch, x, y, stores, lines, puts, blinks,
                 messages, hits>>

\* fbcon_y--, after a call that may have changed it
Up ==
  /\ pc = "up" /\ pc' = "idle"
  /\ fbcon_y' = fbcon_y - 1
  /\ UNCHANGED <<cells, fbcon_x, show_cursor, ch, x, y, stores, lines, puts, blinks, messages,
                 hits>>

-----------------------------------------------------------------------------
\* Interrupts

\* fbcon_cursor_blink
Blink ==
  /\ blinks < MaxBlinks
  /\ blinks' = blinks + 1
  /\ hits' = IF pc = "idle" THEN hits ELSE hits + 1
  /\ cells' = Glyph(cells, fbcon_x, fbcon_y, IF show_cursor THEN " " ELSE "_")
  /\ show_cursor' = ~show_cursor
  /\ UNCHANGED <<fbcon_x, fbcon_y, pc, ch, x, y, stores, lines, puts, messages>>

\* fbcon_putc from beginning to end; an interrupt's is not interrupted.
PutcWhole(con, k) ==
  LET drawn == IF k = NL THEN con.cells ELSE Glyph(con.cells, con.x, con.y, k)
      ends == k = NL \/ PastRow(con.x + 1)
      row == IF ends THEN con.y + 1 ELSE con.y
  IN  [x |-> IF ends THEN 0 ELSE con.x + 1,
       y |-> IF PastScreen(row) THEN row - 1 ELSE row,
       cells |-> IF PastScreen(row) THEN ClearRow(MoveRows(drawn)) ELSE drawn]

\* keyboard_port1_irq has fbcon_write print that a key could not be detected.
Message(str) ==
  /\ messages < MaxMessages
  /\ messages' = messages + 1
  /\ printing' = str
  /\ UNCHANGED <<cells, fbcon_x, fbcon_y, show_cursor, pc, ch, x, y, stores, lines, puts, blinks,
                 hits>>

\* One character of fbcon_write.
MessagePutc ==
  /\ printing # <<>>
  /\ LET after == PutcWhole([x |-> fbcon_x, y |-> fbcon_y, cells |-> cells], Head(printing))
     IN  /\ fbcon_x' = after.x /\ fbcon_y' = after.y /\ cells' = after.cells
  /\ printing' = Tail(printing)
  /\ UNCHANGED <<show_cursor, pc, ch, x, y, stores, lines, puts, blinks, messages, hits>>

\* What the next step of fbcon_putc, or a call of it, may be.
PutcStep ==
  \/ \E k \in Chars \cup {NL, BS} : Putc(k)
  \/ PrintGlyph \/ Advance \/ StoreX \/ StoreY \/ Back \/ Erase
  \/ Bottom \/ Move \/ Clear \/ Up

Next ==
  \/ printing = <<>> /\ (PutcStep \/ Blink) /\ UNCHANGED printing
  \/ printing = <<>> /\ \E str \in Messages : Message(str)
  \/ MessagePutc

Spec == Init /\ [][Next]_vars

-----------------------------------------------------------------------------

Glyphs == Chars \cup {Old, Mixed, " ", "_"}

TypeOK ==
  /\ cells \in [Rows -> [0 .. W - 1 -> Glyphs]]
  /\ fbcon_x \in 0 .. W /\ fbcon_y \in 0 .. H
  /\ x \in 0 .. W /\ y \in 0 .. H
  /\ stores \subseteq {"x", "y"}
  /\ pc \in {"idle", "glyph", "advance", "end_line", "back", "erase", "bottom", "move",
             "clear", "up"}
  /\ ch \in Chars \cup {NL, BS}
  /\ lines \in Seq(Seq(Chars)) /\ lines # <<>>
  /\ printing \in Seq(Chars \cup {NL})
  /\ blinks \in Nat /\ messages \in Nat /\ hits \in Nat

\* Whatever was printed in the middle of a fbcon_putc, and however stale what it
\* then stores, the cursor is never more than one past the screen, so that no glyph
\* of an interrupt lands further than the row behind it, and is on it in the end.
CursorOnScreen ==
  /\ fbcon_x \in 0 .. W /\ fbcon_y \in 0 .. H
  /\ pc = "idle" => fbcon_x \in 0 .. W - 1 /\ fbcon_y \in 0 .. H - 1

\* The cells of the screen that should show a character of the text and do not.
Damaged ==
  LET top == Len(lines) - fbcon_y
  IN  {rc \in (0 .. fbcon_y) \X (0 .. W - 1) :
         /\ rc[2] < Len(lines[top + rc[1]])
         /\ cells[rc[1]][rc[2]] # lines[top + rc[1]][rc[2] + 1]}

\* The screen shows the last lines of the text.  A blink between two characters
\* costs nothing, one inside fbcon_putc at most one character, over any number of
\* lines scrolled since.
BlinkCostsOneCell ==
  pc = "idle" /\ messages = 0 => /\ Len(lines) > fbcon_y
                                 /\ fbcon_x = Len(lines[Len(lines)])
                                 /\ Cardinality(Damaged) <= hits

-----------------------------------------------------------------------------
\* The parts of the inductive invariant.

\* Where the cursor is, and its copy, while it is or may be off the screen.
CursorInv ==
  /\ pc = "end_line" <=> stores # {}
  /\ fbcon_x = W => "x" \in stores
  /\ pc \in {"glyph", "advance"} => x < W /\ ch \in Chars
  /\ fbcon_y = H => stores = {"x"} \/ pc \in {"bottom", "move", "clear", "up"}
  /\ pc \in {"glyph", "advance", "back", "erase"} \/ "y" \in stores => y < H
  /\ pc = "bottom" \/ stores = {"x"} => (fbcon_y = H => y = H) /\ (y = H => fbcon_y >= H - 1)
  /\ pc \in {"move", "clear", "up"} => fbcon_y > 0

\* The row of the last line of the text, and a row's line.
LastRow ==
  CASE (pc \in {"glyph", "advance"} /\ fbcon_x + 1 = W) \/ "y" \in stores -> fbcon_y + 1
    [] pc \in {"clear", "up"} -> fbcon_y - 1
    [] OTHER -> fbcon_y
LineAt(r) == lines[Len(lines) - LastRow + r]

\* A text cell that is wrong, and is not about to be drawn.
IsWrong(r, c) ==
  /\ c < Len(LineAt(r))
  /\ cells[r][c] # LineAt(r)[c + 1]
  /\ ~(pc = "glyph" /\ r = fbcon_y /\ c = fbcon_x)
Wrong == {rc \in (0 .. LastRow) \X (0 .. W - 1) : IsWrong(rc[1], rc[2])}

\* How the cursor and the text go together while no message has been printed.
TextInv ==
  LET n == Len(lines)
      last == lines[n]
  IN  /\ printing = <<>>
      /\ pc # "idle" => x = fbcon_x /\ y = fbcon_y
      /\ n > LastRow /\ LastRow <= H
      /\ \A i \in 1 .. n : Len(lines[i]) <= W
      /\ Len(last) < W
      /\ LastRow = H => last = <<>>
      /\ stores # {} => last = <<>>
      /\ stores = {"y"} => fbcon_x = 0
      /\ pc \in {"idle", "erase", "bottom", "move", "clear", "up"} => fbcon_x = Len(last)
      /\ pc \in {"glyph", "advance"} =>
           /\ Len(LineAt(fbcon_y)) = fbcon_x + 1
           /\ LineAt(fbcon_y)[fbcon_x + 1] = ch
           /\ fbcon_x + 1 = W => last = <<>>
      /\ pc = "back" => Len(last) = IF fbcon_x > 0 THEN fbcon_x - 1 ELSE 0
      /\ pc \in {"move", "clear", "up"} => fbcon_y = H

FbconInv ==
  TypeOK /\ CursorInv /\ (messages = 0 => TextInv /\ Cardinality(Wrong) <= hits)

=============================================================================
