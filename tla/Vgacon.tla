------------------------------- MODULE Vgacon -------------------------------
(***************************************************************************)
(* The text mode console (drivers/video/console/vgacon.c), with the same   *)
(* text as Fbcon gives its own.  A cell is a character and its attribute.  *)
(* Nothing calls vgacon_init, so that no interrupt prints there.           *)
(***************************************************************************)
EXTENDS Integers, Sequences

CONSTANTS
  W, H,        \* vc_rows and vc_cols, the cells of a row and of a column
  HighChars,   \* the characters that are negative as a char
  Texts        \* what is written: sequences of characters, some with a zero in them

VARIABLES
  screen,      \* rows 0 .. H - 1 of vc_screenbuf
  vgacon_x, vgacon_y,
  todo,        \* what vgacon_write has left of its string
  pos,         \* the cursor position the video controller has
  text         \* history: the lines written, a backspace being nothing

vgacon == <<screen, vgacon_x, vgacon_y, todo, pos, text>>

NL == "newline"
BS == "backspace"
NUL == "zero"
Old == <<"old", 7>>
Blank == <<NUL, 0>>     \* memset(last_row, 0, ...)

\* vgacon_startup; the controller's cursor is where the firmware left it.
VgaInit ==
  /\ screen = [r \in 0 .. H - 1 |-> [c \in 0 .. W - 1 |-> Old]]
  /\ vgacon_x = 0 /\ vgacon_y = 0 /\ todo = <<>> /\ pos = 0
  /\ text = << <<>> >>

\* PUT_CHAR: the sign of a char is extended over the attribute.
PutChar(ch) == <<ch, IF ch \in HighChars THEN 255 ELSE 7>>
CursorPos(x, y) == (y * W + x) % 65536

\* Mutant: the screen moves up a line late.
ScrollsLate(y) == y > H

Scrolls(y) == y >= H

\* vgacon_scroll, once the screen is s and the cursor at cx, cy.
Scroll(s, cx, cy) ==
  LET row == IF cx > W - 1 THEN cy + 1 ELSE cy
  IN  /\ vgacon_x' = IF cx > W - 1 THEN 0 ELSE cx
      /\ vgacon_y' = IF Scrolls(row) THEN row - 1 ELSE row
      /\ screen' = IF ~Scrolls(row) THEN s
                   ELSE [r \in 0 .. H - 1 |->
                           IF r < H - 1 THEN s[r + 1] ELSE [c \in 0 .. W - 1 |-> Blank]]

\* vgacon_putc; its bs does nothing.
Putc(ch) ==
  /\ CASE ch = NL -> Scroll(screen, 0, vgacon_y + 1)
       [] ch = BS -> Scroll(screen, vgacon_x, vgacon_y)
       [] OTHER -> Scroll([screen EXCEPT ![vgacon_y][vgacon_x] = PutChar(ch)],
                          vgacon_x + 1, vgacon_y)
  /\ pos' = CursorPos(vgacon_x', vgacon_y')

\* The lines of a terminal of W columns.
Line(ls, ch) ==
  CASE ch = NL -> Append(ls, <<>>)
    [] ch = BS -> ls
    [] OTHER -> LET row == Append(ls[Len(ls)], ch)
                    new == [ls EXCEPT ![Len(ls)] = row]
                IN  IF Len(row) = W THEN Append(new, <<>>) ELSE new

\* vgacon_write(str), and vgacon_output_intr when it has room for the string.
VgaWrite(str) ==
  /\ todo = <<>>
  /\ todo' = str
  /\ UNCHANGED <<screen, vgacon_x, vgacon_y, pos, text>>

\* A character of it; a zero ends the loop.
VgaPutc ==
  /\ todo # <<>>
  /\ IF Head(todo) = NUL
     THEN todo' = <<>> /\ UNCHANGED <<screen, vgacon_x, vgacon_y, pos, text>>
     ELSE /\ Putc(Head(todo))
          /\ text' = Line(text, Head(todo))
          /\ todo' = Tail(todo)

-----------------------------------------------------------------------------

\* The last lines of the text are on the screen, each character in the colour of the
\* console unless its sign spoils it, and the cursor is at the end of the last.
VgaShowsText ==
  LET top == Len(text) - vgacon_y
  IN  /\ vgacon_y \in 0 .. H - 1 /\ top > 0 /\ vgacon_x = Len(text[Len(text)])
      /\ pos = CursorPos(vgacon_x, vgacon_y)
      /\ \A r \in 0 .. vgacon_y : \A c \in DOMAIN text[top + r] :
           screen[r][c - 1] = PutChar(text[top + r][c])

-----------------------------------------------------------------------------
\* The inductive invariant.

\* The rows of s up to row ly show the last lines of t.
Shows(s, t, ly) ==
  /\ Len(t) > ly
  /\ \A r \in 0 .. ly : \A c \in DOMAIN t[Len(t) - ly + r] :
       s[r][c - 1] = PutChar(t[Len(t) - ly + r][c])

Written == UNION {{str[k] : k \in DOMAIN str} : str \in Texts}
Cell == {PutChar(ch) : ch \in Written} \cup {Old, Blank}

VgaInv ==
  /\ screen \in [0 .. H - 1 -> [0 .. W - 1 -> Cell]]
  /\ vgacon_x \in 0 .. W - 1 /\ vgacon_y \in 0 .. H - 1
  /\ todo \in Seq(Written)
  /\ text \in Seq(Seq(Written)) /\ text # <<>>
  /\ vgacon_x = Len(text[Len(text)])
  /\ pos = CursorPos(vgacon_x, vgacon_y)
  /\ Shows(screen, text, vgacon_y)

=============================================================================
