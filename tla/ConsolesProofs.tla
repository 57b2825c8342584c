--------------------------- MODULE ConsolesProofs ---------------------------
(***************************************************************************)
(* What the consoles show, for every size of screen, every text and        *)
(* message, and any number of blinks.                                      *)
(***************************************************************************)
EXTENDS Consoles, FiniteSetTheorems, SequenceTheorems, TLAPS

Screens == [Rows -> [0 .. W - 1 -> Glyphs]]

-----------------------------------------------------------------------------
\* Where fbcon's cursor is

LEMMA SizeFacts ==
  /\ W \in Nat /\ W > 0 /\ H \in Nat /\ H > 1
  /\ 0 .. H + 1 = Rows
  /\ NL \notin Chars /\ BS \notin Chars /\ NL # BS
<1>1. W \in Nat /\ W > 0 /\ H \in Nat /\ H > 1
  <2>1. W \in Nat \ {0} /\ H \in Nat \ {0, 1}
    BY FbconAssumption, Zenon
  <2>. QED BY <2>1
<1>2. NL \notin Chars /\ BS \notin Chars
  BY FbconAssumption
<1>3. NL # BS
  BY DEF NL, BS
<1>. QED BY <1>1, <1>2, <1>3 DEF Rows

LEMMA GlyphType ==
  ASSUME NEW s \in Screens, NEW cx \in 0 .. W, NEW cy \in 0 .. H, NEW g \in Glyphs
  PROVE  Glyph(s, cx, cy, g) \in Screens
<1>1. CASE cx < W
  <2>1. cx \in 0 .. W - 1 /\ cy \in Rows
    BY <1>1, SizeFacts
  <2>2. [s[cy] EXCEPT ![cx] = g] \in [0 .. W - 1 -> Glyphs]
    BY <2>1 DEF Screens
  <2>3. Glyph(s, cx, cy, g) = [s EXCEPT ![cy] = [s[cy] EXCEPT ![cx] = g]]
    BY <1>1 DEF Glyph
  <2>. QED BY <2>1, <2>2, <2>3 DEF Screens
<1>2. CASE ~(cx < W)
  <2>0. 0 \in 0 .. W - 1 /\ cy \in Rows /\ cy + 1 \in Rows
    BY SizeFacts
  <2>1. 0 \in 0 .. W - 1 /\ cy \in Rows /\ cy + 1 \in Rows /\ Mixed \in Glyphs
    BY <2>0 DEF Glyphs
  <2>2. \A r \in Rows : [s[r] EXCEPT ![0] = Mixed] \in [0 .. W - 1 -> Glyphs]
    BY <2>1 DEF Screens
  <2>3. Glyph(s, cx, cy, g) = [s EXCEPT ![cy] = [s[cy] EXCEPT ![0] = Mixed],
                                        ![cy + 1] = [s[cy + 1] EXCEPT ![0] = Mixed]]
    BY <1>2, <2>1, SizeFacts DEF Glyph, Screens
  <2>. QED BY <2>1, <2>2, <2>3, SizeFacts DEF Screens
<1>. QED BY <1>1, <1>2

LEMMA MoveType ==
  ASSUME NEW s \in Screens
  PROVE  MoveRows(s) \in Screens /\ ClearRow(s) \in Screens
<1>1. \A r \in Rows : r < H => r + 1 \in Rows
  BY SizeFacts
<1>2. MoveRows(s) \in Screens
  BY <1>1 DEF MoveRows, Screens
<1>3. [c \in 0 .. W - 1 |-> " "] \in [0 .. W - 1 -> Glyphs]
  BY DEF Glyphs
<1>4. ClearRow(s) \in Screens
  BY <1>3 DEF ClearRow, Screens
<1>. QED BY <1>2, <1>4

\* A character an interrupt prints leaves the cursor at most where it may be: on
\* the screen, if the interrupted fbcon_putc has it there.
LEMMA PutcWholeFacts ==
  ASSUME NEW s \in Screens, NEW cx \in 0 .. W, NEW cy \in 0 .. H, NEW k \in Chars \cup {NL},
         NEW after, after = PutcWhole([x |-> cx, y |-> cy, cells |-> s], k)
  PROVE  /\ after.cells \in Screens
         /\ after.x \in 0 .. W - 1 /\ after.y \in 0 .. H
         /\ cy < H => after.y < H
         /\ after.y >= cy \/ after.y = H - 1
<1>. DEFINE con == [x |-> cx, y |-> cy, cells |-> s]
            drawn == IF k = NL THEN con.cells ELSE Glyph(con.cells, con.x, con.y, k)
            ends == k = NL \/ PastRow(con.x + 1)
            row == IF ends THEN con.y + 1 ELSE con.y
<1>1. con.x = cx /\ con.y = cy /\ con.cells = s
  OBVIOUS
<1>2. drawn \in Screens
  BY <1>1, GlyphType DEF Glyphs
<1>3. /\ after.x = IF ends THEN 0 ELSE con.x + 1
      /\ after.y = IF PastScreen(row) THEN row - 1 ELSE row
      /\ after.cells = IF PastScreen(row) THEN ClearRow(MoveRows(drawn)) ELSE drawn
  BY DEF PutcWhole
<1>4. after.cells \in Screens
  BY <1>2, <1>3, MoveType
<1>5. row \in {cy, cy + 1} /\ (~ends => cx + 1 < W)
  BY <1>1, SizeFacts DEF PastRow
<1>. HIDE DEF con, drawn, ends, row
<1>. QED BY <1>1, <1>3, <1>4, <1>5, SizeFacts DEF PastScreen

LEMMA FbconTypeInit == Init => TypeOK /\ CursorInv
<1> SUFFICES ASSUME Init PROVE TypeOK /\ CursorInv
  OBVIOUS
<1>1. cells \in [Rows -> [0 .. W - 1 -> Glyphs]]
  BY DEF Init, Glyphs
<1>2. lines \in Seq(Seq(Chars)) /\ lines # <<>> /\ printing \in Seq(Chars \cup {NL})
  BY DEF Init
<1>3. fbcon_x \in 0 .. W /\ fbcon_y \in 0 .. H /\ x \in 0 .. W /\ y \in 0 .. H
  BY SizeFacts DEF Init
<1>4. TypeOK
  BY <1>1, <1>2, <1>3 DEF Init, TypeOK
<1>5. CursorInv
  BY SizeFacts DEF Init, CursorInv
<1>. QED BY <1>4, <1>5

\* The text stays one of lines of characters.
LEMMA TypedType ==
  ASSUME NEW ls \in Seq(Seq(Chars)), ls # <<>>, NEW k \in Chars \cup {NL, BS}
  PROVE  Typed(ls, k) \in Seq(Seq(Chars)) /\ Typed(ls, k) # <<>>
<1>. DEFINE row == ls[Len(ls)]
            new == [ls EXCEPT ![Len(ls)] = Append(row, k)]
<1>1. Len(ls) \in 1 .. Len(ls) /\ row \in Seq(Chars) /\ <<>> \in Seq(Chars)
  OBVIOUS
<1>0. \A s \in Seq(Seq(Chars)) : Append(s, <<>>) \in Seq(Seq(Chars)) /\ Append(s, <<>>) # <<>>
  <2>1. <<>> \in Seq(Chars)
    OBVIOUS
  <2>. QED BY <2>1, AppendProperties
<1>2. \A r \in Seq(Chars) : /\ [ls EXCEPT ![Len(ls)] = r] \in Seq(Seq(Chars))
                            /\ Len([ls EXCEPT ![Len(ls)] = r]) = Len(ls)
  BY <1>1
<1>3. row # <<>> => SubSeq(row, 1, Len(row) - 1) \in Seq(Chars)
  BY <1>1
<1>4. k \in Chars => Append(row, k) \in Seq(Chars)
  BY <1>1
<1>5. CASE k = NL
  <2>1. Typed(ls, k) = Append(ls, <<>>)
    BY <1>5, SizeFacts DEF Typed
  <2>. QED BY <1>1, <2>1
<1>6. CASE k = BS
  <2>1. Typed(ls, k) = IF row = <<>> THEN ls
                       ELSE [ls EXCEPT ![Len(ls)] = SubSeq(row, 1, Len(row) - 1)]
    BY <1>6, SizeFacts DEF Typed
  <2>. QED BY <1>1, <1>2, <1>3, <2>1
<1>7. CASE k \in Chars
  <2>1. Typed(ls, k) = IF Len(row) + 1 = W THEN Append(new, <<>>) ELSE new
    BY <1>7, SizeFacts DEF Typed
  <2>2. new \in Seq(Seq(Chars)) /\ Len(new) = Len(ls)
    BY <1>2, <1>4, <1>7
  <2>3. new # <<>>
    BY <1>1, <2>2
  <2>. HIDE DEF new, row
  <2>4. Append(new, <<>>) \in Seq(Seq(Chars)) /\ Append(new, <<>>) # <<>>
    BY <1>0, <2>2
  <2>. QED BY <2>1, <2>2, <2>3, <2>4
<1>. QED BY <1>5, <1>6, <1>7

-----------------------------------------------------------------------------
\* One lemma for the kinds of steps that need one.

LEMMA BlinkGlyphs == " " \in Glyphs /\ "_" \in Glyphs /\ Chars \subseteq Glyphs
BY Zenon DEF Glyphs

LEMMA MessageStep ==
  ASSUME TypeOK, CursorInv, MessagePutc
  PROVE  TypeOK' /\ CursorInv'
<1>1. PICK after :
        /\ after = PutcWhole([x |-> fbcon_x, y |-> fbcon_y, cells |-> cells], Head(printing))
        /\ fbcon_x' = after.x /\ fbcon_y' = after.y /\ cells' = after.cells
  BY DEF MessagePutc
<1>2. /\ Head(printing) \in Chars \cup {NL}
      /\ printing' \in Seq(Chars \cup {NL})
  BY HeadTailProperties DEF MessagePutc, TypeOK
<1>3. /\ fbcon_x \in 0 .. W /\ fbcon_y \in 0 .. H /\ cells \in Screens
  BY DEF TypeOK, Screens
<1>4. /\ cells' \in Screens
      /\ fbcon_x' \in 0 .. W - 1 /\ fbcon_y' \in 0 .. H
      /\ fbcon_y < H => fbcon_y' < H
      /\ fbcon_y' >= fbcon_y \/ fbcon_y' = H - 1
  BY <1>1, <1>2, <1>3, PutcWholeFacts
<1>5. UNCHANGED <<show_cursor, pc, ch, x, y, stores, lines, puts, blinks, messages, hits>>
  BY DEF MessagePutc
<1>6. fbcon_x' \in 0 .. W /\ fbcon_x' # W
  BY <1>4, SizeFacts
<1>7. TypeOK'
  BY <1>2, <1>4, <1>5, <1>6 DEF TypeOK, Screens
<1>8. CursorInv'
  <2>1. pc \in {"move", "clear", "up"} => fbcon_y' > 0
    BY <1>3, <1>4, SizeFacts DEF CursorInv
  <2>2. fbcon_y' = H => fbcon_y = H
    BY <1>3, <1>4, SizeFacts
  <2>3. pc = "bottom" \/ stores = {"x"} => (fbcon_y' = H => y = H) /\ (y = H => fbcon_y' >= H - 1)
    BY <1>3, <1>4, <2>2, SizeFacts DEF CursorInv
  <2>. QED BY <1>5, <1>6, <2>1, <2>2, <2>3 DEF CursorInv
<1>. QED BY <1>7, <1>8

LEMMA PutcType ==
  ASSUME TypeOK, CursorInv, NEW k \in Chars \cup {NL, BS}, Putc(k), UNCHANGED printing
  PROVE  TypeOK' /\ CursorInv'
<1>1. /\ pc = "idle" /\ lines' = Typed(lines, k) /\ ch' = k
      /\ x' = fbcon_x /\ y' = fbcon_y
      /\ UNCHANGED <<cells, fbcon_x, fbcon_y, blinks, messages, hits>>
  BY DEF Putc
<1>2. \/ pc' = "end_line" /\ stores' = {"x", "y"}
      \/ pc' = "back" /\ stores' = {}
      \/ pc' = "glyph" /\ stores' = {} /\ k \in Chars
  <2>1. CASE k = NL
    BY <2>1, SizeFacts DEF Putc
  <2>2. CASE k = BS
    BY <2>2, SizeFacts DEF Putc
  <2>3. CASE k # NL /\ k # BS
    BY <2>3 DEF Putc
  <2>. QED BY <2>1, <2>2, <2>3
<1>3. stores = {} /\ fbcon_x < W /\ fbcon_y < H
  BY <1>1, SizeFacts DEF TypeOK, CursorInv
<1>4. lines' \in Seq(Seq(Chars)) /\ lines' # <<>>
  BY <1>1, TypedType DEF TypeOK
<1>5. TypeOK'
  BY <1>1, <1>2, <1>4 DEF TypeOK
<1>6. CursorInv'
  BY <1>1, <1>2, <1>3, SizeFacts DEF CursorInv, TypeOK
<1>. QED BY <1>5, <1>6

LEMMA DrawType ==
  ASSUME TypeOK, CursorInv, PrintGlyph \/ Erase \/ Blink, UNCHANGED printing
  PROVE  TypeOK' /\ CursorInv'
<1>1. cells \in Screens
  BY DEF TypeOK, Screens
<1>2. /\ fbcon_x \in 0 .. W /\ fbcon_y \in 0 .. H /\ x \in 0 .. W /\ y \in 0 .. H
  BY DEF TypeOK
<1>3. cells' \in Screens
  <2>1. CASE PrintGlyph
    <3>1. ch \in Glyphs /\ cells' = Glyph(cells, x, y, ch)
      BY <2>1, BlinkGlyphs DEF PrintGlyph, CursorInv
    <3>. QED BY <1>1, <1>2, <3>1, GlyphType
  <2>2. CASE Erase
    <3>1. cells' = Glyph(cells, x, y, " ")
      BY <2>2, Zenon DEF Erase
    <3>. QED BY <1>1, <1>2, <3>1, GlyphType, BlinkGlyphs, Zenon
  <2>3. CASE Blink
    <3>1. PICK g \in Glyphs : cells' = Glyph(cells, fbcon_x, fbcon_y, g)
      BY <2>3, BlinkGlyphs, Zenon DEF Blink
    <3>. QED BY <1>1, <1>2, <3>1, GlyphType
  <2>. QED BY <2>1, <2>2, <2>3
<1>4. /\ UNCHANGED <<fbcon_x, fbcon_y, ch, x, y, stores, lines, messages, printing>>
      /\ UNCHANGED <<blinks, hits>> \/ (blinks' = blinks + 1 /\ hits' \in {hits, hits + 1})
      /\ \/ pc = "glyph" /\ pc' = "advance"
         \/ pc = "erase" /\ pc' = "bottom"
         \/ pc' = pc
  <2>1. CASE PrintGlyph
    BY <2>1 DEF PrintGlyph
  <2>2. CASE Erase
    BY <2>2, Zenon DEF Erase
  <2>3. CASE Blink
    BY <2>3, Zenon DEF Blink
  <2>. QED BY <2>1, <2>2, <2>3
<1>5. TypeOK'
  BY <1>3, <1>4 DEF TypeOK, Screens
<1>6. CursorInv'
  BY <1>2, <1>4, SizeFacts DEF CursorInv
<1>. QED BY <1>5, <1>6

\* The steps of fbcon_putc that move the cursor, or the rows.
LEMMA CursorType ==
  ASSUME TypeOK, CursorInv, UNCHANGED printing,
         Advance \/ StoreX \/ StoreY \/ Back \/ Bottom \/ Move \/ Clear \/ Up
  PROVE  TypeOK' /\ CursorInv'
<1>1. UNCHANGED <<ch, lines, printing, blinks, messages, hits>>
  BY DEF Advance, StoreX, StoreY, Back, Bottom, Move, Clear, Up
<1>2. cells' \in Screens
  <2>1. cells \in Screens
    BY DEF TypeOK, Screens
  <2>. QED BY <2>1, MoveType DEF Advance, StoreX, StoreY, Back, Bottom, Move, Clear, Up
<1>3. /\ fbcon_x \in 0 .. W /\ fbcon_y \in 0 .. H /\ x \in 0 .. W /\ y \in 0 .. H
      /\ stores \subseteq {"x", "y"}
  BY DEF TypeOK
<1>. SUFFICES /\ fbcon_x' \in 0 .. W /\ fbcon_y' \in 0 .. H /\ x' \in 0 .. W /\ y' \in 0 .. H
              /\ stores' \subseteq {"x", "y"}
              /\ pc' \in {"end_line", "bottom", "erase", "idle", "move", "clear", "up"}
              /\ CursorInv'
  BY <1>1, <1>2 DEF TypeOK, Screens
<1>4. CASE Advance
  <2>1. PICK cx \in {x, fbcon_x} :
          /\ fbcon_x' = cx + 1 /\ x' = cx + 1
          /\ IF PastRow(cx + 1)
             THEN pc' = "end_line" /\ stores' = {"x", "y"}
             ELSE pc' = "bottom" /\ stores' = stores
    BY <1>4 DEF Advance
  <2>2. pc = "advance" /\ UNCHANGED <<fbcon_y, y>>
    BY <1>4 DEF Advance
  <2>3. cx < W /\ fbcon_y < H /\ y < H /\ stores = {}
    BY <1>3, <2>1, <2>2, SizeFacts DEF CursorInv
  <2>4. (cx + 1 = W <=> PastRow(cx + 1)) /\ cx \in Nat
    BY <1>3, <2>1, <2>3, SizeFacts DEF PastRow
  <2>. QED BY <1>3, <2>1, <2>2, <2>3, <2>4, SizeFacts DEF CursorInv
<1>5. CASE StoreX
  <2>1. /\ pc = "end_line" /\ fbcon_x' = 0 /\ x' = 0
        /\ stores' = stores \ {"x"}
        /\ pc' = IF stores' = {} THEN "bottom" ELSE pc
        /\ UNCHANGED <<fbcon_y, y>>
    BY <1>5 DEF StoreX
  <2>2. (stores = {"x"} /\ stores' = {}) \/ (stores = {"x", "y"} /\ stores' = {"y"})
    BY <1>3, <1>5, <2>1 DEF StoreX
  <2>3. stores' = {"y"} => pc' = "end_line"
    BY <2>1
  <2>. QED BY <1>3, <2>1, <2>2, <2>3, SizeFacts DEF CursorInv
<1>6. CASE StoreY
  <2>1. PICK cy \in {y, fbcon_y} : fbcon_y' = cy + 1 /\ y' = cy + 1
    BY <1>6 DEF StoreY
  <2>2. cy < H /\ cy \in Nat
    BY <1>3, <1>6, <2>1, SizeFacts DEF StoreY, CursorInv
  <2>3. /\ pc = "end_line"
        /\ stores' = stores \ {"y"}
        /\ pc' = IF stores' = {} THEN "bottom" ELSE pc
        /\ UNCHANGED <<fbcon_x, x>>
    BY <1>6 DEF StoreY
  <2>4. (stores = {"y"} /\ stores' = {}) \/ (stores = {"x", "y"} /\ stores' = {"x"})
    BY <1>3, <1>6, <2>3 DEF StoreY
  <2>5. stores' = {"x"} => pc' = "end_line"
    BY <2>3
  <2>. QED BY <1>3, <2>1, <2>2, <2>3, <2>4, <2>5, SizeFacts DEF CursorInv
<1>7. CASE Back
  BY <1>3, <1>7, SizeFacts DEF Back, CursorInv
<1>8. CASE Bottom
  <2>1. PICK cy \in {y, fbcon_y} : pc' = IF PastScreen(cy) THEN "move" ELSE "idle"
    BY <1>8 DEF Bottom
  <2>. QED BY <1>3, <1>8, <2>1, SizeFacts DEF Bottom, CursorInv, PastScreen
<1>9. CASE Move \/ Clear
  BY <1>3, <1>9, SizeFacts DEF Move, Clear, CursorInv
<1>10. CASE Up
  BY <1>3, <1>10, SizeFacts DEF Up, CursorInv
<1>. QED BY <1>4, <1>5, <1>6, <1>7, <1>8, <1>9, <1>10

LEMMA FbconTypeStep == TypeOK /\ CursorInv /\ [Next]_vars => TypeOK' /\ CursorInv'
<1> SUFFICES ASSUME TypeOK, CursorInv, [Next]_vars PROVE TypeOK' /\ CursorInv'
  OBVIOUS
<1>1. CASE PutcStep /\ UNCHANGED printing
  BY <1>1, PutcType, DrawType, CursorType DEF PutcStep
<1>2. CASE Blink /\ UNCHANGED printing
  BY <1>2, DrawType
<1>3. ASSUME NEW str \in Messages, Message(str) PROVE TypeOK' /\ CursorInv'
  <2>1. str \in Seq(Chars \cup {NL})
    BY FbconAssumption, Zenon
  <2>2. /\ printing' = str /\ messages' = messages + 1
        /\ UNCHANGED <<cells, fbcon_x, fbcon_y, show_cursor, pc, ch, x, y, stores, lines, puts,
                       blinks, hits>>
    BY <1>3 DEF Message
  <2>. QED BY <2>1, <2>2 DEF TypeOK, CursorInv
<1>4. CASE MessagePutc
  BY <1>4, MessageStep
<1>5. CASE UNCHANGED vars
  BY <1>5 DEF vars, TypeOK, CursorInv
<1>. QED BY <1>1, <1>2, <1>3, <1>4, <1>5 DEF Next

\* A console is one driver: the other's variables stay.
LEMMA OneDriver == [ConsolesNext]_<<vars, vga, console>> => [Next]_vars
BY DEF ConsolesNext

\* Whatever is printed, whenever the cursor blinks and whichever interrupt prints inside
\* fbcon_putc, the cursor is on the screen or one past it, and between calls it is on it.
THEOREM CursorStays == ConsolesSpec => []CursorOnScreen
<1>1. ConsolesInit => TypeOK /\ CursorInv
  BY FbconTypeInit DEF ConsolesInit
<1>2. TypeOK /\ CursorInv /\ [ConsolesNext]_<<vars, vga, console>> => TypeOK' /\ CursorInv'
  BY FbconTypeStep, OneDriver
<1>3. TypeOK /\ CursorInv => CursorOnScreen
  BY SizeFacts DEF TypeOK, CursorInv, CursorOnScreen
<1>. QED BY <1>1, <1>2, <1>3, PTL DEF ConsolesSpec

-----------------------------------------------------------------------------
\* What a blink costs

\* The text t after a character, a line's end or a backspace, of n lines ls before.
GainsChar(ls, k, n, t) ==
  /\ Len(t) = IF Len(ls[n]) + 1 = W THEN n + 1 ELSE n
  /\ \A i \in 1 .. n - 1 : t[i] = ls[i]
  /\ t[n] = Append(ls[n], k)
  /\ Len(ls[n]) + 1 = W => t[n + 1] = <<>>
GainsLine(ls, n, t) ==
  /\ Len(t) = n + 1
  /\ \A i \in 1 .. n : t[i] = ls[i]
  /\ t[n + 1] = <<>>
LosesChar(ls, n, t) ==
  /\ Len(t) = n
  /\ \A i \in 1 .. n - 1 : t[i] = ls[i]
  /\ Len(t[n]) = IF Len(ls[n]) > 0 THEN Len(ls[n]) - 1 ELSE 0
  /\ \A j \in 1 .. Len(t[n]) : t[n][j] = ls[n][j]

LEMMA TypedChar ==
  ASSUME NEW ls \in Seq(Seq(Chars)), ls # <<>>, NEW k \in Chars
  PROVE  GainsChar(ls, k, Len(ls), Typed(ls, k))
<1>0. PICK n, t : n = Len(ls) /\ t = Typed(ls, k)
  OBVIOUS
<1>. DEFINE new == [ls EXCEPT ![n] = Append(ls[n], k)]
<1>1. n \in Nat /\ n > 0 /\ ls[n] \in Seq(Chars) /\ Append(ls[n], k) \in Seq(Chars)
  BY <1>0
<1>2. /\ new \in Seq(Seq(Chars)) /\ Len(new) = n
      /\ \A i \in 1 .. n - 1 : new[i] = ls[i]
      /\ new[n] = Append(ls[n], k)
  BY <1>0, <1>1
<1>3. t = IF Len(ls[n]) + 1 = W THEN Append(new, <<>>) ELSE new
  BY <1>0, SizeFacts DEF Typed
<1>. HIDE DEF new
<1>4. /\ Len(Append(new, <<>>)) = n + 1 /\ Append(new, <<>>)[n + 1] = <<>>
      /\ \A i \in 1 .. n : Append(new, <<>>)[i] = new[i]
  <2>1. <<>> \in Seq(Chars)
    OBVIOUS
  <2>. QED BY <1>1, <1>2, <2>1, AppendProperties
<1>5. GainsChar(ls, k, n, t)
  BY <1>1, <1>2, <1>3, <1>4 DEF GainsChar
<1>. QED BY <1>0, <1>5

LEMMA TypedNewline ==
  ASSUME NEW ls \in Seq(Seq(Chars))
  PROVE  GainsLine(ls, Len(ls), Typed(ls, NL))
<1>1. Typed(ls, NL) = Append(ls, <<>>) /\ <<>> \in Seq(Chars)
  BY SizeFacts DEF Typed
<1>. QED BY <1>1, AppendProperties DEF GainsLine

LEMMA TypedBackspace ==
  ASSUME NEW ls \in Seq(Seq(Chars)), ls # <<>>
  PROVE  LosesChar(ls, Len(ls), Typed(ls, BS))
<1>0. PICK n, t : n = Len(ls) /\ t = Typed(ls, BS)
  OBVIOUS
<1>. SUFFICES LosesChar(ls, n, t)
  BY <1>0
<1>. DEFINE row == ls[n]
<1>1. n \in Nat /\ n > 0 /\ row \in Seq(Chars)
  BY <1>0
<1>2. t = IF row = <<>> THEN ls ELSE [ls EXCEPT ![n] = SubSeq(row, 1, Len(row) - 1)]
  BY <1>0, SizeFacts DEF Typed
<1>3. CASE row = <<>>
  BY <1>0, <1>1, <1>2, <1>3 DEF LosesChar
<1>4. CASE row # <<>>
  <2>1. /\ SubSeq(row, 1, Len(row) - 1) \in Seq(Chars)
        /\ Len(SubSeq(row, 1, Len(row) - 1)) = Len(row) - 1
        /\ \A j \in 1 .. Len(row) - 1 : SubSeq(row, 1, Len(row) - 1)[j] = row[j]
        /\ Len(row) > 0
    BY <1>1, <1>4
  <2>2. t[n] = SubSeq(row, 1, Len(row) - 1) /\ Len(t) = n /\ \A i \in 1 .. n - 1 : t[i] = ls[i]
    BY <1>0, <1>1, <1>2, <1>4, <2>1
  <2>. QED BY <1>1, <2>1, <2>2 DEF LosesChar
<1>. QED BY <1>3, <1>4

LEMMA WrongFinite ==
  ASSUME TypeOK, TextInv, CursorInv
  PROVE  LastRow \in Nat /\ IsFiniteSet(Wrong)
<1>1. LastRow \in Nat
  BY SizeFacts, SMTT(30) DEF TypeOK, CursorInv, LastRow
<1>2. IsFiniteSet(0 .. LastRow) /\ IsFiniteSet(0 .. W - 1)
  BY <1>1, SizeFacts, FS_Interval, SMTT(30)
<1>3. IsFiniteSet((0 .. LastRow) \X (0 .. W - 1))
  <2>1. \A S, T : IsFiniteSet(S) /\ IsFiniteSet(T) => IsFiniteSet(S \X T)
    BY FS_Product
  <2>. QED BY <1>2, <2>1
<1>4. Wrong \subseteq (0 .. LastRow) \X (0 .. W - 1)
  BY DEF Wrong
<1>. QED BY <1>1, <1>3, <1>4, FS_Subset

LEMMA FewerWrong ==
  ASSUME \A r \in 0 .. LastRow', c \in 0 .. W - 1 :
           IsWrong(r, c)' => r \in 0 .. LastRow /\ IsWrong(r, c)
  PROVE  Wrong' \subseteq Wrong
BY DEF Wrong

\* A call of fbcon_putc: the text gets its character, the screen not yet.
LEMMA PutcShown ==
  ASSUME TypeOK, CursorInv, TextInv, NEW k \in Chars \cup {NL, BS}, Putc(k), UNCHANGED printing
  PROVE  TextInv' /\ Wrong' \subseteq Wrong
<1>0. PICK n : n = Len(lines)
  OBVIOUS
<1>1. /\ pc = "idle" /\ lines' = Typed(lines, k) /\ ch' = k
      /\ x' = fbcon_x /\ y' = fbcon_y
      /\ UNCHANGED <<cells, fbcon_x, fbcon_y>>
  BY DEF Putc
<1>2. /\ stores = {} /\ LastRow = fbcon_y
      /\ fbcon_x \in Nat /\ fbcon_x < W /\ fbcon_y \in Nat /\ fbcon_y < H
      /\ n \in Nat /\ n > fbcon_y /\ Len(lines[n]) = fbcon_x
      /\ lines \in Seq(Seq(Chars)) /\ lines # <<>>
      /\ \A i \in 1 .. n : Len(lines[i]) <= W /\ lines[i] \in Seq(Chars)
  <2>1. stores = {} /\ LastRow = fbcon_y
    BY <1>1 DEF CursorInv, LastRow
  <2>2. /\ fbcon_x \in Nat /\ fbcon_x < W /\ fbcon_y \in Nat /\ fbcon_y < H
        /\ lines \in Seq(Seq(Chars)) /\ lines # <<>>
    BY <1>1, <2>1, SizeFacts DEF TypeOK, CursorInv
  <2>3. n \in Nat /\ \A i \in 1 .. n : lines[i] \in Seq(Chars)
    BY <1>0, <2>2
  <2>4. n > fbcon_y /\ Len(lines[n]) = fbcon_x /\ \A i \in 1 .. n : Len(lines[i]) <= W
    BY <1>0, <1>1, <2>1 DEF TextInv
  <2>. QED BY <2>1, <2>2, <2>3, <2>4
<1>3. printing' = <<>>
  BY DEF TextInv
<1>4. CASE k \in Chars
  <2>1. pc' = "glyph" /\ stores' = {}
    BY <1>4, SizeFacts DEF Putc
  <2>2. /\ Len(lines') = IF fbcon_x + 1 = W THEN n + 1 ELSE n
        /\ \A i \in 1 .. n - 1 : lines'[i] = lines[i]
        /\ lines'[n] = Append(lines[n], k)
        /\ fbcon_x + 1 = W => lines'[n + 1] = <<>>
    <3>1. GainsChar(lines, k, n, lines')
      BY <1>0, <1>1, <1>2, <1>4, TypedChar
    <3>. QED BY <1>2, <3>1 DEF GainsChar
  <2>3. /\ Len(Append(lines[n], k)) = fbcon_x + 1 /\ Append(lines[n], k)[fbcon_x + 1] = k
        /\ \A c \in 1 .. fbcon_x : Append(lines[n], k)[c] = lines[n][c]
    <3>1. lines[n] \in Seq(Chars) /\ Len(lines[n]) = fbcon_x /\ fbcon_x \in Nat
      BY <1>2
    <3>. QED BY ONLY k \in Chars, <1>4, <3>1, AppendProperties
  <2>4. LastRow' = IF fbcon_x + 1 = W THEN fbcon_y + 1 ELSE fbcon_y
    BY <1>1, <2>1 DEF LastRow
  <2>5. Len(lines') - LastRow' = n - fbcon_y
    BY <1>2, <2>2, <2>4
  <2>6. \A r \in 0 .. fbcon_y : LineAt(r)' = lines'[n - fbcon_y + r]
    BY <2>5 DEF LineAt
  <2>7. LineAt(fbcon_y)' = Append(lines[n], k)
    <3>1. LineAt(fbcon_y)' = lines'[Len(lines') - LastRow' + fbcon_y]
      BY <1>1 DEF LineAt
    <3>. QED BY <1>2, <2>2, <2>5, <3>1, SMTT(30)
  <2>8. TextInv'
    <3>1. /\ Len(lines'[Len(lines')]) < W
          /\ \A i \in 1 .. Len(lines') : Len(lines'[i]) <= W
          /\ fbcon_x + 1 = W => lines'[Len(lines')] = <<>>
      <4>1. CASE fbcon_x + 1 = W
        <5>1. Len(lines') = n + 1
          BY <2>2, <4>1
        <5>2. ASSUME NEW i \in 1 .. n + 1 PROVE Len(lines'[i]) <= W
          <6>1. i \in 1 .. n - 1 \/ i = n \/ i = n + 1
            BY <1>2
          <6>2. CASE i \in 1 .. n - 1
            <7>1. lines'[i] = lines[i] /\ i \in 1 .. n
              BY <1>2, <2>2, <6>2
            <7>. QED BY <1>2, <7>1
          <6>3. CASE i = n
            BY <1>2, <2>2, <2>3, <6>3, SizeFacts
          <6>4. CASE i = n + 1
            <7>1. lines'[i] = <<>>
              BY <2>2, <4>1, <6>4
            <7>. QED BY <7>1, SizeFacts
          <6>. QED BY <6>1, <6>2, <6>3, <6>4
        <5>. QED BY <1>2, <2>2, <4>1, <5>1, <5>2
      <4>2. CASE fbcon_x + 1 # W
        <5>1. Len(lines') = n
          BY <2>2, <4>2
        <5>2. Len(lines'[n]) = fbcon_x + 1
          BY <2>2, <2>3
        <5>3. ASSUME NEW i \in 1 .. n PROVE Len(lines'[i]) <= W
          <6>1. CASE i = n
            BY <1>2, <5>2, <6>1, SizeFacts
          <6>2. CASE i # n
            <7>1. i \in 1 .. n - 1
              BY <1>2, <6>2
            <7>2. lines'[i] = lines[i]
              BY <2>2, <7>1
            <7>. QED BY <1>2, <7>2
          <6>. QED BY <6>1, <6>2
        <5>4. fbcon_x + 1 < W
          BY <1>2, <4>2, SizeFacts
        <5>. QED BY <4>2, <5>1, <5>2, <5>3, <5>4
      <4>. QED BY <4>1, <4>2
    <3>2. Len(lines') > LastRow' /\ LastRow' <= H
      BY <1>2, <2>2, <2>4, SizeFacts
    <3>3. LastRow' = H => lines'[Len(lines')] = <<>>
      BY <1>2, <2>4, <3>1, SizeFacts
    <3>4. /\ Len(LineAt(fbcon_y)') = fbcon_x + 1
          /\ LineAt(fbcon_y)'[fbcon_x + 1] = ch'
      BY <1>1, <2>3, <2>7
    <3>. QED BY <1>1, <1>3, <2>1, <3>1, <3>2, <3>3, <3>4 DEF TextInv, LineAt
  <2>9. ASSUME NEW r \in 0 .. LastRow', NEW c \in 0 .. W - 1, IsWrong(r, c)'
        PROVE  r \in 0 .. LastRow /\ IsWrong(r, c)
    <3>1. CASE r < fbcon_y
      <4>1. LineAt(r)' = LineAt(r)
        <5>1. LineAt(r) = lines[n - fbcon_y + r]
          BY <1>0, <1>2 DEF LineAt
        <5>2. n - fbcon_y + r \in 1 .. n - 1 /\ r \in 0 .. fbcon_y
          BY <1>2, <2>4, <3>1
        <5>. QED BY <2>2, <2>6, <5>1, <5>2
      <4>. QED BY <1>1, <1>2, <2>9, <3>1, <4>1 DEF IsWrong
    <3>2. CASE r = fbcon_y
      <4>1. LineAt(r) = lines[n]
        BY <1>0, <1>2, <3>2 DEF LineAt
      <4>2. LineAt(r)' = Append(lines[n], k)
        BY <2>7, <3>2, <1>1
      <4>3. c # fbcon_x /\ c < fbcon_x + 1
        BY <1>1, <2>1, <2>3, <2>9, <3>2, <4>2 DEF IsWrong
      <4>. QED BY <1>1, <1>2, <2>3, <2>9, <3>2, <4>1, <4>2, <4>3 DEF IsWrong
    <3>3. CASE r > fbcon_y
      <4>1. r = fbcon_y + 1 /\ fbcon_x + 1 = W
        BY <1>2, <2>4, <3>3
      <4>2. LineAt(r)' = <<>>
        BY <1>0, <1>2, <2>2, <2>5, <4>1 DEF LineAt
      <4>. QED BY <2>9, <4>2 DEF IsWrong
    <3>. QED BY <1>2, <3>1, <3>2, <3>3
  <2>. QED BY <2>8, <2>9, FewerWrong
<1>5. CASE k = NL
  <2>1. pc' = "end_line" /\ stores' = {"x", "y"}
    BY <1>5, SizeFacts DEF Putc
  <2>2. Len(lines') = n + 1 /\ (\A i \in 1 .. n : lines'[i] = lines[i]) /\ lines'[n + 1] = <<>>
    <3>1. GainsLine(lines, n, lines')
      BY <1>0, <1>1, <1>2, <1>5, TypedNewline
    <3>. QED BY <3>1 DEF GainsLine
  <2>3. LastRow' = fbcon_y + 1
    BY <1>1, <2>1 DEF LastRow
  <2>4. TextInv'
    <3>1. stores' # {} /\ stores' # {"y"}
      BY <2>1
    <3>2. ASSUME NEW i \in 1 .. n + 1 PROVE Len(lines'[i]) <= W
      <4>1. CASE i \in 1 .. n
        <5>1. lines'[i] = lines[i]
          BY <2>2, <4>1
        <5>. QED BY <1>2, <4>1, <5>1
      <4>2. CASE i \notin 1 .. n
        <5>1. lines'[i] = <<>>
          BY <1>2, <2>2, <4>2
        <5>. QED BY <5>1, SizeFacts
      <4>. QED BY <4>1, <4>2
    <3>3. Len(lines') > LastRow' /\ LastRow' <= H /\ lines'[Len(lines')] = <<>>
      BY <1>2, <2>2, <2>3, SizeFacts
    <3>4. Len(lines'[Len(lines')]) < W
      BY <3>3, SizeFacts
    <3>. QED BY <1>1, <1>3, <2>1, <2>2, <3>1, <3>2, <3>3, <3>4 DEF TextInv
  <2>5. ASSUME NEW r \in 0 .. LastRow', NEW c \in 0 .. W - 1, IsWrong(r, c)'
        PROVE  r \in 0 .. LastRow /\ IsWrong(r, c)
    <3>1. LineAt(r)' = lines'[n - fbcon_y + r]
      BY <1>0, <1>2, <2>2, <2>3 DEF LineAt
    <3>2. r \in 0 .. fbcon_y
      BY <1>2, <2>2, <2>3, <2>5, <3>1, SMTT(30) DEF IsWrong
    <3>3. LineAt(r)' = LineAt(r)
      <4>1. LineAt(r) = lines[n - fbcon_y + r]
        BY <1>0, <1>2 DEF LineAt
      <4>2. n - fbcon_y + r \in 1 .. n
        BY <1>2, <3>2
      <4>. QED BY <2>2, <3>1, <4>1, <4>2
    <3>. QED BY <1>1, <1>2, <2>5, <3>2, <3>3 DEF IsWrong
  <2>. QED BY <2>4, <2>5, FewerWrong
<1>6. CASE k = BS
  <2>1. pc' = "back" /\ stores' = {}
    BY <1>6, SizeFacts DEF Putc
  <2>2. /\ Len(lines') = n
        /\ \A i \in 1 .. n - 1 : lines'[i] = lines[i]
        /\ Len(lines'[n]) = IF fbcon_x > 0 THEN fbcon_x - 1 ELSE 0
        /\ \A j \in 1 .. Len(lines'[n]) : lines'[n][j] = lines[n][j]
    <3>1. LosesChar(lines, n, lines')
      BY <1>0, <1>1, <1>2, <1>6, TypedBackspace
    <3>. QED BY <1>2, <3>1 DEF LosesChar
  <2>3. LastRow' = fbcon_y
    BY <1>1, <2>1 DEF LastRow
  <2>4. TextInv'
    <3>1. Len(lines'[n]) < W
      BY <1>2, <2>2, SizeFacts
    <3>2. \A i \in 1 .. n : Len(lines'[i]) <= W
      <4>1. ASSUME NEW i \in 1 .. n PROVE Len(lines'[i]) <= W
        <5>1. CASE i = n
          BY <1>2, <2>2, <5>1, SizeFacts
        <5>2. CASE i \in 1 .. n - 1
          BY <1>2, <2>2, <5>2
        <5>. QED BY <1>2, <5>1, <5>2
      <4>. QED BY <4>1
    <3>3. n > fbcon_y /\ fbcon_y <= H /\ fbcon_y # H
      BY <1>2, SizeFacts
    <3>. QED BY <1>1, <1>3, <2>1, <2>2, <2>3, <3>1, <3>2, <3>3 DEF TextInv
  <2>5. ASSUME NEW r \in 0 .. LastRow', NEW c \in 0 .. W - 1, IsWrong(r, c)'
        PROVE  r \in 0 .. LastRow /\ IsWrong(r, c)
    <3>1. LineAt(r)' = lines'[n - fbcon_y + r] /\ LineAt(r) = lines[n - fbcon_y + r]
      BY <1>0, <1>2, <2>2, <2>3 DEF LineAt
    <3>2. CASE r < fbcon_y
      BY <1>1, <1>2, <2>2, <2>3, <2>5, <3>1, <3>2 DEF IsWrong
    <3>3. CASE r = fbcon_y
      <4>1. LineAt(r)' = lines'[n] /\ LineAt(r) = lines[n]
        BY <1>2, <3>1, <3>3
      <4>2. c < Len(lines'[n]) /\ cells[r][c] # lines'[n][c + 1]
        BY <1>1, <2>5, <4>1 DEF IsWrong
      <4>3. c + 1 \in 1 .. Len(lines'[n]) /\ c < Len(lines[n])
        BY <1>2, <2>2, <4>2
      <4>. QED BY <1>1, <1>2, <2>2, <2>3, <4>1, <4>2, <4>3 DEF IsWrong
    <3>. QED BY <1>2, <2>3, <3>2, <3>3
  <2>. QED BY <2>4, <2>5, FewerWrong
<1>. QED BY <1>4, <1>5, <1>6

LEMMA GlyphCells ==
  ASSUME NEW s \in Screens, NEW cx \in 0 .. W, NEW cy \in 0 .. H, NEW g,
         NEW r \in Rows, NEW c \in 0 .. W - 1, Glyph(s, cx, cy, g)[r][c] # s[r][c]
  PROVE  \/ cx < W /\ r = cy /\ c = cx /\ Glyph(s, cx, cy, g)[r][c] = g
         \/ cx = W /\ r \in {cy, cy + 1} /\ c = 0
<1>1. CASE cx < W
  <2>1. cx \in 0 .. W - 1 /\ cy \in Rows
    BY <1>1, SizeFacts
  <2>2. Glyph(s, cx, cy, g) = [s EXCEPT ![cy] = [s[cy] EXCEPT ![cx] = g]]
    BY <1>1 DEF Glyph
  <2>. QED BY <1>1, <2>1, <2>2 DEF Screens
<1>2. CASE ~(cx < W)
  <2>1. 0 \in 0 .. W - 1 /\ cy \in Rows /\ cy + 1 \in Rows /\ cy # cy + 1
    BY SizeFacts
  <2>2. Glyph(s, cx, cy, g) = [s EXCEPT ![cy] = [s[cy] EXCEPT ![0] = Mixed],
                                        ![cy + 1] = [s[cy + 1] EXCEPT ![0] = Mixed]]
    BY <1>2, <2>1 DEF Glyph, Screens
  <2>. QED BY <1>2, <2>1, <2>2, SizeFacts DEF Screens
<1>. QED BY <1>1, <1>2

LEMMA GlyphDrawn ==
  ASSUME NEW s \in Screens, NEW cx \in 0 .. W, cx < W, NEW cy \in 0 .. H, NEW g
  PROVE  Glyph(s, cx, cy, g)[cy][cx] = g
<1>1. cx \in 0 .. W - 1 /\ cy \in Rows
  BY SizeFacts
<1>2. Glyph(s, cx, cy, g) = [s EXCEPT ![cy] = [s[cy] EXCEPT ![cx] = g]]
  BY DEF Glyph
<1>. QED BY <1>1, <1>2 DEF Screens

LEMMA SameWrong ==
  ASSUME UNCHANGED <<lines, cells>>, LastRow' = LastRow, pc # "glyph"
  PROVE  Wrong' \subseteq Wrong
<1>1. ASSUME NEW r \in 0 .. LastRow', NEW c \in 0 .. W - 1, IsWrong(r, c)'
      PROVE  r \in 0 .. LastRow /\ IsWrong(r, c)
  BY <1>1 DEF IsWrong, LineAt
<1>. QED BY <1>1, FewerWrong

\* The cells that are drawn: the character of the text, or a blank past the end of it.
LEMMA DrawShown ==
  ASSUME TypeOK, CursorInv, TextInv, PrintGlyph \/ Erase, UNCHANGED printing
  PROVE  TextInv' /\ Wrong' \subseteq Wrong
<1>1. /\ UNCHANGED <<lines, fbcon_x, fbcon_y, ch, x, y, stores>>
      /\ \/ pc = "glyph" /\ pc' = "advance" /\ cells' = Glyph(cells, x, y, ch)
         \/ pc = "erase" /\ pc' = "bottom" /\ cells' = Glyph(cells, x, y, " ")
  BY Zenon DEF PrintGlyph, Erase
<1>2. /\ stores = {} /\ x = fbcon_x /\ y = fbcon_y
      /\ fbcon_x \in 0 .. W /\ fbcon_x < W /\ fbcon_y \in 0 .. H /\ fbcon_y < H
      /\ cells \in Screens
  BY <1>1, SizeFacts DEF TypeOK, CursorInv, TextInv, Screens
<1>3. LastRow' = LastRow /\ LastRow \in 0 .. H
  <2>1. LastRow' = LastRow
    BY <1>1, <1>2 DEF LastRow
  <2>2. pc \in {"glyph", "erase"}
    BY <1>1
  <2>. QED BY <1>2, <2>1, <2>2, SizeFacts DEF LastRow
<1>4. LineAt(fbcon_y)' = LineAt(fbcon_y)
  BY <1>1, <1>3 DEF LineAt
<1>5. TextInv'
  BY <1>1, <1>2, <1>3, <1>4 DEF TextInv
<1>6. ASSUME NEW r \in 0 .. LastRow', NEW c \in 0 .. W - 1, IsWrong(r, c)'
      PROVE  r \in 0 .. LastRow /\ IsWrong(r, c)
  <2>1. LineAt(r)' = LineAt(r)
    BY <1>1, <1>3 DEF LineAt
  <2>2. r \in Rows /\ r \in 0 .. LastRow
    BY <1>3, SizeFacts
  <2>3. c < Len(LineAt(r)) /\ cells'[r][c] # LineAt(r)[c + 1]
    BY <1>6, <2>1 DEF IsWrong
  <2>4. ~(r = y /\ c = x)
    <3>1. CASE pc = "glyph"
      <4>1. cells'[y][x] = ch
        BY <1>1, <1>2, <3>1, GlyphDrawn
      <4>2. LineAt(fbcon_y)[fbcon_x + 1] = ch
        BY <3>1 DEF TextInv
      <4>. QED BY <1>2, <2>3, <4>1, <4>2
    <3>2. CASE pc = "erase"
      <4>1. Len(LineAt(fbcon_y)) = fbcon_x
        BY <1>2, <3>2, SizeFacts DEF TextInv, LineAt, LastRow, TypeOK
      <4>. QED BY <1>2, <2>3, <4>1
    <3>. QED BY <1>1, <3>1, <3>2
  <2>5. cells'[r][c] = cells[r][c]
    <3>1. PICK g : cells' = Glyph(cells, x, y, g)
      BY <1>1, Zenon
    <3>. QED BY <1>2, <2>2, <2>4, <3>1, GlyphCells
  <2>. QED BY <1>2, <2>2, <2>3, <2>4, <2>5 DEF IsWrong
<1>. QED BY <1>5, <1>6, FewerWrong

\* The cursor moves and no cell changes.
LEMMA CursorShown ==
  ASSUME TypeOK, CursorInv, TextInv, UNCHANGED printing,
         Advance \/ StoreX \/ StoreY \/ Back \/ Bottom \/ Up
  PROVE  TextInv' /\ Wrong' \subseteq Wrong
<1>1. UNCHANGED <<lines, cells, ch>>
  BY DEF Advance, StoreX, StoreY, Back, Bottom, Up
<1>2. /\ fbcon_x \in 0 .. W /\ fbcon_y \in 0 .. H /\ stores \subseteq {"x", "y"}
      /\ pc # "idle" /\ x = fbcon_x /\ y = fbcon_y /\ pc # "glyph"
  BY DEF TypeOK, CursorInv, TextInv, Advance, StoreX, StoreY, Back, Bottom, Up
<1>3. PICK n : n = Len(lines)
  OBVIOUS
<1>. SUFFICES TextInv' /\ LastRow' = LastRow
  BY <1>1, <1>2, SameWrong
<1>4. CASE Advance
  <2>1. /\ pc = "advance" /\ fbcon_x' = fbcon_x + 1 /\ x' = fbcon_x + 1
        /\ IF PastRow(fbcon_x + 1)
           THEN pc' = "end_line" /\ stores' = {"x", "y"}
           ELSE pc' = "bottom" /\ stores' = stores
        /\ UNCHANGED <<fbcon_y, y>>
    BY <1>2, <1>4 DEF Advance
  <2>2. stores = {} /\ fbcon_x < W /\ fbcon_y < H
    BY <1>2, <2>1, SizeFacts DEF CursorInv
  <2>3. fbcon_x + 1 = W <=> PastRow(fbcon_x + 1)
    BY <1>2, <2>2, SizeFacts DEF PastRow
  <2>4. LastRow' = LastRow /\ LastRow = IF fbcon_x + 1 = W THEN fbcon_y + 1 ELSE fbcon_y
    BY <2>1, <2>2, <2>3 DEF LastRow
  <2>5. fbcon_x + 1 = W => lines[Len(lines)] = <<>>
    BY <2>1 DEF TextInv
  <2>6. fbcon_x + 1 # W => Len(lines[Len(lines)]) = fbcon_x + 1
    BY <1>2, <2>1, <2>4 DEF TextInv, LineAt, TypeOK
  <2>7. stores' # {"y"}
    BY <2>1, <2>2
  <2>. QED BY <1>1, <1>2, <2>1, <2>2, <2>3, <2>4, <2>5, <2>6, <2>7 DEF TextInv
<1>5. CASE StoreX
  <2>1. /\ pc = "end_line" /\ fbcon_x' = 0 /\ x' = 0
        /\ stores' = stores \ {"x"}
        /\ pc' = IF stores' = {} THEN "bottom" ELSE pc
        /\ UNCHANGED <<fbcon_y, y>>
    BY <1>5 DEF StoreX
  <2>2. LastRow' = LastRow
    BY <1>2, <2>1 DEF LastRow
  <2>3. stores # {} /\ lines[Len(lines)] = <<>>
    BY <1>5 DEF StoreX, TextInv
  <2>. QED BY <1>1, <1>2, <2>1, <2>2, <2>3 DEF TextInv
<1>6. CASE StoreY
  <2>1. /\ pc = "end_line" /\ fbcon_y' = fbcon_y + 1 /\ y' = fbcon_y + 1
        /\ "y" \in stores /\ stores' = stores \ {"y"}
        /\ pc' = IF stores' = {} THEN "bottom" ELSE pc
        /\ UNCHANGED <<fbcon_x, x>>
    BY <1>2, <1>6 DEF StoreY
  <2>2. LastRow' = LastRow
    BY <1>2, <2>1 DEF LastRow
  <2>3. stores # {} /\ lines[Len(lines)] = <<>>
    BY <2>1 DEF TextInv
  <2>4. stores' = {} => fbcon_x = 0
    <3>1. stores' = {} => stores = {"y"}
      BY <1>2, <2>1
    <3>. QED BY <3>1 DEF TextInv
  <2>5. stores' # {"y"}
    BY <2>1
  <2>. QED BY <1>1, <1>2, <2>1, <2>2, <2>3, <2>4, <2>5 DEF TextInv
<1>7. CASE Back
  <2>1. /\ pc = "back" /\ UNCHANGED <<fbcon_y, y, stores>>
        /\ IF fbcon_x > 0
           THEN fbcon_x' = fbcon_x - 1 /\ x' = fbcon_x - 1 /\ pc' = "erase"
           ELSE pc' = "bottom" /\ fbcon_x' = fbcon_x /\ x' = x
    BY <1>2, <1>7 DEF Back
  <2>2. LastRow' = LastRow
    BY <1>2, <2>1 DEF LastRow
  <2>3. Len(lines[Len(lines)]) = IF fbcon_x > 0 THEN fbcon_x - 1 ELSE 0
    BY <2>1 DEF TextInv
  <2>4. stores = {}
    BY <2>1 DEF CursorInv
  <2>. QED BY <1>1, <1>2, <2>1, <2>2, <2>3, <2>4 DEF TextInv
<1>8. CASE Bottom
  <2>1. /\ pc = "bottom" /\ pc' = IF PastScreen(fbcon_y) THEN "move" ELSE "idle"
        /\ UNCHANGED <<fbcon_x, fbcon_y, x, y, stores>>
    BY <1>2, <1>8 DEF Bottom
  <2>2. LastRow' = LastRow
    BY <1>2, <2>1 DEF LastRow
  <2>3. PastScreen(fbcon_y) => fbcon_y = H
    BY <1>2, SizeFacts DEF PastScreen
  <2>. QED BY <1>1, <1>2, <2>1, <2>2, <2>3 DEF TextInv
<1>9. CASE Up
  <2>1. /\ pc = "up" /\ pc' = "idle" /\ fbcon_y' = fbcon_y - 1
        /\ UNCHANGED <<fbcon_x, x, y, stores>>
    BY <1>9 DEF Up
  <2>2. LastRow' = LastRow /\ stores = {}
    BY <1>2, <2>1 DEF LastRow, CursorInv
  <2>. QED BY <1>1, <1>2, <2>1, <2>2 DEF TextInv
<1>. QED BY <1>4, <1>5, <1>6, <1>7, <1>8, <1>9

\* The rows move up, and with them the cells that are wrong.
LEMMA RowsShown ==
  ASSUME TypeOK, CursorInv, TextInv, Move, UNCHANGED printing
  PROVE  TextInv' /\ IsFiniteSet(Wrong') /\ Cardinality(Wrong') <= Cardinality(Wrong)
<1>1. /\ pc = "move" /\ pc' = "clear" /\ cells' = MoveRows(cells)
      /\ UNCHANGED <<lines, ch, x, y, stores, fbcon_x, fbcon_y>>
  BY DEF Move
<1>2. /\ stores = {} /\ fbcon_y = H /\ cells \in Screens
      /\ LastRow = H /\ LastRow' = H - 1
  BY <1>1, SizeFacts DEF CursorInv, TextInv, TypeOK, Screens, LastRow
<1>3. TextInv'
  BY <1>1, <1>2, SizeFacts DEF TextInv
<1>4. ASSUME NEW r \in 0 .. LastRow', NEW c \in 0 .. W - 1, IsWrong(r, c)'
      PROVE  r + 1 \in 0 .. LastRow /\ IsWrong(r + 1, c)
  <2>1. r + 1 \in 0 .. LastRow /\ r \in Rows /\ r < H
    BY <1>2, SizeFacts
  <2>2. LineAt(r)' = LineAt(r + 1)
    BY <1>1, <1>2, SizeFacts DEF LineAt, TypeOK
  <2>3. cells'[r][c] = cells[r + 1][c]
    BY <1>1, <1>2, <2>1 DEF MoveRows
  <2>. QED BY <1>1, <1>4, <2>1, <2>2, <2>3 DEF IsWrong
<1>5. PICK f : f = [rc \in Wrong' |-> <<rc[1] + 1, rc[2]>>]
  OBVIOUS
<1>6. f \in Injection(Wrong', Wrong)
  <2>1. ASSUME NEW rc \in Wrong'
        PROVE  f[rc] \in Wrong /\ f[rc] = <<rc[1] + 1, rc[2]>> /\ rc = <<rc[1], rc[2]>>
               /\ rc[1] \in Nat
    BY <1>2, <1>4, <1>5, SizeFacts DEF Wrong
  <2>. QED BY <1>5, <2>1 DEF Injection, IsInjective
<1>. QED BY <1>3, <1>6, WrongFinite, FS_Injection

\* The row behind the screen is cleared, where no text is any more.
LEMMA ClearShown ==
  ASSUME TypeOK, CursorInv, TextInv, Clear, UNCHANGED printing
  PROVE  TextInv' /\ Wrong' \subseteq Wrong
<1>1. /\ pc = "clear" /\ pc' = "up" /\ cells' = ClearRow(cells)
      /\ UNCHANGED <<lines, ch, x, y, stores, fbcon_x, fbcon_y>>
  BY Zenon DEF Clear
<1>2. /\ stores = {} /\ fbcon_y = H /\ cells \in Screens
      /\ LastRow = H - 1 /\ LastRow' = H - 1
  BY <1>1, SizeFacts DEF CursorInv, TextInv, TypeOK, Screens, LastRow
<1>3. TextInv'
  BY <1>1, <1>2, SizeFacts DEF TextInv
<1>4. ASSUME NEW r \in 0 .. LastRow', NEW c \in 0 .. W - 1, IsWrong(r, c)'
      PROVE  r \in 0 .. LastRow /\ IsWrong(r, c)
  <2>1. r \in Rows /\ r # H
    BY <1>2, SizeFacts
  <2>2. LineAt(r)' = LineAt(r)
    BY <1>1, <1>2 DEF LineAt
  <2>3. cells'[r] = cells[r]
    <3>1. PICK blank : cells' = [cells EXCEPT ![H] = blank]
      BY <1>1, Zenon DEF ClearRow
    <3>. QED BY <1>2, <2>1, <3>1 DEF Screens
  <2>. QED BY <1>1, <1>2, <1>4, <2>2, <2>3 DEF IsWrong
<1>. QED BY <1>3, <1>4, FewerWrong

\* A blink spoils nothing between two characters and at most one cell inside fbcon_putc.
LEMMA BlinkShown ==
  ASSUME TypeOK, CursorInv, TextInv, Blink, UNCHANGED printing, Cardinality(Wrong) <= hits
  PROVE  TextInv' /\ Cardinality(Wrong') <= hits'
<1>1. PICK g \in Glyphs : cells' = Glyph(cells, fbcon_x, fbcon_y, g)
  BY BlinkGlyphs, Zenon DEF Blink
<1>2. /\ UNCHANGED <<lines, pc, ch, x, y, stores, fbcon_x, fbcon_y>>
      /\ hits' = IF pc = "idle" THEN hits ELSE hits + 1
  BY Zenon DEF Blink
<1>3. /\ LastRow' = LastRow /\ LastRow \in Nat /\ IsFiniteSet(Wrong)
      /\ fbcon_x \in 0 .. W /\ fbcon_y \in 0 .. H /\ cells \in Screens /\ hits \in Nat
  BY <1>2, WrongFinite DEF LastRow, TypeOK, Screens
<1>4. TextInv'
  BY <1>2, <1>3 DEF TextInv, LineAt
<1>5. PICK bad : bad = <<fbcon_y, IF fbcon_x < W THEN fbcon_x ELSE 0>>
  OBVIOUS
<1>6. ASSUME NEW r \in 0 .. LastRow', NEW c \in 0 .. W - 1, IsWrong(r, c)', ~IsWrong(r, c)
      PROVE  pc # "idle" /\ <<r, c>> = bad
  <2>1. LineAt(r)' = LineAt(r) /\ r \in Rows
    BY <1>2, <1>3, SizeFacts DEF LineAt, TextInv
  <2>2. c < Len(LineAt(r)) /\ cells'[r][c] # cells[r][c]
    BY <1>2, <1>6, <2>1 DEF IsWrong
  <2>3. \/ fbcon_x < W /\ r = fbcon_y /\ c = fbcon_x
        \/ fbcon_x = W /\ r \in {fbcon_y, fbcon_y + 1} /\ c = 0
    BY <1>1, <1>3, <2>1, <2>2, GlyphCells
  <2>4. LineAt(LastRow) = lines[Len(lines)]
    BY <1>3 DEF LineAt, TypeOK
  <2>5. pc # "idle"
    <3>1. ASSUME pc = "idle" PROVE FALSE
      <4>1. LastRow = fbcon_y /\ fbcon_x < W
        BY <1>3, <3>1, SizeFacts DEF LastRow, CursorInv
      <4>2. Len(lines[Len(lines)]) = fbcon_x
        BY <3>1 DEF TextInv
      <4>. QED BY <1>3, <2>2, <2>3, <2>4, <4>1, <4>2
    <3>. QED BY <3>1
  <2>6. ~(fbcon_x = W /\ r = fbcon_y + 1)
    <3>1. ASSUME fbcon_x = W, r = fbcon_y + 1 PROVE FALSE
      <4>1. "x" \in stores
        BY <3>1 DEF CursorInv
      <4>2. lines[Len(lines)] = <<>>
        BY <4>1 DEF TextInv
      <4>3. LastRow \in {fbcon_y, fbcon_y + 1}
        BY <1>3, <3>1, <4>1 DEF LastRow, CursorInv
      <4>4. r = LastRow
        BY <1>3, <3>1, <4>3
      <4>. QED BY <1>3, <2>2, <2>4, <4>2, <4>4
    <3>. QED BY <3>1
  <2>. QED BY <1>3, <1>5, <2>3, <2>5, <2>6
<1>7. CASE pc = "idle"
  <2>1. Wrong' \subseteq Wrong
    BY <1>3, <1>6, <1>7, FewerWrong
  <2>2. Cardinality(Wrong') <= Cardinality(Wrong)
    BY <1>3, <2>1, FS_Subset
  <2>3. Cardinality(Wrong) \in Nat /\ Cardinality(Wrong') \in Nat
    BY <1>3, <2>1, FS_Subset, FS_CardinalityType
  <2>. QED BY <1>2, <1>3, <1>4, <1>7, <2>2, <2>3
<1>8. CASE pc # "idle"
  <2>1. Wrong' \subseteq Wrong \cup {bad}
    BY <1>3, <1>6 DEF Wrong
  <2>2. /\ IsFiniteSet(Wrong \cup {bad})
        /\ Cardinality(Wrong \cup {bad}) <= Cardinality(Wrong) + 1
        /\ Cardinality(Wrong) \in Nat
    <3>1. Cardinality(Wrong) \in Nat
      BY <1>3, FS_CardinalityType
    <3>2. /\ IsFiniteSet(Wrong \cup {bad})
          /\ Cardinality(Wrong \cup {bad}) =
               IF bad \in Wrong THEN Cardinality(Wrong) ELSE Cardinality(Wrong) + 1
      BY <1>3, FS_AddElement, Zenon
    <3>. QED BY <3>1, <3>2
  <2>3. Cardinality(Wrong') <= Cardinality(Wrong \cup {bad}) /\ Cardinality(Wrong') \in Nat
    BY <2>1, <2>2, FS_Subset, FS_CardinalityType
  <2>4. Cardinality(Wrong \cup {bad}) \in Nat
    BY <2>2, FS_CardinalityType
  <2>. QED BY <1>2, <1>3, <1>4, <1>8, <2>2, <2>3, <2>4
<1>. QED BY <1>7, <1>8

LEMMA FbconInit == Init => FbconInv
<1> SUFFICES ASSUME Init PROVE FbconInv
  OBVIOUS
<1>1. TypeOK /\ CursorInv
  BY FbconTypeInit
<1>2. /\ lines = << <<>> >> /\ printing = <<>> /\ pc = "idle" /\ stores = {}
      /\ fbcon_x = 0 /\ fbcon_y = 0 /\ hits = 0
  BY DEF Init
<1>3. LastRow = 0 /\ Len(lines) = 1 /\ lines[1] = <<>>
  BY <1>2 DEF LastRow
<1>4. TextInv
  BY <1>2, <1>3, SizeFacts DEF TextInv
<1>5. Wrong = {}
  BY <1>3 DEF Wrong, IsWrong, LineAt
<1>. QED BY <1>1, <1>2, <1>4, <1>5, FS_EmptySet DEF FbconInv

LEMMA FbconStep == FbconInv /\ [Next]_vars => FbconInv'
<1> SUFFICES ASSUME FbconInv, [Next]_vars, messages' = 0
             PROVE  TextInv' /\ Cardinality(Wrong') <= hits'
  BY FbconTypeStep DEF FbconInv
<1>1. TypeOK /\ CursorInv /\ messages \in Nat /\ hits \in Nat
  BY DEF FbconInv, TypeOK
<1>2. messages = 0 /\ UNCHANGED messages
  <2>1. UNCHANGED messages \/ messages' = messages + 1
    BY Zenon DEF Next, vars, PutcStep, Putc, PrintGlyph, Advance, StoreX, StoreY, Back, Erase,
                 Bottom, Move, Clear, Up, Blink, Message, MessagePutc
  <2>. QED BY <1>1, <2>1
<1>3. TextInv /\ Cardinality(Wrong) <= hits
  BY <1>2 DEF FbconInv
<1>4. IsFiniteSet(Wrong) /\ Cardinality(Wrong) \in Nat
  BY <1>1, <1>3, WrongFinite, FS_CardinalityType
<1>5. ASSUME Wrong' \subseteq Wrong, UNCHANGED hits PROVE Cardinality(Wrong') <= hits'
  <2>1. Cardinality(Wrong') <= Cardinality(Wrong) /\ Cardinality(Wrong') \in Nat
    BY <1>4, <1>5, FS_Subset, FS_CardinalityType
  <2>. QED BY <1>1, <1>3, <1>4, <1>5, <2>1
<1>6. ASSUME NEW k \in Chars \cup {NL, BS}, Putc(k), UNCHANGED printing
      PROVE  TextInv' /\ Cardinality(Wrong') <= hits'
  BY <1>1, <1>3, <1>5, <1>6, PutcShown DEF Putc
<1>7. ASSUME PrintGlyph \/ Erase, UNCHANGED printing
      PROVE  TextInv' /\ Cardinality(Wrong') <= hits'
  <2>1. UNCHANGED hits
    BY <1>7, Zenon DEF PrintGlyph, Erase
  <2>. QED BY <1>1, <1>3, <1>5, <1>7, <2>1, DrawShown
<1>8. ASSUME Advance \/ StoreX \/ StoreY \/ Back \/ Bottom \/ Up, UNCHANGED printing
      PROVE  TextInv' /\ Cardinality(Wrong') <= hits'
  <2>1. UNCHANGED hits
    BY <1>8 DEF Advance, StoreX, StoreY, Back, Bottom, Up
  <2>. QED BY <1>1, <1>3, <1>5, <1>8, <2>1, CursorShown
<1>9. ASSUME Move, UNCHANGED printing PROVE TextInv' /\ Cardinality(Wrong') <= hits'
  <2>1. UNCHANGED hits
    BY <1>9 DEF Move
  <2>2. TextInv' /\ IsFiniteSet(Wrong') /\ Cardinality(Wrong') <= Cardinality(Wrong)
    BY <1>1, <1>3, <1>9, RowsShown
  <2>3. Cardinality(Wrong') \in Nat
    BY <2>2, FS_CardinalityType
  <2>. QED BY <1>1, <1>3, <1>4, <2>1, <2>2, <2>3
<1>10. ASSUME Clear, UNCHANGED printing PROVE TextInv' /\ Cardinality(Wrong') <= hits'
  <2>1. UNCHANGED hits
    BY <1>10, Zenon DEF Clear
  <2>. QED BY <1>1, <1>3, <1>5, <1>10, <2>1, ClearShown
<1>11. ASSUME Blink, UNCHANGED printing PROVE TextInv' /\ Cardinality(Wrong') <= hits'
  BY <1>1, <1>3, <1>11, BlinkShown
<1>12. ASSUME NEW str \in Messages, Message(str) PROVE FALSE
  BY <1>1, <1>2, <1>12 DEF Message
<1>13. CASE MessagePutc
  BY <1>3, <1>13 DEF MessagePutc, TextInv
<1>14. CASE UNCHANGED vars
  <2>1. TextInv' /\ Wrong' = Wrong /\ UNCHANGED hits
    BY <1>3, <1>14 DEF vars, TextInv, LastRow, LineAt, Wrong, IsWrong
  <2>. QED BY <1>3, <2>1
<1>. QED BY <1>6, <1>7, <1>8, <1>9, <1>10, <1>11, <1>12, <1>13, <1>14 DEF Next, PutcStep

\* The inductive invariant of fbcon: where the cursor is at each step of fbcon_putc, which
\* line of the text is on which row, and how many cells blinks have spoiled.
THEOREM FbconInvariant == ConsolesSpec => []FbconInv
<1>1. ConsolesInit => FbconInv
  BY FbconInit DEF ConsolesInit
<1>2. FbconInv /\ [ConsolesNext]_<<vars, vga, console>> => FbconInv'
  BY FbconStep, OneDriver
<1>. QED BY <1>1, <1>2, PTL DEF ConsolesSpec

\* As long as no interrupt prints, the screen shows the text of fbcon_putc but for at
\* most one cell for each blink that came inside it.
THEOREM BlinksAreCheap == ConsolesSpec => []BlinkCostsOneCell
<1>1. FbconInv => BlinkCostsOneCell
  <2> SUFFICES ASSUME FbconInv, pc = "idle", messages = 0
               PROVE  /\ Len(lines) > fbcon_y
                      /\ fbcon_x = Len(lines[Len(lines)])
                      /\ Cardinality(Damaged) <= hits
    BY DEF BlinkCostsOneCell
  <2>1. TypeOK /\ CursorInv /\ TextInv /\ Cardinality(Wrong) <= hits
    BY DEF FbconInv
  <2>2. LastRow = fbcon_y /\ lines \in Seq(Seq(Chars))
    BY <2>1 DEF LastRow, CursorInv, TypeOK
  <2>3. Damaged = Wrong
    BY <2>2 DEF Damaged, Wrong, IsWrong, LineAt
  <2>. QED BY <2>1, <2>2, <2>3 DEF TextInv
<1>. QED BY <1>1, FbconInvariant, PTL

-----------------------------------------------------------------------------
\* What the text mode console shows

VgaScreens == [0 .. H - 1 -> [0 .. W - 1 -> V!Cell]]

LEMMA VgaChars ==
  /\ V!NL # V!BS
  /\ \A k \in V!Written : V!PutChar(k) \in V!Cell
  /\ V!Blank \in V!Cell
BY Zenon DEF V!NL, V!BS, V!Cell

\* The lines of the text after a character, a line's end or a backspace.
LEMMA LineChar ==
  ASSUME NEW ls \in Seq(Seq(V!Written)), ls # <<>>, NEW k \in V!Written, k # V!NL, k # V!BS
  PROVE  /\ GainsChar(ls, k, Len(ls), V!Line(ls, k))
         /\ V!Line(ls, k) \in Seq(Seq(V!Written))
<1>0. PICK n, t : n = Len(ls) /\ t = V!Line(ls, k)
  OBVIOUS
<1>. DEFINE new == [ls EXCEPT ![n] = Append(ls[n], k)]
<1>1. /\ n \in Nat /\ n > 0 /\ ls[n] \in Seq(V!Written) /\ Append(ls[n], k) \in Seq(V!Written)
      /\ Len(Append(ls[n], k)) = Len(ls[n]) + 1
  BY <1>0
<1>2. /\ new \in Seq(Seq(V!Written)) /\ Len(new) = n
      /\ \A i \in 1 .. n - 1 : new[i] = ls[i]
      /\ new[n] = Append(ls[n], k)
  BY <1>0, <1>1
<1>3. t = IF Len(ls[n]) + 1 = W THEN Append(new, <<>>) ELSE new
  BY <1>0, <1>1 DEF V!Line
<1>. HIDE DEF new
<1>4. /\ Append(new, <<>>) \in Seq(Seq(V!Written))
      /\ Len(Append(new, <<>>)) = n + 1 /\ Append(new, <<>>)[n + 1] = <<>>
      /\ \A i \in 1 .. n : Append(new, <<>>)[i] = new[i]
  <2>1. <<>> \in Seq(V!Written)
    OBVIOUS
  <2>. QED BY <1>1, <1>2, <2>1, AppendProperties
<1>5. GainsChar(ls, k, n, t) /\ t \in Seq(Seq(V!Written))
  BY <1>1, <1>2, <1>3, <1>4 DEF GainsChar
<1>. QED BY <1>0, <1>5

LEMMA LineEnds ==
  ASSUME NEW ls \in Seq(Seq(V!Written))
  PROVE  /\ GainsLine(ls, Len(ls), V!Line(ls, V!NL))
         /\ V!Line(ls, V!NL) \in Seq(Seq(V!Written))
         /\ V!Line(ls, V!BS) = ls
<1>1. V!Line(ls, V!NL) = Append(ls, <<>>) /\ V!Line(ls, V!BS) = ls
  BY VgaChars DEF V!Line
<1>2. <<>> \in Seq(V!Written)
  OBVIOUS
<1>. QED BY <1>1, <1>2, AppendProperties DEF GainsLine

\* vgacon_scroll keeps the text where the cursor says, one row up if it scrolls.
LEMMA ScrollShown ==
  ASSUME NEW s \in VgaScreens, NEW t \in Seq(Seq(V!Written)),
         NEW cx \in 0 .. W, NEW cy \in 0 .. H,
         NEW row \in 0 .. H, row = IF cx > W - 1 THEN cy + 1 ELSE cy,
         V!Shows(s, t, row), row = H => t[Len(t)] = <<>>,
         V!Scroll(s, cx, cy)
  PROVE  /\ screen' \in VgaScreens
         /\ vgacon_x' = (IF cx > W - 1 THEN 0 ELSE cx) /\ vgacon_y' \in 0 .. H - 1
         /\ V!Shows(screen', t, vgacon_y')
<1>1. /\ vgacon_x' = IF cx > W - 1 THEN 0 ELSE cx
      /\ vgacon_y' = IF row >= H THEN row - 1 ELSE row
      /\ screen' = IF ~(row >= H) THEN s
                   ELSE [r \in 0 .. H - 1 |->
                           IF r < H - 1 THEN s[r + 1] ELSE [c \in 0 .. W - 1 |-> V!Blank]]
  BY DEF V!Scroll, V!Scrolls
<1>2. CASE row < H
  BY <1>1, <1>2, SizeFacts
<1>3. CASE row = H
  <2>1. vgacon_y' = H - 1 /\ vgacon_y' \in 0 .. H - 1
    BY <1>1, <1>3, SizeFacts, SMTT(30)
  <2>2. screen' = [r \in 0 .. H - 1 |->
                     IF r < H - 1 THEN s[r + 1] ELSE [c \in 0 .. W - 1 |-> V!Blank]]
    BY <1>1, <1>3, SizeFacts
  <2>3. screen' \in VgaScreens
    <3>1. [c \in 0 .. W - 1 |-> V!Blank] \in [0 .. W - 1 -> V!Cell]
      BY VgaChars
    <3>2. \A r \in 0 .. H - 1 : r < H - 1 => s[r + 1] \in [0 .. W - 1 -> V!Cell]
      BY SizeFacts DEF VgaScreens
    <3>. QED BY <2>2, <3>1, <3>2 DEF VgaScreens
  <2>4. ASSUME NEW r \in 0 .. H - 1, NEW c \in DOMAIN t[Len(t) - (H - 1) + r]
        PROVE  screen'[r][c - 1] = V!PutChar(t[Len(t) - (H - 1) + r][c])
    <3>1. Len(t) \in Nat /\ Len(t) > H
      BY <1>3 DEF V!Shows
    <3>2. r # H - 1
      <4>1. ASSUME r = H - 1 PROVE FALSE
        <5>1. Len(t) - (H - 1) + r = Len(t)
          BY <3>1, <4>1, SizeFacts
        <5>. QED BY <1>3, <2>4, <5>1
      <4>. QED BY <4>1
    <3>3. r + 1 \in 0 .. row /\ Len(t) - (H - 1) + r = Len(t) - row + (r + 1)
      <4>1. PICK m \in Nat : m = Len(t)
        BY <3>1
      <4>2. r + 1 \in 0 .. row
        BY ONLY r \in 0 .. H - 1, row = H, <1>3, SizeFacts
      <4>3. m - (H - 1) + r = m - row + (r + 1)
        BY ONLY r \in 0 .. H - 1, m \in Nat, row = H, <1>3, <4>1, SizeFacts
      <4>. QED BY <4>1, <4>2, <4>3
    <3>4. s[r + 1][c - 1] = V!PutChar(t[Len(t) - row + (r + 1)][c])
      BY <3>3 DEF V!Shows
    <3>5. screen'[r] = s[r + 1]
      BY <2>2, <3>2, SizeFacts
    <3>. QED BY <3>3, <3>4, <3>5
  <2>5. Len(t) > H - 1
    BY <1>3, SizeFacts DEF V!Shows
  <2>6. V!Shows(screen', t, H - 1)
    BY <2>4, <2>5 DEF V!Shows
  <2>7. vgacon_x' = (IF cx > W - 1 THEN 0 ELSE cx)
    BY <1>1
  <2>. QED BY <2>1, <2>3, <2>6, <2>7
<1>. QED BY <1>2, <1>3, SizeFacts

\* vgacon_putc
LEMMA VgaCharStep ==
  ASSUME V!VgaInv, NEW k \in V!Written, V!Putc(k), text' = V!Line(text, k)
  PROVE  /\ screen' \in VgaScreens
         /\ vgacon_x' \in 0 .. W - 1 /\ vgacon_y' \in 0 .. H - 1
         /\ text' \in Seq(Seq(V!Written)) /\ text' # <<>>
         /\ vgacon_x' = Len(text'[Len(text')])
         /\ V!Shows(screen', text', vgacon_y')
<1>0. PICK n, t, px, py : n = Len(text) /\ t = text' /\ px = vgacon_x /\ py = vgacon_y
  OBVIOUS
<1>1. /\ screen \in VgaScreens /\ text \in Seq(Seq(V!Written)) /\ text # <<>>
      /\ px \in 0 .. W - 1 /\ py \in 0 .. H - 1
      /\ px = Len(text[n]) /\ V!Shows(screen, text, py)
      /\ n \in Nat /\ n > py /\ text[n] \in Seq(V!Written)
  BY <1>0 DEF V!VgaInv, VgaScreens, V!Shows
<1>2. CASE k = V!NL
  <2>1. GainsLine(text, n, t) /\ t \in Seq(Seq(V!Written))
    BY <1>0, <1>1, <1>2, LineEnds
  <2>2. V!Scroll(screen, 0, py + 1)
    BY <1>0, <1>2, VgaChars DEF V!Putc
  <2>3. py + 1 \in 0 .. H /\ 0 \in 0 .. W /\ ~(0 > W - 1)
    BY <1>1, SizeFacts
  <2>4. Len(t) = n + 1 /\ t[n + 1] = <<>> /\ \A i \in 1 .. n : t[i] = text[i]
    BY <2>1 DEF GainsLine
  <2>5. V!Shows(screen, t, py + 1)
    <3>1. ASSUME NEW r \in 0 .. py + 1, NEW c \in DOMAIN t[Len(t) - (py + 1) + r]
          PROVE  screen[r][c - 1] = V!PutChar(t[Len(t) - (py + 1) + r][c])
      <4>1. Len(t) - (py + 1) + r = n - py + r /\ n - py + r \in 1 .. n + 1
        BY <1>1, <2>4
      <4>2. r # py + 1
        <5>1. ASSUME r = py + 1 PROVE FALSE
          <6>1. Len(t) - (py + 1) + r = n + 1
            BY <1>1, <4>1, <5>1
          <6>. QED BY <2>4, <3>1, <6>1
        <5>. QED BY <5>1
      <4>3. r \in 0 .. py /\ n - py + r \in 1 .. n
        BY <1>1, <4>1, <4>2
      <4>4. t[Len(t) - (py + 1) + r] = text[n - py + r]
        BY <2>4, <4>1, <4>3
      <4>. QED BY <1>0, <1>1, <3>1, <4>3, <4>4 DEF V!Shows
    <3>. QED BY <1>1, <2>4, <3>1 DEF V!Shows
  <2>6. /\ screen' \in VgaScreens /\ vgacon_x' = 0 /\ vgacon_y' \in 0 .. H - 1
        /\ V!Shows(screen', t, vgacon_y')
    BY <1>1, <2>1, <2>2, <2>3, <2>4, <2>5, ScrollShown
  <2>7. Len(t[Len(t)]) = 0 /\ t # <<>>
    BY <1>1, <2>1, <2>4
  <2>. QED BY <1>0, <2>1, <2>6, <2>7, SizeFacts
<1>3. CASE k = V!BS
  <2>1. t = text
    BY <1>0, <1>1, <1>3, LineEnds
  <2>2. V!Scroll(screen, px, py)
    BY <1>0, <1>3, VgaChars DEF V!Putc
  <2>3. px \in 0 .. W /\ ~(px > W - 1) /\ py \in 0 .. H /\ py # H
    BY <1>1, SizeFacts
  <2>4. /\ screen' \in VgaScreens /\ vgacon_x' = px /\ vgacon_y' \in 0 .. H - 1
        /\ V!Shows(screen', text, vgacon_y')
    BY <1>1, <2>2, <2>3, ScrollShown
  <2>. QED BY <1>0, <1>1, <2>1, <2>4
<1>4. CASE k # V!NL /\ k # V!BS
  <2>. DEFINE s == [screen EXCEPT ![py] = [screen[py] EXCEPT ![px] = V!PutChar(k)]]
              row == IF px + 1 > W - 1 THEN py + 1 ELSE py
  <2>1. GainsChar(text, k, n, t) /\ t \in Seq(Seq(V!Written))
    BY <1>0, <1>1, <1>4, LineChar
  <2>2. V!Scroll(s, px + 1, py)
    BY <1>0, <1>4 DEF V!Putc
  <2>3. s \in VgaScreens
    <3>1. [screen[py] EXCEPT ![px] = V!PutChar(k)] \in [0 .. W - 1 -> V!Cell]
      BY <1>1, VgaChars DEF VgaScreens
    <3>. QED BY <1>1, <3>1 DEF VgaScreens
  <2>4. /\ s[py][px] = V!PutChar(k)
        /\ \A c \in 0 .. px - 1 : s[py][c] = screen[py][c]
        /\ \A r \in 0 .. py - 1 : s[r] = screen[r]
    BY <1>1, SizeFacts DEF VgaScreens
  <2>5. /\ Len(t) = IF px + 1 = W THEN n + 1 ELSE n
        /\ \A i \in 1 .. n - 1 : t[i] = text[i]
        /\ t[n] = Append(text[n], k)
        /\ px + 1 = W => t[n + 1] = <<>>
    BY <1>1, <2>1 DEF GainsChar
  <2>6. /\ row \in 0 .. H /\ px + 1 \in 0 .. W /\ py \in 0 .. H
        /\ row = (IF px + 1 > W - 1 THEN py + 1 ELSE py)
        /\ row = (IF px + 1 = W THEN py + 1 ELSE py)
        /\ row = H => px + 1 = W
    <3>1. px \in Nat /\ py \in Nat /\ px < W /\ py < H
      BY <1>1, SizeFacts
    <3>2. px + 1 > W - 1 <=> px + 1 = W
      BY <3>1, SizeFacts
    <3>3. CASE px + 1 = W
      BY <3>1, <3>2, <3>3, SizeFacts
    <3>4. CASE px + 1 # W
      BY <3>1, <3>2, <3>4, SizeFacts
    <3>. QED BY <3>3, <3>4
  <2>. HIDE DEF s, row
  <2>7. Len(t) - row = n - py /\ Len(t) \in Nat
    BY <1>1, <2>5, <2>6
  <2>8. V!Shows(s, t, row)
    <3>1. ASSUME NEW r \in 0 .. row, NEW c \in DOMAIN t[Len(t) - row + r]
          PROVE  s[r][c - 1] = V!PutChar(t[Len(t) - row + r][c])
      <4>1. Len(t) - row + r = n - py + r
        BY <1>1, <2>6, <2>7
      <4>2. CASE r < py
        <5>1. r \in 0 .. py - 1 /\ n - py + r \in 1 .. n - 1
          BY <1>1, <4>2, <2>6
        <5>2. t[Len(t) - row + r] = text[n - py + r] /\ s[r] = screen[r]
          BY <2>4, <2>5, <4>1, <5>1
        <5>3. r \in 0 .. py
          BY <1>1, <5>1
        <5>. QED BY <1>0, <1>1, <3>1, <5>2, <5>3, SMTT(30) DEF V!Shows
      <4>3. CASE r = py
        <5>1. n - py + r = n
          BY <1>1, <4>3
        <5>2. t[Len(t) - row + r] = Append(text[n], k)
          BY <2>5, <4>1, <5>1
        <5>3. c \in 1 .. px + 1 /\ Append(text[n], k)[px + 1] = k
              /\ \A j \in 1 .. px : Append(text[n], k)[j] = text[n][j]
          BY <1>1, <3>1, <5>2
        <5>4. CASE c = px + 1
          BY <1>1, <2>4, <4>3, <5>2, <5>3, <5>4
        <5>5. CASE c # px + 1
          <6>0. px \in Nat /\ c \in Nat /\ c >= 1 /\ c <= px
            <7>1. px \in Nat
              BY <1>1, SizeFacts
            <7>. QED BY <5>3, <5>5, <7>1
          <6>1. c \in 1 .. px /\ c - 1 \in 0 .. px - 1
            BY <6>0
          <6>2. c \in DOMAIN text[n - py + py] /\ py \in 0 .. py /\ n - py + py = n
            BY <1>1, <6>1
          <6>3. screen[py][c - 1] = V!PutChar(text[n][c])
            BY <1>0, <1>1, <6>2, SMTT(30) DEF V!Shows
          <6>. QED BY <2>4, <4>3, <5>2, <5>3, <6>1, <6>3
        <5>. QED BY <5>4, <5>5
      <4>4. CASE r > py
        <5>1. r = py + 1 /\ px + 1 = W /\ n - py + r = n + 1
          BY <1>1, <2>6, <4>4, SizeFacts
        <5>. QED BY <2>5, <3>1, <4>1, <5>1
      <4>. QED BY <1>1, <2>6, <4>2, <4>3, <4>4
    <3>2. Len(t) > row
      BY <1>1, <2>6, <2>7
    <3>. QED BY <3>1, <3>2 DEF V!Shows
  <2>9. row = H => t[Len(t)] = <<>>
    BY <2>5, <2>6
  <2>10. /\ screen' \in VgaScreens
         /\ vgacon_x' = (IF px + 1 > W - 1 THEN 0 ELSE px + 1) /\ vgacon_y' \in 0 .. H - 1
         /\ V!Shows(screen', t, vgacon_y')
    BY <2>1, <2>2, <2>3, <2>6, <2>8, <2>9, ScrollShown
  <2>11. vgacon_x' = Len(t[Len(t)]) /\ vgacon_x' \in 0 .. W - 1 /\ t # <<>>
    <3>1. Len(Append(text[n], k)) = px + 1
      BY <1>1
    <3>2. px \in Nat /\ px < W
      BY <1>1, SizeFacts
    <3>3. CASE px + 1 = W
      <4>1. Len(t) = n + 1 /\ t[Len(t)] = <<>> /\ vgacon_x' = 0
        BY <2>5, <2>10, <3>2, <3>3, SizeFacts
      <4>. QED BY <1>1, <4>1, SizeFacts
    <3>4. CASE px + 1 # W
      <4>1. Len(t) = n /\ t[Len(t)] = Append(text[n], k) /\ vgacon_x' = px + 1
        BY <2>5, <2>10, <3>2, <3>4, SizeFacts
      <4>. QED BY <1>1, <3>1, <3>2, <3>4, <4>1, SizeFacts
    <3>. QED BY <3>3, <3>4
  <2>. QED BY <1>0, <2>1, <2>10, <2>11
<1>. QED BY <1>2, <1>3, <1>4

LEMMA VgaStart == V!VgaInit => V!VgaInv
<1> SUFFICES ASSUME V!VgaInit PROVE V!VgaInv
  OBVIOUS
<1>1. /\ screen = [r \in 0 .. H - 1 |-> [c \in 0 .. W - 1 |-> V!Old]]
      /\ vgacon_x = 0 /\ vgacon_y = 0 /\ todo = <<>> /\ pos = 0
      /\ text = << <<>> >>
  BY Zenon DEF V!VgaInit
<1>2. V!Old \in V!Cell
  BY Zenon DEF V!Cell
<1>3. screen \in VgaScreens
  BY <1>1, <1>2 DEF VgaScreens
<1>4. text \in Seq(Seq(V!Written)) /\ text # <<>> /\ Len(text) = 1 /\ text[1] = <<>>
  BY <1>1
<1>5. pos = V!CursorPos(vgacon_x, vgacon_y)
  BY <1>1, SizeFacts DEF V!CursorPos
<1>6. V!Shows(screen, text, vgacon_y)
  BY <1>1, <1>4 DEF V!Shows
<1>7. todo \in Seq(V!Written)
  BY <1>1
<1>8. /\ vgacon_x \in 0 .. W - 1 /\ vgacon_y \in 0 .. H - 1
      /\ vgacon_x = Len(text[Len(text)])
  BY <1>1, <1>4, SizeFacts
<1>. QED BY <1>3, <1>4, <1>5, <1>6, <1>7, <1>8 DEF V!VgaInv, VgaScreens

LEMMA VgaStepKeeps == V!VgaInv /\ [ConsolesNext]_<<vars, vga, console>> => V!VgaInv'
<1> SUFFICES ASSUME V!VgaInv, [ConsolesNext]_<<vars, vga, console>> PROVE V!VgaInv'
  OBVIOUS
<1>1. ASSUME NEW str \in Texts, V!VgaWrite(str) PROVE V!VgaInv'
  <2>1. str \in Seq(V!Written)
    BY TextsAssumption
  <2>2. todo' = str /\ UNCHANGED <<screen, vgacon_x, vgacon_y, pos, text>>
    BY <1>1 DEF V!VgaWrite
  <2>. QED BY <2>1, <2>2 DEF V!VgaInv
<1>2. CASE V!VgaPutc
  <2>1. Head(todo) \in V!Written /\ Tail(todo) \in Seq(V!Written) /\ <<>> \in Seq(V!Written)
    BY <1>2, HeadTailProperties DEF V!VgaPutc, V!VgaInv
  <2>2. CASE Head(todo) = V!NUL
    <3>1. todo' = <<>> /\ UNCHANGED <<screen, vgacon_x, vgacon_y, pos, text>>
      BY <1>2, <2>2 DEF V!VgaPutc
    <3>. QED BY <2>1, <3>1 DEF V!VgaInv
  <2>3. CASE Head(todo) # V!NUL
    <3>1. V!Putc(Head(todo)) /\ text' = V!Line(text, Head(todo)) /\ todo' = Tail(todo)
      BY <1>2, <2>3 DEF V!VgaPutc
    <3>2. pos' = V!CursorPos(vgacon_x', vgacon_y')
      BY <3>1 DEF V!Putc
    <3>. QED BY <2>1, <3>1, <3>2, VgaCharStep DEF V!VgaInv, VgaScreens, V!CursorPos
  <2>. QED BY <2>2, <2>3
<1>3. CASE UNCHANGED vga
  BY <1>3 DEF vga, V!VgaInv, V!Shows, V!CursorPos
<1>. QED BY <1>1, <1>2, <1>3 DEF ConsolesNext, VgaStep

\* Whatever is written on the text mode console, a string of any characters, each of
\* vgacon_putc's steps leaves the last lines of it on the screen and the video
\* controller's cursor at their end.
THEOREM VgaShows == ConsolesSpec => []VgaShowsText
<1>1. ConsolesInit => V!VgaInv
  BY VgaStart DEF ConsolesInit
<1>2. V!VgaInv => VgaShowsText
  <2> SUFFICES ASSUME V!VgaInv PROVE VgaShowsText
    OBVIOUS
  <2>1. /\ vgacon_y \in 0 .. H - 1 /\ vgacon_x = Len(text[Len(text)])
        /\ pos = V!CursorPos(vgacon_x, vgacon_y)
        /\ V!Shows(screen, text, vgacon_y) /\ Len(text) \in Nat
    BY DEF V!VgaInv
  <2>2. Len(text) - vgacon_y > 0
    BY <2>1, SizeFacts DEF V!Shows
  <2>. QED BY <2>1, <2>2 DEF VgaShowsText, V!VgaShowsText, V!Shows
<1>. QED BY <1>1, <1>2, VgaStepKeeps, PTL DEF ConsolesSpec


=============================================================================
