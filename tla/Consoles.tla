------------------------------ MODULE Consoles ------------------------------
(***************************************************************************)
(* A console is one of the two drivers, on a screen of the same size.      *)
(***************************************************************************)
EXTENDS Fbcon
L == INSTANCE Layouts

CONSTANTS HighChars, Texts, MaxLines   \* of Vgacon; bound: lines written there

VARIABLES console, screen, vgacon_x, vgacon_y, todo, pos, text

V == INSTANCE Vgacon

\* strncpy ends the name in the first byte of con->write, which fbcon_init and
\* vgacon_init store only after it.
ASSUME ConsolesAssumption == L!NameReachesWrite

ASSUME TextsAssumption == \A str \in Texts : str \in Seq(V!Written)

vga == <<screen, vgacon_x, vgacon_y, todo, pos, text>>

\* fbcon_init, or vgacon_init.
Drivers == {"fbcon", "vgacon"}

ConsolesInit == console \in Drivers /\ Init /\ V!VgaInit

VgaStep ==
  /\ (\E str \in Texts : V!VgaWrite(str)) \/ V!VgaPutc
  /\ Len(text') <= MaxLines

ConsolesNext ==
  \/ console = "fbcon" /\ Next /\ UNCHANGED <<vga, console>>
  \/ console = "vgacon" /\ VgaStep /\ UNCHANGED <<vars, console>>

ConsolesSpec == ConsolesInit /\ [][ConsolesNext]_<<vars, vga, console>>

\* The last lines of the text are on the screen of the text mode console, each
\* character in its colour unless its sign spoils that, and the cursor of the video
\* controller is at the end of the last.
VgaShowsText == V!VgaShowsText

=============================================================================
