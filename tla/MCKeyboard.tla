----------------------------- MODULE MCKeyboard -----------------------------
(* An instance of Keyboard for TLC: both shift keys, a letter, and the         *)
(* keypad's enter, which has a prefix.                                         *)
EXTENDS Keyboard
Keys4 == {<<FALSE, 42>>, <<FALSE, 54>>, <<FALSE, 30>>, <<TRUE, 28>>}
Legend2 == <<FALSE, 30>> :> <<"a", "A">> @@ <<TRUE, 28>> :> <<"\n", "\n">>
ASSUME LegendsMatch
=============================================================================
