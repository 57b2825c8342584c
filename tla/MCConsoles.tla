----------------------------- MODULE MCConsoles -----------------------------
(* An instance of Consoles for TLC. *)
EXTENDS Consoles
Short == {<<NL>>, <<"e", NL>>, <<"e", "e", "e", NL>>}
Written == {<<NL>>, <<"a">>, <<"e", BS>>, <<"high", "zero", "a">>, <<"a", NL, "e", "a", "e">>}
=============================================================================
