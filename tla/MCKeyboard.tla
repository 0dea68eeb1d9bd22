----------------------------- MODULE MCKeyboard -----------------------------
(* One key of each kind and a ring of three slots.                         *)
EXTENDS Keyboard
=============================================================================
