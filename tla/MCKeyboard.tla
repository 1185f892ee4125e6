----------------------------- MODULE MCKeyboard -----------------------------
(* Two host threads and three scan codes against a guest that masks, nests   *)
(* and resets; a timer interrupt that may come in between.                   *)
EXTENDS Keyboard

MCWired == {0, 1}
=============================================================================
