---------------------------- MODULE MCKeyboard ----------------------------
(* A buffer of two events, and up to four key transitions of a letter,   *)
(* both shift keys, caps lock and the extended right control key.         *)
EXTENDS Keyboard

MC_CAPACITY == 2
MC_Keys == {"A", "Enter", "Backspace", "LeftShift", "CapsLock", "RightCtrl"}
\* Both shift keys, which share one flag.
MC_Keys_Shift == {"A", "LeftShift", "RightShift"}
MC_Keys_Pause == {"A", "Pause"}
MC_MAX_TYPED == 4
MC_WIDTH == 8
MC_HEIGHT == 2
====
