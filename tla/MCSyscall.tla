----------------------------- MODULE MCSyscall -----------------------------
(* Two argument values, so that a value read from the wrong register (0,  *)
(* or the other value) is told apart; two calls, so that a trap follows   *)
(* a returned one with registers the first call left behind.              *)
EXTENDS Syscall

MC_Vals == {1, 2}
=============================================================================
