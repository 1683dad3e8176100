---------------------------- MODULE MCInterrupts ----------------------------
(* Interrupts for TLC: a deque that starts empty and grows 0 -> 1 -> 2, so *)
(* both the first allocation and a later regrowth happen in IRQ1.           *)
EXTENDS Interrupts

MC_MIN_CAP == 1
MC_BUF_MAX == 3
MC_MAX_KEYS == 3
====
