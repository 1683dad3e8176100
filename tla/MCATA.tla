------------------------------- MODULE MCATA -------------------------------
(* A drive of four sectors and two sectors per block (the code's eight,   *)
(* scaled down: each sector is one more turn of the same loop).  The      *)
(* filesystem believes it has four blocks, so blocks 2 and 3 lie beyond   *)
(* the drive.  Two contents, so that a stale sector differs from a fresh  *)
(* one; three block calls.                                                *)
EXTENDS ATA

MC_Vals == {"a", "b"}
====
