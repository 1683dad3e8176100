---------------------------- MODULE MCScheduler ----------------------------
(* The scheduler with a 2-tick slice, sleeps of 0 to 2 ticks and waits on *)
(* init and on the idle pid.                                              *)
EXTENDS Scheduler

MC_TIME_SLICE == 2
MC_SleepMs == {0, 1, 2}
MC_WaitPids == {INIT, IDLE}
====
