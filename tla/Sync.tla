-------------------------------- MODULE Sync --------------------------------
(***************************************************************************)
(* The blocking primitives of sync/ (mutex.rs, semaphore.rs, condvar.rs):  *)
(* Mutex, RecursiveMutex, RwLock, Semaphore, BinarySemaphore, Barrier and  *)
(* Once, used by callers that the timer can preempt between any two        *)
(* atomic operations.                                                      *)
(*                                                                         *)
(* One step is one atomic operation of the code (a load, a store, a        *)
(* compare_exchange, a fetch_add, or a whole spin::Mutex section).  A      *)
(* retry loop whose body is a load and scheduler::yield_now() is an await  *)
(* on the loaded condition: yield_now changes no state of the primitive.   *)
(*                                                                         *)
(* The waiters queues are written but never read (every wake-up is a       *)
(* TODO), and Mutex::owner is stored but never read, so neither is state   *)
(* here.  A caller is identified by scheduler::current_pid(), its process  *)
(* id, or 0 when there is none (RecursiveMutex::lock's unwrap_or(0)).      *)
(***************************************************************************)
EXTENDS Integers, FiniteSets

CONSTANTS
    Callers,     \* the threads of control using the primitives
    Pid,         \* Callers -> what current_pid() gives each (0 for None)
    SEM_INIT,    \* Semaphore::new(count)
    COUNT,       \* Barrier::new(count)
    MAX_DEPTH,   \* bound on a caller's RecursiveMutex nesting
    MAX_ROUNDS   \* bound on a caller's Barrier::wait calls

Sems == {"S", "B"}   \* a Semaphore, and the one inside a BinarySemaphore

VARIABLES
    pc,        \* Callers -> [at, obj]: the step a caller is at
    loc,       \* Callers -> the value a caller loaded (count or generation)
    depth,     \* Callers -> how many RecursiveMutexGuards it holds
    mLocked,   \* Mutex::locked
    rLocked,   \* RecursiveMutex::locked
    rOwner,    \* RecursiveMutex::owner
    rCount,    \* RecursiveMutex::count (u32; -1 stands for u32::MAX, the
               \* wrap of a fetch_sub on 0)
    readers,   \* RwLock::readers
    writer,    \* RwLock::writer
    count,     \* Sems -> Semaphore::count
    cur,       \* Barrier::current
    gen,       \* Barrier::generation
    done,      \* Once::done
    running,   \* Once::running
    arrived    \* Callers -> Barrier::wait calls made (ghost)

vars == <<pc, loc, depth, mLocked, rLocked, rOwner, rCount, readers, writer,
          count, cur, gen, done, running, arrived>>

Idle == [at |-> "idle", obj |-> "none"]

Init ==
    /\ pc = [t \in Callers |-> Idle]
    /\ loc = [t \in Callers |-> 0]
    /\ depth = [t \in Callers |-> 0]
    /\ mLocked = FALSE
    /\ rLocked = FALSE /\ rOwner = 0 /\ rCount = 0
    /\ readers = 0 /\ writer = FALSE
    /\ count = [s \in Sems |-> IF s = "S" THEN SEM_INIT ELSE 0]
    /\ cur = 0 /\ gen = 0
    /\ done = FALSE /\ running = FALSE
    /\ arrived = [t \in Callers |-> 0]

At(t, a) == pc[t].at = a
Goto(t, a) == pc' = [pc EXCEPT ![t] = [at |-> a, obj |-> pc[t].obj]]
Return(t) == pc' = [pc EXCEPT ![t] = Idle]

\* The variables of each primitive, for UNCHANGED.
mVars == <<mLocked>>
rVars == <<rLocked, rOwner, rCount, depth>>
rwVars == <<readers, writer>>
bVars == <<cur, gen, arrived>>
oVars == <<done, running>>

(***************************************************************************)
(* A caller starts a call.  Nothing is held across calls except the guards *)
(* a caller takes (a RecursiveMutex may be locked again while held).       *)
(***************************************************************************)
Calls == {[at |-> "m_lock", obj |-> "none"], [at |-> "r_lock", obj |-> "none"],
          [at |-> "rw_read", obj |-> "none"], [at |-> "rw_write", obj |-> "none"],
          [at |-> "wait", obj |-> "S"], [at |-> "try_wait", obj |-> "S"],
          [at |-> "wait", obj |-> "B"], [at |-> "b_release", obj |-> "B"],
          [at |-> "bar_wait", obj |-> "none"], [at |-> "call_once", obj |-> "none"]}

Call(t) ==
    /\ pc[t] = Idle
    /\ \E c \in Calls :
         /\ c.at = "bar_wait" => arrived[t] < MAX_ROUNDS
         /\ pc' = [pc EXCEPT ![t] = c]
    /\ UNCHANGED <<loc, depth, mLocked, rVars, rwVars, count, bVars, oVars>>

(***************************************************************************)
(* Mutex: lock loops on try_lock's compare_exchange; the guard's drop      *)
(* stores locked = false.                                                  *)
(***************************************************************************)
MutexTryLock(t) ==
    /\ At(t, "m_lock")
    /\ IF ~mLocked THEN mLocked' = TRUE /\ Goto(t, "m_cs")
                   ELSE UNCHANGED mLocked /\ Goto(t, "m_lock")
    /\ UNCHANGED <<loc, rVars, rwVars, count, bVars, oVars>>

MutexUnlock(t) ==
    /\ At(t, "m_cs")
    /\ mLocked' = FALSE /\ Return(t)
    /\ UNCHANGED <<loc, rVars, rwVars, count, bVars, oVars>>

(***************************************************************************)
(* RecursiveMutex::lock: load locked, then owner, and count up if the      *)
(* owner is the caller's pid; otherwise compare_exchange, then store the   *)
(* owner, then store count = 1, as three separate steps.                   *)
(***************************************************************************)
RLockLoad(t) ==
    /\ At(t, "r_lock")
    /\ Goto(t, IF rLocked THEN "r_owner" ELSE "r_cas")
    /\ UNCHANGED <<loc, mVars, rVars, rwVars, count, bVars, oVars>>

RLockOwner(t) ==
    /\ At(t, "r_owner")
    /\ IF rOwner = Pid[t]
         THEN /\ rCount' = (rCount + 1)
              /\ depth' = [depth EXCEPT ![t] = @ + 1]
              /\ Goto(t, "r_cs")
         ELSE UNCHANGED <<rCount, depth>> /\ Goto(t, "r_cas")
    /\ UNCHANGED <<loc, mVars, rLocked, rOwner, rwVars, count, bVars, oVars>>

RLockCas(t) ==
    /\ At(t, "r_cas")
    /\ IF ~rLocked THEN rLocked' = TRUE /\ Goto(t, "r_set_owner")
                   ELSE UNCHANGED rLocked /\ Goto(t, "r_lock")
    /\ UNCHANGED <<loc, mVars, rOwner, rCount, depth, rwVars, count, bVars, oVars>>

RLockSetOwner(t) ==
    /\ At(t, "r_set_owner")
    /\ rOwner' = Pid[t] /\ Goto(t, "r_set_count")
    /\ UNCHANGED <<loc, mVars, rLocked, rCount, depth, rwVars, count, bVars, oVars>>

RLockSetCount(t) ==
    /\ At(t, "r_set_count")
    /\ rCount' = 1
    /\ depth' = [depth EXCEPT ![t] = @ + 1]
    /\ Goto(t, "r_cs")
    /\ UNCHANGED <<loc, mVars, rLocked, rOwner, rwVars, count, bVars, oVars>>

\* Holding the lock, a caller locks it again.
RLockNested(t) ==
    /\ At(t, "r_cs") /\ depth[t] < MAX_DEPTH
    /\ Goto(t, "r_lock")
    /\ UNCHANGED <<loc, mVars, rVars, rwVars, count, bVars, oVars>>

RUnlockAlways(t) ==
    /\ At(t, "r_cs")
    /\ rCount' = (rCount - 1)
    /\ depth' = [depth EXCEPT ![t] = @ - 1]
    /\ Goto(t, "r_clear_owner")
    /\ UNCHANGED <<loc, mVars, rLocked, rOwner, rwVars, count, bVars, oVars>>

\* RecursiveMutex::unlock: fetch_sub on count; the guard that took the
\* count from 1 to 0 stores owner = 0 and then locked = false.
RUnlock(t) ==
    /\ At(t, "r_cs")
    /\ rCount' = (rCount - 1)
    /\ depth' = [depth EXCEPT ![t] = @ - 1]
    /\ Goto(t, IF rCount = 1 THEN "r_clear_owner"
               ELSE IF depth[t] > 1 THEN "r_cs" ELSE "idle")
    /\ UNCHANGED <<loc, mVars, rLocked, rOwner, rwVars, count, bVars, oVars>>

RClearOwner(t) ==
    /\ At(t, "r_clear_owner")
    /\ rOwner' = 0 /\ Goto(t, "r_release")
    /\ UNCHANGED <<loc, mVars, rLocked, rCount, depth, rwVars, count, bVars, oVars>>

RRelease(t) ==
    /\ At(t, "r_release")
    /\ rLocked' = FALSE
    /\ Goto(t, IF depth[t] > 0 THEN "r_cs" ELSE "idle")
    /\ UNCHANGED <<loc, mVars, rOwner, rCount, depth, rwVars, count, bVars, oVars>>

(***************************************************************************)
(* RwLock::read: wait while writer is set, fetch_add readers, and back     *)
(* out (fetch_sub) if a writer set the flag meanwhile.  RwLock::write:     *)
(* compare_exchange the writer flag, then wait for the readers to drain.   *)
(***************************************************************************)
ReadWait(t) ==
    /\ At(t, "rw_read") /\ ~writer
    /\ Goto(t, "rw_inc")
    /\ UNCHANGED <<loc, mVars, rVars, rwVars, count, bVars, oVars>>

ReadInc(t) ==
    /\ At(t, "rw_inc")
    /\ readers' = readers + 1 /\ Goto(t, "rw_recheck")
    /\ UNCHANGED <<loc, mVars, rVars, writer, count, bVars, oVars>>

ReadRecheckSkipped(t) ==
    /\ At(t, "rw_recheck")
    /\ Goto(t, "rw_rcs")
    /\ UNCHANGED <<loc, mVars, rVars, rwVars, count, bVars, oVars>>

ReadRecheck(t) ==
    /\ At(t, "rw_recheck")
    /\ Goto(t, IF writer THEN "rw_back" ELSE "rw_rcs")
    /\ UNCHANGED <<loc, mVars, rVars, rwVars, count, bVars, oVars>>

ReadBack(t) ==
    /\ At(t, "rw_back")
    /\ readers' = readers - 1 /\ Goto(t, "rw_read")
    /\ UNCHANGED <<loc, mVars, rVars, writer, count, bVars, oVars>>

\* RwLockReadGuard::drop
ReadUnlock(t) ==
    /\ At(t, "rw_rcs")
    /\ readers' = readers - 1 /\ Return(t)
    /\ UNCHANGED <<loc, mVars, rVars, writer, count, bVars, oVars>>

WriteCas(t) ==
    /\ At(t, "rw_write") /\ ~writer
    /\ writer' = TRUE /\ Goto(t, "rw_drain")
    /\ UNCHANGED <<loc, mVars, rVars, readers, count, bVars, oVars>>

WriteDrain(t) ==
    /\ At(t, "rw_drain") /\ readers = 0
    /\ Goto(t, "rw_wcs")
    /\ UNCHANGED <<loc, mVars, rVars, rwVars, count, bVars, oVars>>

\* RwLockWriteGuard::drop
WriteUnlock(t) ==
    /\ At(t, "rw_wcs")
    /\ writer' = FALSE /\ Return(t)
    /\ UNCHANGED <<loc, mVars, rVars, readers, count, bVars, oVars>>

(***************************************************************************)
(* Semaphore::wait and try_wait: load count; if positive, compare_exchange *)
(* it to count - 1 and retry on failure; otherwise wait retries (after     *)
(* yield_now) and try_wait returns false.  signal is a fetch_add.          *)
(* BinarySemaphore::acquire is the inner wait, release loads the count and *)
(* signals only if it is below 1.                                          *)
(***************************************************************************)
SemLoad(t) ==
    /\ At(t, "wait") \/ At(t, "try_wait")
    /\ LET s == pc[t].obj
           c == count[s]
       IN  /\ loc' = [loc EXCEPT ![t] = c]
           /\ IF c > 0 THEN Goto(t, IF At(t, "wait") THEN "cas" ELSE "try_cas")
              ELSE IF At(t, "wait") THEN Goto(t, "wait")
              ELSE Return(t)
    /\ UNCHANGED <<depth, mVars, rVars, rwVars, count, bVars, oVars>>

SemCasUnchecked(t) ==
    /\ At(t, "cas") \/ At(t, "try_cas")
    /\ LET s == pc[t].obj IN
       /\ count' = [count EXCEPT ![s] = loc[t] - 1]
       /\ IF s = "S" THEN Goto(t, "s_cs") ELSE Return(t)
    /\ UNCHANGED <<loc, depth, mVars, rVars, rwVars, bVars, oVars>>

SemCas(t) ==
    /\ At(t, "cas") \/ At(t, "try_cas")
    /\ LET s == pc[t].obj IN
       IF count[s] = loc[t]
         THEN /\ count' = [count EXCEPT ![s] = loc[t] - 1]
              /\ IF s = "S" THEN Goto(t, "s_cs") ELSE Return(t)
         ELSE /\ UNCHANGED count
              /\ Goto(t, IF At(t, "cas") THEN "wait" ELSE "try_wait")
    /\ UNCHANGED <<loc, depth, mVars, rVars, rwVars, bVars, oVars>>

\* A holder of the counting semaphore gives its unit back.
SemSignal(t) ==
    /\ At(t, "s_cs") \/ At(t, "signal")
    /\ count' = [count EXCEPT ![pc[t].obj] = @ + 1]
    /\ Return(t)
    /\ UNCHANGED <<loc, depth, mVars, rVars, rwVars, bVars, oVars>>

BinRelease(t) ==
    /\ At(t, "b_release")
    /\ IF count["B"] < 1 THEN Goto(t, "signal") ELSE Return(t)
    /\ UNCHANGED <<loc, depth, mVars, rVars, rwVars, count, bVars, oVars>>

(***************************************************************************)
(* Barrier::wait: read generation, then under `current` count the caller   *)
(* in; the last of COUNT resets current and bumps generation, the others   *)
(* wait for generation to differ from what they read.                      *)
(***************************************************************************)
BarrierGen(t) ==
    /\ At(t, "bar_wait")
    /\ loc' = [loc EXCEPT ![t] = gen]
    /\ Goto(t, "bar_inc")
    /\ UNCHANGED <<depth, mVars, rVars, rwVars, count, bVars, oVars>>

BarrierLeaderEarly(c) == c >= COUNT - 1

\* `*current == self.count`: the caller that completes the round.
BarrierLeader(c) == c = COUNT

BarrierInc(t) ==
    /\ At(t, "bar_inc")
    /\ arrived' = [arrived EXCEPT ![t] = @ + 1]
    /\ IF BarrierLeader(cur + 1)
         THEN cur' = 0 /\ gen' = gen + 1 /\ Goto(t, "bar_out")
         ELSE cur' = cur + 1 /\ UNCHANGED gen /\ Goto(t, "bar_spin")
    /\ UNCHANGED <<loc, depth, mVars, rVars, rwVars, count, oVars>>

BarrierSpin(t) ==
    /\ At(t, "bar_spin") /\ gen # loc[t]
    /\ Goto(t, "bar_out")
    /\ UNCHANGED <<loc, depth, mVars, rVars, rwVars, count, bVars, oVars>>

BarrierReturn(t) ==
    /\ At(t, "bar_out")
    /\ Return(t)
    /\ UNCHANGED <<loc, depth, mVars, rVars, rwVars, count, bVars, oVars>>

(***************************************************************************)
(* Once::call_once: load done; under `running`, load done again and claim *)
(* running; the claimer runs the closure and stores done, the others wait  *)
(* for done.                                                               *)
(***************************************************************************)
OnceCheck(t) ==
    /\ At(t, "call_once")
    /\ IF done THEN Return(t) ELSE Goto(t, "o_lock")
    /\ UNCHANGED <<loc, depth, mVars, rVars, rwVars, count, bVars, oVars>>

OnceLock(t) ==
    /\ At(t, "o_lock")
    /\ IF done THEN Return(t) /\ UNCHANGED running
       ELSE IF ~running THEN running' = TRUE /\ Goto(t, "o_run")
       ELSE Goto(t, "o_wait") /\ UNCHANGED running
    /\ UNCHANGED <<loc, depth, mVars, rVars, rwVars, count, bVars, done>>

OnceRun(t) ==
    /\ At(t, "o_run")
    /\ Goto(t, "o_done")
    /\ UNCHANGED <<loc, depth, mVars, rVars, rwVars, count, bVars, oVars>>

OnceDone(t) ==
    /\ At(t, "o_done")
    /\ done' = TRUE /\ Return(t)
    /\ UNCHANGED <<loc, depth, mVars, rVars, rwVars, count, bVars, running>>

OnceWait(t) ==
    /\ At(t, "o_wait") /\ done
    /\ Return(t)
    /\ UNCHANGED <<loc, depth, mVars, rVars, rwVars, count, bVars, oVars>>

Step(t) ==
    \/ Call(t)
    \/ MutexTryLock(t) \/ MutexUnlock(t)
    \/ RLockLoad(t) \/ RLockOwner(t) \/ RLockCas(t) \/ RLockSetOwner(t)
    \/ RLockSetCount(t) \/ RLockNested(t) \/ RUnlock(t) \/ RClearOwner(t) \/ RRelease(t)
    \/ ReadWait(t) \/ ReadInc(t) \/ ReadRecheck(t) \/ ReadBack(t) \/ ReadUnlock(t)
    \/ WriteCas(t) \/ WriteDrain(t) \/ WriteUnlock(t)
    \/ SemLoad(t) \/ SemCas(t) \/ SemSignal(t) \/ BinRelease(t)
    \/ BarrierGen(t) \/ BarrierInc(t) \/ BarrierSpin(t) \/ BarrierReturn(t)
    \/ OnceCheck(t) \/ OnceLock(t) \/ OnceRun(t) \/ OnceDone(t) \/ OnceWait(t)

Next == \E t \in Callers : Step(t)

Spec == Init /\ [][Next]_vars

(***************************************************************************)
(* Properties                                                              *)
(***************************************************************************)

\* RecursiveMutex::lock lets only one caller hold guards at a time, however
\* the owner check and the three-step acquire interleave, and a nested
\* unlock does not release the lock its caller still holds.
RecursiveExclusion ==
    Cardinality({t \in Callers : depth[t] > 0}) <= 1

\* RwLock: a writer that returned from write() excludes every reader that
\* returned from read(), and every other writer; a reader that raced a
\* writer's compare_exchange backs out.
RwExclusion ==
    \A t \in Callers : At(t, "rw_wcs") =>
        \A u \in Callers \ {t} : ~At(u, "rw_wcs") /\ ~At(u, "rw_rcs")

\* Semaphore: the callers inside wait's critical section plus the count
\* always add up to the initial count; no unit is lost or duplicated by
\* wait's load and compare_exchange racing another wait or a signal.
SemConserved ==
    Cardinality({t \in Callers : At(t, "s_cs")}) + count["S"] = SEM_INIT

\* BinarySemaphore::release: "ensure count doesn't exceed 1".
BinaryBounded == count["B"] <= 1

\* Barrier::wait returns only once every caller has called it as many
\* times as the returning caller has: nobody leaves a round early.
BarrierSync ==
    \A t \in Callers : At(t, "bar_out") =>
        \A u \in Callers : arrived[u] >= arrived[t]

TypeOK ==
    /\ \A t \in Callers : depth[t] \in 0..MAX_DEPTH
    /\ readers \in 0..Cardinality(Callers)
    /\ cur \in 0..(COUNT - 1)

====
