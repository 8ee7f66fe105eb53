------------------------------ MODULE OsMutex ------------------------------
(***************************************************************************)
(* The XR806 OS mutex wrapper over RT-Thread                               *)
(* (src/src/kernel/os/RT-Thread/os_mutex.c).                               *)
(*                                                                         *)
(* OS_MutexLock / OS_RecursiveMutexLock call rt_mutex_take and map any     *)
(* error to OS_FAIL; the unlock functions do the same with                 *)
(* rt_mutex_release.  Both kinds are the same rt_mutex, which is           *)
(* recursive: its owner may take it again and must release it as often.    *)
(* rt_mutex_take and rt_mutex_release are the kernel's (not in the         *)
(* repository): a take by the owner counts up, a free mutex is taken, else *)
(* the caller fails at once (wait 0) or is suspended; the last release     *)
(* hands the mutex to a suspended taker, if any.                           *)
(*                                                                         *)
(* Each thread loops: lock (perhaps again, up to MaxDepth), unlock.  A    *)
(* thread whose lock failed does not enter the critical section.           *)
(***************************************************************************)
EXTENDS Naturals, Sequences

CONSTANTS
    Threads,
    WaitKind,   \* [Threads -> {"forever", "timed", "poll"}]: waitMS of its locks
    MaxDepth,   \* how deep a thread nests its own locks
    Prio,       \* [Threads -> Nat]: RT-Thread priority, lower is more urgent
    NoOwner

ASSUME /\ WaitKind \in [Threads -> {"forever", "timed", "poll"}]
       /\ MaxDepth \in Nat \ {0}
       /\ NoOwner \notin Threads
       /\ Prio \in [Threads -> Nat]

VARIABLES
    owner,      \* rt_mutex->owner
    hold,       \* rt_mutex->hold
    waiting,    \* threads suspended in rt_mutex_take, in wake-up order
    pc,         \* "run" or "blocked"
    depth       \* how many OS_OK locks the thread has not yet unlocked

vars == <<owner, hold, waiting, pc, depth>>

Init ==
    /\ owner = NoOwner
    /\ hold = 0
    /\ waiting = <<>>
    /\ pc = [t \in Threads |-> "run"]
    /\ depth = [t \in Threads |-> 0]

\* RT_IPC_FLAG_PRIO (rt_mutex_create, lines 44 and 97): a suspended thread
\* queues behind every waiter of equal or higher priority.
Suspend(w, t) == SelectSeq(w, LAMBDA x : Prio[x] <= Prio[t]) \o <<t>>
                 \o SelectSeq(w, LAMBDA x : Prio[x] > Prio[t])

\* A timeout that leaves the thread in the kernel's wait queue.
DequeueDropped(w, t) == w

\* rt_mutex_take's timeout path removes the thread from the wait queue.
Dequeue(w, t) == SelectSeq(w, LAMBDA x : x # t)

\* The caller's view of a lock call: OS_OK raises its depth.
Returned(t, ok) == /\ pc' = [pc EXCEPT ![t] = "run"]
                   /\ depth' = [depth EXCEPT ![t] = IF ok THEN @ + 1 ELSE @]

\* A wrapper that reports OS_OK whatever rt_mutex_take returned.
LockResultIgnoringRet(ret) == TRUE

\* ret != RT_EOK gives OS_FAIL (lines 72-77 and 122-126).
LockResult(ret) == ret = "EOK"

\* OS_MutexLock / OS_RecursiveMutexLock (lines 62-78, 112-127): rt_mutex_take.
Lock(t) ==
    /\ pc[t] = "run"
    /\ depth[t] < MaxDepth
    /\ CASE owner = t ->
              /\ hold' = hold + 1
              /\ Returned(t, LockResult("EOK"))
              /\ UNCHANGED <<owner, waiting>>
         [] owner = NoOwner ->
              /\ owner' = t /\ hold' = 1
              /\ Returned(t, LockResult("EOK"))
              /\ UNCHANGED waiting
         [] WaitKind[t] = "poll" ->
              /\ Returned(t, LockResult("ETIMEOUT"))
              /\ UNCHANGED <<owner, hold, waiting>>
         [] OTHER ->
              /\ waiting' = Suspend(waiting, t)
              /\ pc' = [pc EXCEPT ![t] = "blocked"]
              /\ UNCHANGED <<owner, hold, depth>>

\* The timer of a finite wait fires first: rt_mutex_take fails.
LockTimeout(t) ==
    /\ pc[t] = "blocked"
    /\ WaitKind[t] = "timed"
    /\ waiting' = Dequeue(waiting, t)
    /\ Returned(t, LockResult("ETIMEOUT"))
    /\ UNCHANGED <<owner, hold>>

\* An unlock that returns before releasing the kernel mutex.
ReleaseDropped(t) == UNCHANGED <<owner, hold, waiting, pc>>

\* rt_mutex_release by the owner: count down; the last release hands the
\* mutex to the first suspended taker, whose take returns RT_EOK.
Release(t) ==
    IF hold > 1
    THEN /\ hold' = hold - 1
         /\ UNCHANGED <<owner, waiting, pc>>
    ELSE IF waiting = <<>>
    THEN /\ owner' = NoOwner /\ hold' = 0
         /\ UNCHANGED <<waiting, pc>>
    ELSE /\ owner' = Head(waiting) /\ hold' = 1
         /\ waiting' = Tail(waiting)
         /\ pc' = [pc EXCEPT ![Head(waiting)] = "run"]

\* OS_MutexUnlock / OS_RecursiveMutexUnlock (lines 80-92, 129-141) by a
\* thread in its critical section; the lock it woke counts for the waiter.
Unlock(t) ==
    /\ pc[t] = "run"
    /\ depth[t] > 0
    /\ Release(t)
    /\ depth' = [w \in Threads |->
                   IF w = t THEN depth[t] - 1
                   ELSE IF w = owner' /\ w # owner THEN depth[w] + 1
                   ELSE depth[w]]

Next == \E t \in Threads : Lock(t) \/ LockTimeout(t) \/ Unlock(t)

\* Unlocking from nesting depth k.
UnlockFrom(t, k) == Unlock(t) /\ depth[t] = k

\* Every critical section ends: whenever a thread is at depth k, it keeps
\* coming back to depth k until it unlocks from there, so a nesting unwinds
\* and the mutex is given up.  Whether a thread locks at all is its choice.
Fairness == \A t \in Threads, k \in 1..MaxDepth : SF_vars(UnlockFrom(t, k))

Spec == Init /\ [][Next]_vars /\ Fairness

-----------------------------------------------------------------------------
(* Properties                                                              *)

(* Mutual exclusion as callers see it: two threads never both hold an     *)
(* OS_OK lock they have not unlocked.  The wrapper keeps it only because   *)
(* it turns every failed rt_mutex_take (timeout, zero wait) into OS_FAIL.  *)
MutualExclusion ==
    \A t, u \in Threads : (t # u /\ depth[t] > 0) => depth[u] = 0

(* A thread waiting forever for the mutex eventually holds it: the owner's *)
(* last OS_MutexUnlock hands it over.                                      *)
WaitersAcquire ==
    \A t \in Threads : (pc[t] = "blocked" /\ WaitKind[t] = "forever") ~> depth[t] > 0

(* The callers' view of the mutex implements the abstract recursive mutex *)
(* of MutexSpec: OS_OK locks and unlocks of every thread, and the threads *)
(* waiting in OS_MutexLock, only ever change as a recursive mutex allows.  *)
(* In particular a thread whose lock timed out is never handed the mutex   *)
(* by a later unlock, and an unlock with waiters never frees it.          *)
Abstract == INSTANCE MutexSpec WITH held <- depth,
                                    blocked <- {t \in Threads : pc[t] = "blocked"}
ImplementsMutexSpec == Abstract!Spec
=============================================================================
