---------------------------- MODULE OsSemaphore ----------------------------
(***************************************************************************)
(* The XR806 OS semaphore wrapper over RT-Thread                           *)
(* (src/src/kernel/os/RT-Thread/os_semaphore.c).                           *)
(*                                                                         *)
(* RT-Thread's rt_sem has no upper bound below RT_SEM_VALUE_MAX, so the     *)
(* wrapper keeps its own maxCount and OS_SemaphoreRelease drops a release  *)
(* when the kernel's value has reached it (line 110).  The check reads     *)
(* rt_sem->handle->value outside the kernel's critical section; the        *)
(* release itself (rt_sem_release) runs with interrupts disabled.  So a    *)
(* thread's release is two steps, Check and Release, and another release  *)
(* can come between them.  An interrupt handler's release runs to the end *)
(* before any thread runs again, so it is one step.                       *)
(*                                                                         *)
(* rt_sem_take and rt_sem_release are the kernel's, not this repository's: *)
(* a take decrements a positive value, else fails at once when it may not  *)
(* wait, else suspends the caller; a release resumes one suspended taker   *)
(* if there is one, else increments the value up to RT_SEM_VALUE_MAX.      *)
(***************************************************************************)
EXTENDS Naturals, FiniteSets

CONSTANTS
    Takers,         \* threads or ISRs calling OS_SemaphoreWait once
    Releasers,      \* callers of OS_SemaphoreRelease, once each
    IsrReleasers,   \* those of Releasers that are interrupt handlers
    WaitKind,       \* [Takers -> {"forever", "timed", "isr"}]
    Creations,      \* set of [init, max]: the OS_SemaphoreCreate calls to consider
    SemValueMax     \* RT_SEM_VALUE_MAX of the kernel

ASSUME /\ IsrReleasers \subseteq Releasers
       /\ Takers \cap Releasers = {}
       /\ WaitKind \in [Takers -> {"forever", "timed", "isr"}]
       /\ Creations \subseteq [init: Nat, max: Nat]

Procs == Takers \cup Releasers

VARIABLES
    value,      \* rt_sem->handle->value
    maxCount,   \* rt_sem->maxCount
    waiting,    \* takers suspended in rt_sem_take
    pc,         \* "idle", "blocked" (takers), "checked" (releasers), "done"
    result      \* what the call returned: "none", "OK", "TIMEOUT", "FAIL"

vars == <<value, maxCount, waiting, pc, result>>

-----------------------------------------------------------------------------
(* OS_SemaphoreCreate(sem, init, max) (lines 45-61) and                    *)
(* OS_SemaphoreCreateBinary (lines 63-80, init 0 and max 1).  Neither      *)
(* checks init against max.                                                *)
Binary == [init |-> 0, max |-> 1]

Init ==
    /\ \E c \in Creations :
          /\ value = c.init
          /\ maxCount = c.max
    /\ waiting = {}
    /\ pc = [p \in Procs |-> "idle"]
    /\ result = [p \in Procs |-> "none"]

Finish(p, r) == /\ pc' = [pc EXCEPT ![p] = "done"]
                /\ result' = [result EXCEPT ![p] = r]

\* A take that also succeeds on an empty semaphore.
TakeAvailableOffByOne(v) == v >= 0

\* rt_sem_take's test for an available signal, reached from line 97.
TakeAvailable(v) == v > 0

\* OS_SemaphoreWait (lines 92-104).  In ISR context the wait is
\* RT_WAITING_NO (line 96); rt_sem_take then returns at once.
Wait(t) ==
    /\ pc[t] = "idle"
    /\ IF TakeAvailable(value)
       THEN /\ value' = value - 1
            /\ Finish(t, "OK")
            /\ UNCHANGED waiting
       ELSE IF WaitKind[t] = "isr"
       THEN /\ Finish(t, "TIMEOUT")
            /\ UNCHANGED <<value, waiting>>
       ELSE /\ waiting' = waiting \cup {t}
            /\ pc' = [pc EXCEPT ![t] = "blocked"]
            /\ UNCHANGED <<value, result>>
    /\ UNCHANGED maxCount

\* The timer of a finite wait fires first: rt_sem_take fails and the
\* wrapper returns OS_E_TIMEOUT (lines 98-100).
WaitTimeout(t) ==
    /\ pc[t] = "blocked"
    /\ WaitKind[t] = "timed"
    /\ waiting' = waiting \ {t}
    /\ Finish(t, "TIMEOUT")
    /\ UNCHANGED <<value, maxCount>>

\* A release that resumes a taker and also counts the signal.
KernelReleaseWakeAndCount(r) ==
    IF waiting # {}
    THEN \E t \in waiting :
            /\ waiting' = waiting \ {t}
            /\ pc' = [pc EXCEPT ![t] = "done", ![r] = "done"]
            /\ result' = [result EXCEPT ![t] = "OK", ![r] = "OK"]
            /\ value' = value + 1
    ELSE IF value < SemValueMax
    THEN /\ value' = value + 1
         /\ Finish(r, "OK")
         /\ UNCHANGED waiting
    ELSE /\ Finish(r, "FAIL")
         /\ UNCHANGED <<value, waiting>>

\* rt_sem_release on behalf of releaser r: resume a suspended taker, which
\* returns OS_OK from its wait, or count the release (line 113).
KernelRelease(r) ==
    IF waiting # {}
    THEN \E t \in waiting :
            /\ waiting' = waiting \ {t}
            /\ pc' = [pc EXCEPT ![t] = "done", ![r] = "done"]
            /\ result' = [result EXCEPT ![t] = "OK", ![r] = "OK"]
            /\ UNCHANGED value
    ELSE IF value < SemValueMax
    THEN /\ value' = value + 1
         /\ Finish(r, "OK")
         /\ UNCHANGED waiting
    ELSE /\ Finish(r, "FAIL")
         /\ UNCHANGED <<value, waiting>>

\* A release that drops the last slot as if the semaphore were full.
AtMaxOffByOne(v, m) == v + 1 >= m

\* The maxCount test of line 110.
AtMax(v, m) == v >= m

\* OS_SemaphoreRelease on a thread, first step: the test of line 110,
\* returning OS_OK without releasing when the semaphore is full.
Check(r) ==
    /\ pc[r] = "idle"
    /\ r \notin IsrReleasers
    /\ IF AtMax(value, maxCount)
       THEN Finish(r, "OK")
       ELSE /\ pc' = [pc EXCEPT ![r] = "checked"]
            /\ UNCHANGED result
    /\ UNCHANGED <<value, maxCount, waiting>>

\* Second step: rt_sem_release (lines 113-119).
Release(r) ==
    /\ pc[r] = "checked"
    /\ KernelRelease(r)
    /\ UNCHANGED maxCount

\* OS_SemaphoreRelease from an interrupt handler, in one step (lines 106-120).
IsrRelease(r) ==
    /\ pc[r] = "idle"
    /\ r \in IsrReleasers
    /\ IF AtMax(value, maxCount)
       THEN /\ Finish(r, "OK")
            /\ UNCHANGED <<value, waiting>>
       ELSE KernelRelease(r)
    /\ UNCHANGED maxCount

Next ==
    \/ \E t \in Takers : Wait(t) \/ WaitTimeout(t)
    \/ \E r \in Releasers : Check(r) \/ Release(r) \/ IsrRelease(r)

\* The scheduler eventually runs every ready thread and every releaser
\* eventually signals; a timeout need not fire.
Fairness ==
    /\ \A t \in Takers : WF_vars(Wait(t))
    /\ \A r \in Releasers : WF_vars(Check(r)) /\ WF_vars(Release(r))
                            /\ WF_vars(IsrRelease(r))

Spec == Init /\ [][Next]_vars /\ Fairness

-----------------------------------------------------------------------------
(* Properties                                                              *)

TypeOK ==
    /\ value \in 0..SemValueMax
    /\ maxCount \in Nat
    /\ waiting \subseteq Takers
    /\ pc \in [Procs -> {"idle", "blocked", "checked", "done"}]
    /\ result \in [Procs -> {"none", "OK", "TIMEOUT", "FAIL"}]

(* The count never exceeds the maxCount given at creation: a binary        *)
(* semaphore holds at most one signal.  The wrapper's test at line 110 is  *)
(* all that enforces this, since rt_sem itself counts up to 65535.          *)
CountBounded == value <= maxCount

(* When the semaphore is sized for its releasers, signals are neither made *)
(* nor lost: the count plus the takers whose OS_SemaphoreWait returned     *)
(* OS_OK equals the initial count plus the releasers whose                 *)
(* OS_SemaphoreRelease returned OS_OK.  A release that both resumes a      *)
(* taker and counts, a timed-out taker that still took a signal, or a      *)
(* release dropped at line 110 while reporting OS_OK breaks the balance.   *)
SignalsConserved ==
    \E c \in Creations :
        /\ c.max = maxCount
        /\ value + Cardinality({t \in Takers : result[t] = "OK"})
             = c.init + Cardinality({r \in Releasers : result[r] = "OK"})

(* When the semaphore is sized for its releasers, no release is dropped:   *)
(* every taker that waits forever eventually returns OS_OK.  A dropped     *)
(* release (line 110 deciding "full" wrongly) starves a waiter for good.   *)
ForeverWaitersServed ==
    <>(\A t \in Takers : WaitKind[t] = "forever" => result[t] = "OK")
=============================================================================
