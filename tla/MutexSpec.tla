----------------------------- MODULE MutexSpec ------------------------------
(***************************************************************************)
(* What a recursive mutex promises its callers, whatever the kernel does   *)
(* underneath: the view of OS_MutexLock / OS_MutexUnlock callers.          *)
(*                                                                         *)
(*   held[t]   how many successful locks t has not yet unlocked            *)
(*   blocked   the threads waiting in a lock call                          *)
(*                                                                         *)
(* At most one thread holds the mutex; its holder may lock it again and    *)
(* must unlock it as often; a waiter may give up; the last unlock with     *)
(* waiters present passes the mutex to one of them, never to a thread that *)
(* is not waiting, and never frees it past them.                           *)
(***************************************************************************)
EXTENDS Naturals

CONSTANT Threads

VARIABLES held, blocked

Free == \A t \in Threads : held[t] = 0

Init == held = [t \in Threads |-> 0] /\ blocked = {}

Acquire(t) == /\ Free /\ t \notin blocked
              /\ held' = [held EXCEPT ![t] = 1]
              /\ UNCHANGED blocked

Reenter(t) == /\ held[t] > 0
              /\ held' = [held EXCEPT ![t] = @ + 1]
              /\ UNCHANGED blocked

Exit(t) == /\ held[t] > 1
           /\ held' = [held EXCEPT ![t] = @ - 1]
           /\ UNCHANGED blocked

\* The last unlock frees the mutex only when nobody waits.
Release(t) == /\ held[t] = 1 /\ blocked = {}
              /\ held' = [held EXCEPT ![t] = 0]
              /\ UNCHANGED blocked

Wait(t) == /\ ~Free /\ held[t] = 0 /\ t \notin blocked
           /\ blocked' = blocked \cup {t}
           /\ UNCHANGED held

GiveUp(t) == /\ t \in blocked
             /\ blocked' = blocked \ {t}
             /\ UNCHANGED held

Pass(t, u) == /\ held[t] = 1 /\ u \in blocked
              /\ held' = [held EXCEPT ![t] = 0, ![u] = 1]
              /\ blocked' = blocked \ {u}

Next == \E t \in Threads :
          \/ Acquire(t) \/ Reenter(t) \/ Exit(t) \/ Release(t)
          \/ Wait(t) \/ GiveUp(t) \/ \E u \in Threads : Pass(t, u)

Spec == Init /\ [][Next]_<<held, blocked>>
=============================================================================
