------------------------------ MODULE OsThread ------------------------------
(***************************************************************************)
(* Thread creation and deletion in the XR806 OS wrapper over RT-Thread     *)
(* (src/src/kernel/os/RT-Thread/os_thread.c).                              *)
(*                                                                         *)
(* One OS_Thread_t is shared by a controller thread, which creates the     *)
(* worker with OS_ThreadCreate and stops it with OS_ThreadDelete(&thread), *)
(* and by the worker itself, which ends by deleting itself, either through *)
(* the same struct or with OS_ThreadDelete(NULL).  Kernel threads are      *)
(* numbered 1..MaxCreates in creation order; handle 0 is the invalid       *)
(* handle of OS_ThreadSetInvalid.                                          *)
(*                                                                         *)
(* OS_HANDLE_ASSERT and OS_ThreadIsValid come from os_util.h, which is not *)
(* in the repository; they are taken as "handle # 0, else return           *)
(* OS_E_PARAM".  rt_thread_create may fail (no memory); rt_thread_startup  *)
(* of a new thread returns RT_EOK; rt_thread_delete stops the thread and   *)
(* hands its object to the idle thread to free.                            *)
(***************************************************************************)
EXTENDS Naturals

CONSTANTS
    MaxCreates,     \* OS_ThreadCreate calls that succeed, at most
    SelfDeleteForms \* subset of {"struct", "null"}: how the worker ends

ASSUME /\ MaxCreates \in Nat \ {0}
       /\ SelfDeleteForms \subseteq {"struct", "null"}

Kthreads == 1..MaxCreates
NoHandle == 0

VARIABLES
    handle,     \* thread->handle of the shared OS_Thread_t
    kstate,     \* [Kthreads -> {"unused", "running", "deleted"}]
    deletes,    \* [Kthreads -> Nat]: rt_thread_delete calls on the thread
    created,    \* kernel threads created so far
    cpc,        \* controller: "idle" or "deleting" (past line 80)
    cread,      \* the handle the controller read at line 80
    invalidated \* [Kthreads -> BOOLEAN]: worker is past line 85

vars == <<handle, kstate, deletes, created, cpc, cread, invalidated>>

Init ==
    /\ handle = NoHandle
    /\ kstate = [k \in Kthreads |-> "unused"]
    /\ deletes = [k \in Kthreads |-> 0]
    /\ created = 0
    /\ cpc = "idle"
    /\ cread = NoHandle
    /\ invalidated = [k \in Kthreads |-> FALSE]

\* rt_thread_delete(k): the thread never runs again.
KernelDelete(k) ==
    /\ kstate' = [kstate EXCEPT ![k] = "deleted"]
    /\ deletes' = [deletes EXCEPT ![k] = @ + 1]

\* OS_ThreadCreate (lines 43-63) by the controller, on an invalid struct
\* (else OS_HANDLE_ASSERT returns).  rt_thread_create returns a new thread,
\* which rt_thread_startup makes ready, or NULL, and the struct stays invalid.
ThreadCreate ==
    /\ cpc = "idle"
    /\ handle = NoHandle
    /\ created < MaxCreates
    /\ \/ /\ handle' = created + 1
          /\ kstate' = [kstate EXCEPT ![created + 1] = "running"]
          /\ created' = created + 1
       \/ UNCHANGED <<handle, kstate, created>>
    /\ UNCHANGED <<deletes, cpc, cread, invalidated>>

\* OS_ThreadDelete(&thread) by the controller, first part (lines 65-82):
\* the validity assertion, then thread->handle is read into handle.
DeleteRead ==
    /\ cpc = "idle"
    /\ handle # NoHandle
    /\ cpc' = "deleting"
    /\ cread' = handle
    /\ UNCHANGED <<handle, kstate, deletes, created, invalidated>>

\* Second part, deleting another thread (lines 88-94): rt_thread_delete on
\* the handle read, then OS_ThreadSetInvalid.
DeleteOther ==
    /\ cpc = "deleting"
    /\ KernelDelete(cread)
    /\ handle' = NoHandle
    /\ cpc' = "idle"
    /\ cread' = NoHandle
    /\ UNCHANGED <<created, invalidated>>

\* The worker k ends with OS_ThreadDelete(&thread), deleting itself
\* (lines 78-85): assertion, read, OS_ThreadSetInvalid.  Its handle is
\* still in the struct, since only it or a delete of it clears it.
SelfInvalidate(k) ==
    /\ "struct" \in SelfDeleteForms
    /\ kstate[k] = "running"
    /\ ~invalidated[k]
    /\ handle = k
    /\ handle' = NoHandle
    /\ invalidated' = [invalidated EXCEPT ![k] = TRUE]
    /\ UNCHANGED <<kstate, deletes, created, cpc, cread>>

\* ... then rt_thread_delete(handle) on itself (line 87).
SelfDelete(k) ==
    /\ kstate[k] = "running"
    /\ invalidated[k]
    /\ KernelDelete(k)
    /\ UNCHANGED <<handle, created, cpc, cread, invalidated>>

\* OS_ThreadDelete(NULL) (lines 72-75): rt_thread_delete(rt_thread_self())
\* and nothing else; the struct keeps the handle.
SelfDeleteNull(k) ==
    /\ "null" \in SelfDeleteForms
    /\ kstate[k] = "running"
    /\ ~invalidated[k]
    /\ KernelDelete(k)
    /\ UNCHANGED <<handle, created, cpc, cread, invalidated>>

Next ==
    \/ ThreadCreate \/ DeleteRead \/ DeleteOther
    \/ \E k \in Kthreads : SelfInvalidate(k) \/ SelfDelete(k) \/ SelfDeleteNull(k)

Spec == Init /\ [][Next]_vars

-----------------------------------------------------------------------------
(* Properties                                                              *)

(* No kernel thread is deleted twice.  A second rt_thread_delete of a      *)
(* thread that already deleted itself hits a thread object the idle thread *)
(* may already have freed.  OS_ThreadDelete(&thread) reads thread->handle  *)
(* at line 80 and uses it at line 92; nothing stops the worker deleting    *)
(* itself in between.                                                      *)
NoDoubleDelete == \A k \in Kthreads : deletes[k] <= 1
=============================================================================
