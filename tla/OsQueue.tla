------------------------------ MODULE OsQueue ------------------------------
(***************************************************************************)
(* The XR806 OS message queue wrapper over RT-Thread                       *)
(* (src/src/kernel/os/RT-Thread/os_queue.c).                               *)
(*                                                                         *)
(* OS_QueueCreate makes an rt_mq of queueLen messages; OS_QueueSend and    *)
(* OS_QueueReceive call rt_mq_send_wait and rt_mq_recv, with no wait in    *)
(* ISR context, and map any error to OS_FAIL.  The kernel's queue is      *)
(* FIFO; a sender finding it full fails at once (no wait) or is suspended *)
(* until a receive frees a slot or its timer fires; a receiver finding it  *)
(* empty likewise.  Those kernel calls are not in the repository.          *)
(*                                                                         *)
(* Senders send their own messages in order; receivers take messages.      *)
(* What the callers were told (sent: the messages whose send returned      *)
(* OS_OK) is compared with what the queue delivered.                       *)
(***************************************************************************)
EXTENDS Naturals, Sequences

CONSTANTS
    Senders,
    Receivers,
    WaitKind,   \* [Senders \cup Receivers -> {"forever", "timed", "isr"}]
    QueueLen,   \* queueLen of OS_QueueCreate
    MaxMsgs     \* messages each sender sends

ASSUME /\ Senders \cap Receivers = {}
       /\ WaitKind \in [Senders \cup Receivers -> {"forever", "timed", "isr"}]
       /\ QueueLen \in Nat \ {0}

Procs == Senders \cup Receivers

VARIABLES
    mq,         \* the rt_mq's messages, oldest first
    pc,         \* "run", "blocked", "done" (a sender that sent all)
    next,       \* [Senders -> Nat]: number of the sender's next message
    sent,       \* messages whose OS_QueueSend returned OS_OK, in that order
    got         \* messages OS_QueueReceive returned with OS_OK, in order

vars == <<mq, pc, next, sent, got>>

\* OS_QueueCreate (lines 40-52): an empty queue.
Init ==
    /\ mq = <<>>
    /\ pc = [p \in Procs |-> "run"]
    /\ next = [s \in Senders |-> 1]
    /\ sent = <<>>
    /\ got = <<>>

\* In ISR context the wait is 0 (lines 73 and 91).
MayWait(p) == WaitKind[p] # "isr"

\* A send that reports OS_OK whatever rt_mq_send_wait returned.
SendOkIgnoringRet(ret) == TRUE

\* ret != RT_EOK gives OS_FAIL (lines 78-81).
SendOk(ret) == ret = "EOK"

\* The sender's view of its call: its message counts as sent on OS_OK;
\* either way it moves on to its next message.
SendReturned(s, ret) ==
    /\ sent' = IF SendOk(ret) THEN Append(sent, <<s, next[s]>>) ELSE sent
    /\ next' = [next EXCEPT ![s] = @ + 1]
    /\ pc' = [pc EXCEPT ![s] = IF next[s] = MaxMsgs THEN "done" ELSE "run"]

\* OS_QueueSend (lines 70-84): rt_mq_send_wait.
Send(s) ==
    /\ pc[s] = "run"
    /\ s \in Senders
    /\ IF Len(mq) < QueueLen
       THEN /\ mq' = Append(mq, <<s, next[s]>>)
            /\ SendReturned(s, "EOK")
       ELSE IF MayWait(s)
       THEN /\ pc' = [pc EXCEPT ![s] = "blocked"]
            /\ UNCHANGED <<mq, next, sent>>
       ELSE /\ SendReturned(s, "EFULL")
            /\ UNCHANGED mq
    /\ UNCHANGED got

\* A suspended sender is resumed once a slot is free and completes its send.
SendResume(s) ==
    /\ pc[s] = "blocked"
    /\ s \in Senders
    /\ Len(mq) < QueueLen
    /\ mq' = Append(mq, <<s, next[s]>>)
    /\ SendReturned(s, "EOK")
    /\ UNCHANGED got

\* ret != RT_EOK gives OS_FAIL (lines 97-100).
RecvOk(ret) == ret = "EOK"

\* The receiver's view of its call: on OS_OK it uses the item rt_mq_recv
\* copied out; on OS_FAIL the item buffer still holds whatever it held,
\* written <<r, 0>> (no message is numbered 0).
RecvReturned(r, ret, m) ==
    got' = IF RecvOk(ret) THEN Append(got, m) ELSE got

\* OS_QueueReceive (lines 86-103): rt_mq_recv.
Receive(r) ==
    /\ pc[r] = "run"
    /\ r \in Receivers
    /\ IF mq # <<>>
       THEN /\ RecvReturned(r, "EOK", Head(mq))
            /\ mq' = Tail(mq)
            /\ UNCHANGED pc
       ELSE IF MayWait(r)
       THEN /\ pc' = [pc EXCEPT ![r] = "blocked"]
            /\ UNCHANGED <<mq, got>>
       ELSE /\ RecvReturned(r, "ETIMEOUT", <<r, 0>>)
            /\ UNCHANGED <<mq, pc>>
    /\ UNCHANGED <<next, sent>>

\* A suspended receiver is resumed by a message and takes it.
ReceiveResume(r) ==
    /\ pc[r] = "blocked"
    /\ r \in Receivers
    /\ mq # <<>>
    /\ RecvReturned(r, "EOK", Head(mq))
    /\ mq' = Tail(mq)
    /\ pc' = [pc EXCEPT ![r] = "run"]
    /\ UNCHANGED <<next, sent>>

\* The timer of a finite wait fires first: the call returns OS_FAIL.
Timeout(p) ==
    /\ pc[p] = "blocked"
    /\ WaitKind[p] = "timed"
    /\ IF p \in Senders
       THEN /\ SendReturned(p, "ETIMEOUT") /\ UNCHANGED <<mq, got>>
       ELSE /\ pc' = [pc EXCEPT ![p] = "run"]
            /\ RecvReturned(p, "ETIMEOUT", <<p, 0>>)
            /\ UNCHANGED <<mq, next, sent>>

Next == \E p \in Procs :
          Send(p) \/ SendResume(p) \/ Receive(p) \/ ReceiveResume(p) \/ Timeout(p)

\* The scheduler runs a resumed thread, and receivers keep receiving.
Fairness == \A p \in Procs : /\ WF_vars(SendResume(p)) /\ WF_vars(ReceiveResume(p))
                             /\ (p \in Receivers => WF_vars(Receive(p)))

Spec == Init /\ [][Next]_vars /\ Fairness

-----------------------------------------------------------------------------
(* Properties                                                              *)

(* No message is lost, duplicated or reordered as callers see it: what    *)
(* receivers got, followed by what is still queued, is exactly the        *)
(* messages whose OS_QueueSend returned OS_OK, in that order.  A send that  *)
(* failed (a full queue in an ISR, a timeout) must say so, and a receive  *)
(* that failed must not hand its caller a message.                         *)
Delivered == got \o mq = sent
=============================================================================
