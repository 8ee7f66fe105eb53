------------------------------ MODULE Ip4Signal ------------------------------
(***************************************************************************)
(* What the network-control layer promises the observers of its event      *)
(* queue about IPv4, with no netif, DHCP or worker thread in it:          *)
(*                                                                         *)
(*   addr     the interface's IPv4 address, 0 when it has none             *)
(*   pending  the NETWORK_UP (TRUE) / NETWORK_DOWN (FALSE) events posted   *)
(*            and not yet handled, oldest first                            *)
(*   heard    what the last handled event said                             *)
(*                                                                         *)
(* Every change of the address posts exactly one event, saying whether the *)
(* new address is valid; events are handled one at a time, in the order   *)
(* they were posted, and every event posted is eventually handled.  The   *)
(* one change that posts nothing is the interface being destroyed: its    *)
(* address is gone and observers are not told.                            *)
(***************************************************************************)
EXTENDS Sequences

CONSTANT Addrs      \* addresses, 0 among them

VARIABLES addr, pending, heard

Init == addr = 0 /\ pending = <<>> /\ heard = FALSE

\* The address changes and one event says what it changed to.
SetAddr(a) == /\ a # addr
              /\ addr' = a
              /\ pending' = Append(pending, a # 0)
              /\ UNCHANGED heard

\* The oldest event is handled.
Deliver == /\ pending # <<>>
           /\ heard' = Head(pending)
           /\ pending' = Tail(pending)
           /\ UNCHANGED addr

\* The interface is destroyed with an address: no event says so.
Destroy == /\ addr # 0
           /\ addr' = 0
           /\ UNCHANGED <<pending, heard>>

Next == (\E a \in Addrs : SetAddr(a)) \/ Deliver \/ Destroy

Spec == Init /\ [][Next]_<<addr, pending, heard>>

\* Observers keep handling events: a posted event is not left pending for
\* ever.
LiveSpec == Spec /\ WF_<<addr, pending, heard>>(Deliver)
=============================================================================
