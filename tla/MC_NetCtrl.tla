----------------------------- MODULE MC_NetCtrl -----------------------------
(* Model-checking instance of NetCtrl: two leasable DHCP addresses, one    *)
(* static STA address and one AP address, two IPv6 slots.                 *)
EXTENDS NetCtrl

MC_DhcpAddrs == {1, 2}
MC_StaStaticAddr == 3
MC_ApAddr == 4
=============================================================================
