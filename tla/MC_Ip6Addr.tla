----------------------------- MODULE MC_Ip6Addr -----------------------------
EXTENDS Ip6Addr, Ip6Inputs
=============================================================================
