--------------------------- MODULE MC_OsSemaphore ---------------------------
EXTENDS OsSemaphore, TLC

\* The binary semaphore signalled by a thread and an interrupt handler,
\* with one forever waiter.
MC_BinTakers == {"t1"}
MC_BinReleasers == {"r1", "r2"}
MC_IsrReleasers == {"r2"}
MC_BinWaitKind == "t1" :> "forever"
MC_BinaryOnly == {Binary}

MC_SemValueMax == 65535
=============================================================================
