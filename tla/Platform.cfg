SPECIFICATION Spec
INVARIANT TypeOK
INVARIANT AtonMatchesReference
INVARIANT NtoaStaysInBuffer
INVARIANT SkipConsumesExactly
INVARIANT PinmuxOkMeansConfigured
INVARIANT TickPeriodExact
INVARIANT HaltWaits
INVARIANT MutualExclusion
INVARIANT SemTypeOK
INVARIANT SignalsConserved
INVARIANT Delivered
PROPERTY WaitersAcquire
PROPERTY ImplementsMutexSpec
PROPERTY ForeverWaitersServed
\* Every part is a finite sequence of calls.
CHECK_DEADLOCK FALSE
