CONSTANTS
    Takers <- MC_BinTakers
    Releasers <- MC_BinReleasers
    IsrReleasers <- MC_IsrReleasers
    WaitKind <- MC_BinWaitKind
    Creations <- MC_BinaryOnly
    SemValueMax <- MC_SemValueMax
SPECIFICATION Spec
INVARIANT CountBounded
CHECK_DEADLOCK FALSE
