CONSTANTS
    MaxCreates = 2
    SelfDeleteForms = {"struct"}
SPECIFICATION Spec
INVARIANT NoDoubleDelete
CHECK_DEADLOCK FALSE
