SPECIFICATION X64Spec
CONSTANT BYTE = 4
INVARIANT UndefinedNeverProved
