SPECIFICATION Spec
CONSTANT MaxTime = 5
INVARIANT EntityWellFormed
INVARIANT ExpiredOnlyLate
PROPERTY NoLateCompletion
PROPERTY ImplementsLifecycle
