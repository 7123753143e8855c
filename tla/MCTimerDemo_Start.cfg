SPECIFICATION Spec
CONSTANT Match = 3
INVARIANT StartTimerStarts
