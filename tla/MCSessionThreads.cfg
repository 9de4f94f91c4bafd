SPECIFICATION Spec
INVARIANTS TypeOK NoDeadlock RestoredWhenQuiet
PROPERTIES StopEnds
CHECK_DEADLOCK FALSE
