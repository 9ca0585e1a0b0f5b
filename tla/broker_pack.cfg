SPECIFICATION Spec
INVARIANTS BoundariesPassThePack
CHECK_DEADLOCK FALSE
