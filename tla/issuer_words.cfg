SPECIFICATION Spec
INVARIANTS OwnPodsFit
CHECK_DEADLOCK FALSE
