SPECIFICATION Spec
INVARIANT MalformedIsNeverDropped
CHECK_DEADLOCK FALSE
