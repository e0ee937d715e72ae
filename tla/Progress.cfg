SPECIFICATION Spec
PROPERTIES
    WorkEndsAtLast
    IdleMeansDrained
\* Every bound is a place where a component stops.
CHECK_DEADLOCK FALSE
