CONSTANT NumFiles = 3
SPECIFICATION Spec
INVARIANTS UnixReleasesOnce NothingLeft OwnState
PROPERTY CallsReturn
\* A mapping that fails is noticed by writing to address 0.
CHECK_DEADLOCK FALSE
