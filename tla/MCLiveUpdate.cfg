\* A two-file project whose global functions stay; three updates.
CONSTANTS
  NumFiles = 2
  Names = {"main", "aux", "other", "x", "p", "q", "n", "puts", "gone"}
  Unique <- Unique1
  HostNames = {"puts"}
  Texts <- StableTexts
  MaxUpdates = 3
SPECIFICATION Spec
INVARIANTS SegsOwned ObjsOwned FixupsLive LinkedIsCurrent ExportsLive TargetsLive
PROPERTY StoresSurvive
CHECK_DEADLOCK FALSE
