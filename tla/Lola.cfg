CONSTANTS
  Sources <- MCSources
  Rows <- MCRows
  MaxRows = 3
  Horizon = 5
  TextLeq <- MCTextLeq
SPECIFICATION CSpec
INVARIANTS RoundTrip TypeSound SemanticsAgree NeverWaitsForItself RemoveUndoesAdd ConstraintsFollowStreams ConstraintsKeepUp
PROPERTY OutputsGrow
CHECK_DEADLOCK FALSE
