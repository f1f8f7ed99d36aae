SPECIFICATION Spec
CONSTANTS
  Key = {"a", "b"}
  Segment <- Segments
  Scalar = {"v", "w"}
  Absent = "absent"
  MaxIndex = 2
  IndexOf <- Indices
  MaxOps = 3
  Documents <- SmallDocuments
CHECK_DEADLOCK FALSE
INVARIANTS FastIsRfc BaseUntouched PatchUntouched
