SPECIFICATION Spec
CONSTANTS
  Files <- MCFiles
  Fill = 0
  Absent = Absent
INVARIANTS
  AccessesInBounds
  VerdictIsRight
  ChecksumSeesOneChange
