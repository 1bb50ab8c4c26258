\* The second action of a job overwrites the first.
CONSTANTS
  Jobs = {k1, k2}  Users = {}  Ids = {d1, d2}
  Settings <- TwoAtOnce  NoId = NoId
SPECIFICATION Spec
SYMMETRY Symmetry
PROPERTIES SavedJobIsRecorded
CHECK_DEADLOCK FALSE
