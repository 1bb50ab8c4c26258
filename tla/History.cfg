\* Jobs one after the other with one action each, and jobs of any kind at once.
CONSTANTS
  Jobs = {k1, k2, k3}  Users = {u1}  Ids = {d1, d2, d3, d4, d5}
  Settings <- BothSettings  NoId = NoId
SPECIFICATION Spec
SYMMETRY Symmetry
INVARIANTS OneUnanswered
PROPERTIES AnsweredIsKept SimpleJobIsRecorded
CHECK_DEADLOCK FALSE
