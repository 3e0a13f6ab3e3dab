SPECIFICATION Spec
CONSTANTS
  v1 = v1
  v2 = v2
  State = State
  Snap = Snap
  Absent = Absent
  Torn = Torn
  Value = {v1, v2}
INVARIANT Untorn
PROPERTY ActsAsStorage
SYMMETRY Symmetry
