\* Two overlapping sweeps, no fault at all.
CONSTANTS
  w1 = w1
  w2 = w2
  a1 = a1
  a2 = a2
  n1 = n1
  None = None
  Workers = {w1, w2}
  Messages = {a1}
  Alerts = {a1}
  Limit = 1
  Window = 1
  Interference = {}
  MaxFaults = 0
SPECIFICATION Spec
PROPERTY
  MarkedIsNotRerun
