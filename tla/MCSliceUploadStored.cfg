SPECIFICATION Spec
CONSTANTS
  Workers = {w1}
  N = 1
  MaxFaults = 1
PROPERTIES
  PushedIsStored
