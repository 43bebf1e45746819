SPECIFICATION MCSpec
CONSTANTS
  Workers = {w1}
  Devs = {d1}
  Types = {"BLK", "IMG", "VHD"}
  None = None
  MaxGen = 1
  MaxStuck = 0
PROPERTIES
  AppendedIsPooled
