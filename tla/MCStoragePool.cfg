SPECIFICATION MCSpec
CONSTANTS
  Workers = {w1, w2}
  Devs = {d1, d2}
  Types = {"BLK", "IMG"}
  None = None
  MaxGen = 2
  MaxStuck = 1
INVARIANTS
  LayersBounded
  RowsAreCurrent
PROPERTIES
  CleanApplyServesTable
SYMMETRY Symmetry
