\* Every operation from either side, on lists of up to three elements.
SPECIFICATION Spec
CONSTANTS
  x = x
  y = y
  f = f
  Value = {x, y, f}
  Unsupported = {f}
  Empty = Empty
  MaxLength = 3
  NoAssignment = NoAssignment
SYMMETRY ListSymmetry
INVARIANTS
  TypeOK
PROPERTIES
  KeepsMirror
