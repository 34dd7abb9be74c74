CONSTANTS
  a = a
  b = b
  c = c
  d = d
  Items = {a, b, c, d}
  NULL = NULL
SPECIFICATION Spec
INVARIANTS WellLinked
PROPERTIES DoneAsAsked ImplementsList
