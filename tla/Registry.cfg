CONSTANTS
  Conn = {c1, c2}
  Name = {a, b}
  MaxSession = 2
SPECIFICATION Spec
CHECK_DEADLOCK FALSE
SYMMETRY Symmetry
INVARIANTS TypeOK Coherent StopsWhenEmpty
