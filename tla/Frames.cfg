CONSTANTS
  Client = {c1}
  Session = {"a", "b"}
  MaxVersion = 1
SPECIFICATION Spec
INVARIANTS TypeOK DiffsFit
PROPERTIES StaysShown
