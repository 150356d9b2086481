SPECIFICATION Spec
CONSTANTS
  Objects = {s1, s2}
  Blocks = {b1, b2, b3}
  Bytes = {a, b}
  MaxArray = 1
  MaxSize = 3
SYMMETRY Symmetry
INVARIANT BlocksAreOwned
PROPERTIES CopiesAreIndependent AppendsAtTheEnd
