SPECIFICATION Spec
CONSTANTS
  Workers = {w1, w2}
  Names = {n1, n2}
  Passwords = {p1, p2}
  MaxRows = 3
  None = None
SYMMETRY Symmetry
INVARIANTS UsersTypeOK AcceptedCanLogin RegisteredOnce LoginIsSaved
