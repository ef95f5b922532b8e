\* Two front ends; three requests, or two and a death of the primary.
CONSTANTS
  c1 = c1  c2 = c2  None = None
  Clients <- FrontEnds
  NewNames <- FewNames
  MaxEvents = 3
  MaxCrashes = 1
SPECIFICATION Spec
SYMMETRY Symm
INVARIANTS NamesUnique  ListedOnce RegisteredOnce
PROPERTY EndsOnlyIf
CHECK_DEADLOCK FALSE
