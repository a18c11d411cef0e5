CONSTANTS
  N = 3
  Keys = {1, 2, 3, 4}
  Vals = {0, 1}
SPECIFICATION Spec

PROPERTY JoinIsIntersection
