CONSTANTS
  Values = {a, b}
  INT_MIN = INT_MIN
  Capacities = {0, 1}
  VECTOR_INITIAL_CAPACITY = 2
  MaxSize = 4
SPECIFICATION Spec
INVARIANTS
  TypeOK
  InCapacity
  VacanciesAreHoles
  CountIsUsed
PROPERTY
  ImplementsMap
