\* Every order of pushes and picks of seven items.
CONSTANTS
  Items = {1, 2, 3, 4, 5, 6, 7}
SPECIFICATION Spec
INVARIANTS HeapOrdered
PROPERTIES ImplementsPriorityQueue
