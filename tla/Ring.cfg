SPECIFICATION Spec
CONSTANTS
  a = a
  b = b
  c = c
  Garbage = Garbage
  Elements <- Elems
  max_capacity = 5
  MaxElements = 5
INVARIANTS TypeOK CountersAgree NoGarbage
PROPERTIES RemovalForm ImplementsBoundedQueue
