CONSTANTS
  Client = {c1, c2}
  Overflow = Overflow
  Capacity = 2
  Window = 3
  MaxClients = 1
  MaxBytes = 1
  MaxTime = 7
  MaxServed = 5
  NoUpload = NoUpload
SPECIFICATION Spec
SYMMETRY Symmetry
INVARIANTS
  TypeOK
  MemoryIsBounded
PROPERTIES
  ImplementsAllowance
